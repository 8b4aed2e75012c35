---------------------------- MODULE OrganizerJob ----------------------------
(***************************************************************************)
(* The transactional store behind the organizer: the PostgreSQL functions  *)
(* that create, lease, disclose, prepare, publish, fail, recover, retry and *)
(* withdraw one organization job per capture.  Every function takes the    *)
(* owner's advisory lock and then the job row, so one call is one atomic   *)
(* step.  The callers are arbitrary here: any lease token ever issued may  *)
(* be presented, in any order; OrganizerDrain composes this store with the *)
(* worker that the repository ships.                                       *)
(*                                                                         *)
(* Abstracted: a lease token is the number of the claim that issued it, so  *)
(* the columns (attempt, lease_token) of a page or a preparation are that   *)
(* one number; the four (or five) reservations of a preparation share one   *)
(* life and are one id; time is a nondeterministic expiry; the replay of a  *)
(* call that already answered changes nothing and is a stutter.            *)
(***************************************************************************)
EXTENDS Integers, FiniteSets

CONSTANTS
  Jobs,            \* organization jobs; a job stands for its capture too
  Notes,           \* note ids, those the organizer may create included
  ReservationIds,  \* wrap-operation reservation ids callers may present
  NoNote, NoReservation,
  StableNote,      \* StableNote[j]: the id 'note_' || suffix of job j
  MaxAttempts,     \* organization_jobs.attempt never exceeds it (5 in the code)
  MaxRetries,      \* bound: manual retries of a job (unbounded in the code)
  MaxRevision,     \* bound: the owner writes a note only below this revision
  OwnerStatuses,   \* bound: the statuses an owner's note write may leave behind
  ControlKinds     \* bound: the routing controls captures arrive with

ASSUME JobIdsAssumption ==
  /\ StableNote \in [Jobs -> Notes]
  /\ \A i, j \in Jobs : StableNote[i] = StableNote[j] => i = j
ASSUME NullAssumption == NoNote \notin Notes /\ NoReservation \notin ReservationIds
ASSUME BoundAssumption ==
  /\ MaxAttempts \in Nat \ {0}
  /\ MaxRetries \in Nat
  /\ MaxRevision \in Nat \ {0}
ASSUME StatusAssumption ==
  OwnerStatuses \subseteq {"open", "closed", "archived", "trashed", "private"}
ASSUME KindAssumption == ControlKinds \subseteq {"none", "explicit", "rule"}

VARIABLES
  job,          \* organization_jobs
  capture,      \* captures.status
  control,      \* the capture's routing control: explicit destination or rule
  page,         \* encrypted_organizer_candidate_pages
  prep,         \* encrypted_organizer_preparations
  reservation,  \* content_key_operation_reservations
  note,         \* notes: current_revision and what the organizer may do with it
  linked,       \* capture_note_links, review_items: the note a publication names
  published     \* history: publications (note writes or Reviews) of each job

vars == <<job, capture, control, page, prep, reservation, note, linked, published>>

JobState == {"absent", "created", "running", "awaiting_retry",
             "succeeded", "failed", "dead_letter"}
CaptureStatus == {"absent", "queued", "processing", "organized",
                  "needs_review", "inbox", "failed", "deleted"}
NoteStatus == {"absent", "open", "closed", "archived", "trashed", "private"}
Outcome == {"created", "appended", "review"}

Controls == [kind : {"none"}, note : {NoNote}]
              \cup [kind : {"explicit", "rule"}, note : Notes]
NoControl == [kind |-> "none", note |-> NoNote]

\* A candidate manifest binds every listed note to its revision and isOpen.
Manifest == [Notes -> [is : {"unlisted", "open", "closed"}, rev : Nat]]

NoPage == [token |-> 0, control |-> NoControl, verdict |-> "none",
           cand |-> [n \in Notes |-> [is |-> "unlisted", rev |-> 0]]]
NoRequest == [note |-> NoNote, rev |-> 0, res |-> NoReservation]
NoPrep == [mode |-> "none", token |-> 0, gen |-> 0, note |-> NoNote, rev |-> 0,
           res |-> NoReservation, control |-> NoControl, replanned |-> NoRequest,
           status |-> "open"]

-----------------------------------------------------------------------------
(* What the guards read.                                                   *)

\* notes.privacy = 'ai_assisted' and not deleted.
Disclosable(n) == note[n].status \in {"open", "closed", "archived"}
\* ... and not archived: the note may be listed and must still be to disclose.
Eligible(n) == note[n].status \in {"open", "closed"}
\* ... and is_open: the note may take an append.
Appendable(n) == note[n].status = "open"

Leased(j) == job[j].state = "running"
Active(j) == job[j].state \in {"created", "running", "awaiting_retry"}

\* assert_encrypted_organizer_lease
LeaseHeld(j, t) ==
  /\ Leased(j) /\ job[j].token = t /\ job[j].lease = "live"
  /\ capture[j] = "processing"

PageHeld(j) == page[j].token = job[j].token
PageAuthorized(j) ==
  PageHeld(j) /\ page[j].verdict = "authorized"

\* The manifest the page bound lists n, open, at revision v.
Authorizes(j, n, v) ==
  /\ page[j].cand[n] = [is |-> "open", rev |-> v]
  /\ page[j].control.kind = "explicit" => page[j].control.note = n

HasPrep(j) == prep[j].mode # "none"
OpenPrep(j) == HasPrep(j) /\ prep[j].status = "open"

\* The listed candidates that are no longer what the page bound them to.
Drifted(j) ==
  {n \in Notes : /\ page[j].cand[n].is # "unlisted"
                 /\ \/ note[n].status # page[j].cand[n].is
                    \/ note[n].rev # page[j].cand[n].rev}
Conflicted(j) == page[j].control # control[j] \/ Drifted(j) # {}

\* The candidate whose revision a conflict reads: the first drifted one in the
\* page's order, none where the controls alone changed.
Culprits(j) == IF Drifted(j) # {} THEN Drifted(j) ELSE {NoNote}

\* A rule pins its destination: a publication elsewhere is not the rule's.
RuleBroken(j) ==
  /\ prep[j].control.kind = "rule"
  /\ \/ prep[j].mode # "append"
     \/ prep[j].note # prep[j].control.note
     \/ ~Appendable(prep[j].note)

\* The append target is still the revision the preparation expects.
TargetCurrent(j) ==
  Appendable(prep[j].note) /\ note[prep[j].note].rev = prep[j].rev

-----------------------------------------------------------------------------
(* Effects shared by the operations.                                       *)

\* burn_encrypted_organizer_reservations: every unconsumed reservation of an
\* open preparation is consumed, so no later call can seal under it.
Burned(j) ==
  [r \in ReservationIds |->
     IF OpenPrep(j) /\ r = prep[j].res THEN "spent" ELSE reservation[r]]

\* The preparation after its reservations and its controls are cleared.
Cleared(j) ==
  IF OpenPrep(j)
  THEN [prep[j] EXCEPT !.res = NoReservation, !.control = NoControl]
  ELSE prep[j]

\* The lease ends: token, owner and expiry are nulled together.
Ended(j, s) == [job[j] EXCEPT !.state = s, !.token = 0, !.lease = "none"]

\* What a conflict found under the lease does, whoever finds it: the one
\* replan is spent and the reservations are burned.
\* (mutant) ... counted instead of set
SpendReplanCounted(j) == job' = [job EXCEPT ![j].replan = @ + 1]
SpendReplan(j) == job' = [job EXCEPT ![j].replan = 1]
\* (mutant) the preparation keeps its reservations and its generation
VoidNothing(j, v, request) == UNCHANGED <<reservation, prep>>
VoidPreparation(j, v, request) ==
  /\ reservation' = Burned(j)
  /\ prep' = [prep EXCEPT ![j] =
       IF OpenPrep(j)
       THEN [Cleared(j) EXCEPT !.gen = 1, !.rev = v, !.replanned = request]
       ELSE prep[j]]

\* Where an attempt that ends without a publication leaves job and capture.
Requeue(j) ==
  /\ job' = [job EXCEPT ![j] = Ended(j, "awaiting_retry")]
  /\ capture' = [capture EXCEPT ![j] = "queued"]
GiveUp(j, state, status) ==
  /\ job' = [job EXCEPT ![j] = Ended(j, state)]
  /\ capture' = [capture EXCEPT ![j] = status]

\* Every way a lease ends burns the reservations and clears the preparation.
ReleasePreparation(j) ==
  /\ reservation' = Burned(j)
  /\ prep' = [prep EXCEPT ![j] = Cleared(j)]

-----------------------------------------------------------------------------
(* Capture, claim and the lease.                                           *)

\* create_encrypted_capture_with_job
Capture(j, c) ==
  /\ capture[j] = "absent" /\ c.kind \in ControlKinds
  /\ c.kind = "explicit" => note[c.note].status \in {"open", "closed", "private"}
  /\ c.kind = "rule" => Appendable(c.note)
  /\ capture' = [capture EXCEPT ![j] = "queued"]
  /\ control' = [control EXCEPT ![j] = c]
  /\ job' = [job EXCEPT ![j].state = "created"]
  /\ UNCHANGED <<page, prep, reservation, note, linked, published>>

\* The job under a fresh lease, and the preparation an earlier attempt left
\* open, which moves under the new token.
Started(j) ==
  [job[j] EXCEPT !.state = "running", !.attempt = @ + 1, !.lease = "live",
                 !.issued = @ + 1, !.token = job[j].issued + 1]
Rebound(j) ==
  IF OpenPrep(j)
  THEN [prep[j] EXCEPT !.token = job[j].issued + 1, !.gen = job[j].replan,
                       !.replanned = NoRequest]
  ELSE prep[j]

\* claim_encrypted_organizer_jobs
Claim(j) ==
  /\ job[j].state \in {"created", "awaiting_retry"}
  /\ job[j].attempt < MaxAttempts
  /\ capture[j] = "queued"
  /\ job' = [job EXCEPT ![j] = Started(j)]
  /\ capture' = [capture EXCEPT ![j] = "processing"]
  /\ prep' = [prep EXCEPT ![j] = Rebound(j)]
  /\ page' = [page EXCEPT ![j] = NoPage]
  /\ UNCHANGED <<control, reservation, note, linked, published>>

\* lease_expires_at passes.
Expire(j) ==
  /\ Leased(j) /\ job[j].lease = "live"
  /\ job' = [job EXCEPT ![j].lease = "expired"]
  /\ UNCHANGED <<capture, control, page, prep, reservation, note, linked, published>>

\* (mutant) a spent attempt budget is queued again
RecoverAlways(j) ==
  /\ Leased(j) /\ job[j].lease = "expired"
  /\ Requeue(j) /\ ReleasePreparation(j)
  /\ UNCHANGED <<control, page, note, linked, published>>

\* (mutant) the sweep selects only jobs with attempts left
RecoverBelowLimit(j) ==
  /\ Leased(j) /\ job[j].lease = "expired" /\ job[j].attempt < MaxAttempts
  /\ Requeue(j) /\ ReleasePreparation(j)
  /\ UNCHANGED <<control, page, note, linked, published>>

\* recover_stale_encrypted_organizer_jobs
Recover(j) ==
  /\ Leased(j) /\ job[j].lease = "expired"
  /\ IF job[j].attempt < MaxAttempts
     THEN Requeue(j) ELSE GiveUp(j, "dead_letter", "failed")
  /\ ReleasePreparation(j)
  /\ UNCHANGED <<control, page, note, linked, published>>

\* fail_encrypted_organizer_job.  The kinds: an error that may be retried, one
\* that may not, a rejected provider key, and a rejected key whose snapshot
\* falls back to the app's own.
Fail(j, t, kind) ==
  /\ LeaseHeld(j, t)
  /\ \/ kind \in {"retryable", "fallback"} /\ job[j].attempt < MaxAttempts /\ Requeue(j)
     \/ kind = "retryable" /\ job[j].attempt = MaxAttempts
        /\ GiveUp(j, "dead_letter", "failed")
     \/ kind = "permanent" /\ GiveUp(j, "failed", "failed")
     \/ kind = "key_invalid" /\ GiveUp(j, "failed", "inbox")
  /\ ReleasePreparation(j)
  /\ UNCHANGED <<control, page, note, linked, published>>

-----------------------------------------------------------------------------
(* Disclosure: list a page of candidates, then authorize it.               *)

\* A listing is bounded by a limit, a byte budget and the retrieval's choice:
\* any eligible notes, an eligible explicit destination among them; a rule
\* fences the page to its own open destination.
Listable(j) ==
  {S \in SUBSET {n \in Notes : Eligible(n)} :
     /\ control[j].kind = "explicit" /\ Eligible(control[j].note)
          => control[j].note \in S
     /\ control[j].kind = "rule" => \A n \in S : n = control[j].note /\ Appendable(n)}

\* list_encrypted_organizer_candidates: the page replaces any earlier one.
List(j, t, S) ==
  /\ LeaseHeld(j, t)
  /\ page' = [page EXCEPT ![j] =
       [token |-> t, control |-> control[j], verdict |-> "none",
        cand |-> [n \in Notes |->
          IF n \in S THEN [is |-> note[n].status, rev |-> note[n].rev]
          ELSE [is |-> "unlisted", rev |-> 0]]]]
  /\ UNCHANGED <<job, capture, control, prep, reservation, note, linked, published>>

\* A conflict is recorded on the page, and the page authorizes nothing again.
RecordConflict(j) ==
  /\ \E c \in Culprits(j) :
       VoidPreparation(j,
         IF prep[j].mode = "append" /\ prep[j].note = c /\ note[c].status # "absent"
         THEN note[c].rev ELSE prep[j].rev,
         NoRequest)
  /\ SpendReplan(j)
  /\ page' = [page EXCEPT ![j].verdict = IF job[j].replan = 0 THEN "replan" ELSE "review"]

\* heartbeat_encrypted_organizer_job with a page that is no longer true.
HeartbeatConflict(j, t) ==
  /\ LeaseHeld(j, t) /\ PageHeld(j) /\ page[j].verdict \in {"none", "authorized"}
  /\ Conflicted(j)
  /\ RecordConflict(j)
  /\ UNCHANGED <<capture, control, note, linked, published>>

\* The append target a preparation names must still be disclosable, whatever
\* the page lists: otherwise the heartbeat raises target_not_disclosable.
TargetDisclosable(j) == prep[j].mode = "append" => Disclosable(prep[j].note)

\* heartbeat_encrypted_organizer_job: the page may go to the model.
HeartbeatAuthorize(j, t) ==
  /\ LeaseHeld(j, t) /\ PageHeld(j) /\ page[j].verdict \in {"none", "authorized"}
  /\ ~Conflicted(j) /\ TargetDisclosable(j)
  /\ page' = [page EXCEPT ![j].verdict = "authorized"]
  /\ UNCHANGED <<job, capture, control, prep, reservation, note, linked, published>>

-----------------------------------------------------------------------------
(* Preparation: reserve wrap operations for the envelopes to seal.         *)

MayPrepare(j, t) ==
  /\ LeaseHeld(j, t) /\ PageAuthorized(j)
  /\ HasPrep(j) => prep[j].status = "open" /\ prep[j].token = t

\* (mutant) an id that was reserved before is accepted
ReserveAnyId(j, t, mode, n, v, r, request) ==
  /\ reservation' = [Burned(j) EXCEPT ![r] = "held"]
  /\ prep' = [prep EXCEPT ![j] =
       [mode |-> mode, token |-> t, gen |-> job[j].replan, note |-> n, rev |-> v,
        res |-> r, control |-> page[j].control, replanned |-> request, status |-> "open"]]

\* prepare_encrypted_organizer_write: one reservation per preparation, and an
\* id that was ever reserved is refused.
Reserve(j, t, mode, n, v, r, request) ==
  /\ reservation[r] = "free"
  /\ reservation' = [Burned(j) EXCEPT ![r] = "held"]
  /\ prep' = [prep EXCEPT ![j] =
       [mode |-> mode, token |-> t, gen |-> job[j].replan, note |-> n, rev |-> v,
        res |-> r, control |-> page[j].control, replanned |-> request, status |-> "open"]]

\* prepare_encrypted_organizer_create
PrepareCreate(j, t, r) ==
  /\ MayPrepare(j, t)
  /\ prep[j].res = NoReservation
  /\ note[StableNote[j]].status = "absent"
  /\ Reserve(j, t, "create", StableNote[j], 0, r, NoRequest)
  /\ UNCHANGED <<job, capture, control, page, note, linked, published>>

\* prepare_encrypted_organizer_append; a request already answered is replayed.
MayPrepareAppend(j, t, n, v, r) ==
  /\ MayPrepare(j, t)
  /\ Authorizes(j, n, v)
  /\ prep[j].replanned # [note |-> n, rev |-> v, res |-> r]

PrepareAppend(j, t, n, v, r) ==
  /\ MayPrepareAppend(j, t, n, v, r)
  /\ prep[j].res = NoReservation
  /\ Appendable(n) /\ note[n].rev = v
  /\ Reserve(j, t, "append", n, v, r, NoRequest)
  /\ UNCHANGED <<job, capture, control, page, note, linked, published>>

\* The target moved: the first time the planner is asked again ...
PrepareAppendReplan(j, t, n, v, r) ==
  /\ MayPrepareAppend(j, t, n, v, r)
  /\ ~(Appendable(n) /\ note[n].rev = v)
  /\ job[j].replan = 0
  /\ SpendReplan(j)
  /\ reservation' = Burned(j)
  /\ prep' = [prep EXCEPT ![j] =
       [mode |-> "append", token |-> t, gen |-> 1, note |-> n,
        rev |-> IF Appendable(n) THEN note[n].rev ELSE v,
        res |-> NoReservation, control |-> NoControl,
        replanned |-> [note |-> n, rev |-> v, res |-> r], status |-> "open"]]
  /\ UNCHANGED <<capture, control, page, note, linked, published>>

\* ... and the second time a Review is prepared instead.
PrepareAppendReview(j, t, n, v, r) ==
  /\ MayPrepareAppend(j, t, n, v, r)
  /\ ~(Appendable(n) /\ note[n].rev = v)
  /\ job[j].replan = 1
  /\ note[StableNote[j]].status = "absent"
  /\ Reserve(j, t, "create", StableNote[j], 0, r, [note |-> n, rev |-> v, res |-> r])
  /\ UNCHANGED <<job, capture, control, page, note, linked, published>>

-----------------------------------------------------------------------------
(* Publication.  A command is sealed under the reservations of the open    *)
(* preparation, which the commit consumes with it.                         *)

MayCommit(j, t) ==
  LeaseHeld(j, t) /\ OpenPrep(j) /\ prep[j].token = t /\ prep[j].res # NoReservation

\* routing_rule_organizer_review_required: checked before the page is.
CommitRuleBroken(j, t, outcome) ==
  /\ MayCommit(j, t)
  /\ outcome # "review" /\ RuleBroken(j)
  /\ SpendReplan(j)
  /\ VoidPreparation(j, prep[j].rev, prep[j].replanned)
  /\ UNCHANGED <<capture, control, page, note, linked, published>>

ReachesHeartbeat(j, t, outcome) ==
  /\ MayCommit(j, t) /\ PageAuthorized(j)
  /\ ~(outcome # "review" /\ RuleBroken(j))

\* The commit repeats the heartbeat over the authorized page first.  (Its next
\* test, a preparation sealed under other controls than the page's, never
\* holds: PreparedAfterLastConflict and ControlsPinned.)
CommitConflict(j, t, outcome) ==
  /\ ReachesHeartbeat(j, t, outcome)
  /\ Conflicted(j)
  /\ RecordConflict(j)
  /\ UNCHANGED <<capture, control, note, linked, published>>

PassesHeartbeat(j, t, outcome) ==
  ReachesHeartbeat(j, t, outcome) /\ ~Conflicted(j) /\ TargetDisclosable(j)

\* The target moved outside the page the heartbeat compared.
CommitTargetMoved(j, t, outcome) ==
  /\ PassesHeartbeat(j, t, outcome)
  /\ prep[j].control = page[j].control
  /\ prep[j].mode = "append" /\ outcome # "review" /\ ~TargetCurrent(j)
  /\ SpendReplan(j)
  /\ VoidPreparation(j, IF Appendable(prep[j].note)
                        THEN note[prep[j].note].rev ELSE prep[j].rev,
                        prep[j].replanned)
  /\ UNCHANGED <<capture, control, page, note, linked, published>>

Succeed(j, status, n) ==
  /\ job' = [job EXCEPT ![j] = Ended(j, "succeeded")]
  /\ capture' = [capture EXCEPT ![j] = status]
  /\ reservation' = Burned(j)
  /\ prep' = [prep EXCEPT ![j].status = "completed"]
  /\ linked' = [linked EXCEPT ![j] = n]
  /\ published' = [published EXCEPT ![j] = @ + 1]

\* (mutant) the destination of a command is not compared with the owner's
PublishableAnywhere(j, t, outcome) ==
  PassesHeartbeat(j, t, outcome) /\ prep[j].control = page[j].control

Publishable(j, t, outcome) ==
  /\ PassesHeartbeat(j, t, outcome)
  /\ prep[j].control = page[j].control
  /\ prep[j].control.kind = "explicit" /\ outcome # "review" =>
       prep[j].mode = "append" /\ prep[j].note = prep[j].control.note

\* A note write is a compare-and-set on the revision the preparation names.
CommitCreate(j, t) ==
  /\ Publishable(j, t, "created")
  /\ prep[j].mode = "create"
  /\ note[prep[j].note].status = "absent"
  /\ note' = [note EXCEPT ![prep[j].note] = [rev |-> 1, status |-> "open"]]
  /\ Succeed(j, "organized", prep[j].note)
  /\ UNCHANGED <<control, page>>

\* (mutant) the publication heartbeat is trusted: nothing is compared again
CommitAppendBlind(j, t) ==
  /\ MayCommit(j, t) /\ prep[j].mode = "append"
  /\ note' = [note EXCEPT ![prep[j].note].rev = @ + 1]
  /\ Succeed(j, "organized", prep[j].note)
  /\ UNCHANGED <<control, page>>

CommitAppend(j, t) ==
  /\ Publishable(j, t, "appended")
  /\ prep[j].mode = "append" /\ TargetCurrent(j)
  /\ note' = [note EXCEPT ![prep[j].note].rev = @ + 1]
  /\ Succeed(j, "organized", prep[j].note)
  /\ UNCHANGED <<control, page>>

CommitReview(j, t) ==
  /\ Publishable(j, t, "review")
  /\ Succeed(j, "needs_review",
       IF prep[j].mode = "append" /\ Appendable(prep[j].note) THEN prep[j].note ELSE NoNote)
  /\ UNCHANGED <<control, page, note>>

Commit(j, t) ==
  \/ \E outcome \in Outcome :
       \/ CommitRuleBroken(j, t, outcome)
       \/ CommitConflict(j, t, outcome)
       \/ CommitTargetMoved(j, t, outcome)
  \/ CommitCreate(j, t) \/ CommitAppend(j, t) \/ CommitReview(j, t)

-----------------------------------------------------------------------------
(* The owner, and retention.                                               *)

\* (mutant) a retry goes on counting the attempts of the earlier life
RetryKeepsAttempts(j) ==
  /\ capture[j] = "failed" /\ job[j].state \in {"failed", "dead_letter"}
  /\ job[j].retries < MaxRetries
  /\ job' = [job EXCEPT ![j] = [Ended(j, "created") EXCEPT !.replan = 0, !.retries = @ + 1]]
  /\ capture' = [capture EXCEPT ![j] = "queued"]
  /\ page' = [page EXCEPT ![j] = NoPage]
  /\ prep' = [prep EXCEPT ![j] = Cleared(j)]
  /\ UNCHANGED <<control, reservation, note, linked, published>>

\* retry_encrypted_capture: a new life of the same job.
Retry(j) ==
  /\ capture[j] = "failed" /\ job[j].state \in {"failed", "dead_letter"}
  /\ job[j].retries < MaxRetries
  /\ job' = [job EXCEPT ![j] =
       [Ended(j, "created") EXCEPT !.attempt = 0, !.replan = 0, !.retries = @ + 1]]
  /\ capture' = [capture EXCEPT ![j] = "queued"]
  /\ page' = [page EXCEPT ![j] = NoPage]
  /\ prep' = [prep EXCEPT ![j] = Cleared(j)]
  /\ UNCHANGED <<control, reservation, note, linked, published>>

\* (mutant) the job of a capture already published is failed too
DeleteFailsEveryJob(j) ==
  /\ capture[j] \notin {"absent", "deleted"}
  /\ capture' = [capture EXCEPT ![j] = "deleted"]
  /\ job' = [job EXCEPT ![j] = Ended(j, "failed")]
  /\ reservation' = IF Leased(j) THEN Burned(j) ELSE reservation
  /\ prep' = [prep EXCEPT ![j] = Cleared(j)]
  /\ page' = [page EXCEPT ![j] = NoPage]
  /\ UNCHANGED <<control, note, linked, published>>

\* delete_encrypted_capture: also under a running lease.  A Review goes with
\* its capture; the note a capture was filed in keeps its link.
Delete(j) ==
  /\ capture[j] \notin {"absent", "deleted"}
  /\ capture' = [capture EXCEPT ![j] = "deleted"]
  /\ job' = [job EXCEPT ![j] =
       IF Active(j) THEN Ended(j, "failed") ELSE job[j]]
  /\ reservation' = IF Leased(j) THEN Burned(j) ELSE reservation
  /\ prep' = [prep EXCEPT ![j] = Cleared(j)]
  /\ page' = [page EXCEPT ![j] = NoPage]
  /\ linked' = [linked EXCEPT ![j] = IF capture[j] = "needs_review" THEN NoNote ELSE @]
  /\ UNCHANGED <<control, note, published>>

\* apply_encrypted_note_mutation by the owner: any new state is a new revision.
OwnerWrite(n, status) ==
  /\ note[n].status # "absent" /\ note[n].rev < MaxRevision
  /\ note' = [note EXCEPT ![n] = [rev |-> note[n].rev + 1, status |-> status]]
  /\ UNCHANGED <<job, capture, control, page, prep, reservation, linked, published>>

\* The captures a note's purge rewrites: those pinned to it or filed in it.
Related(n) ==
  {j \in Jobs : linked[j] = n \/ (control[j].kind = "explicit" /\ control[j].note = n)}

\* (mutant) the captures filed in the note keep naming it
PurgeKeepsLinks(n) ==
  /\ note[n].status = "trashed"
  /\ \A j \in Related(n) : ~Active(j)
  /\ note' = [note EXCEPT ![n] = [rev |-> 0, status |-> "absent"]]
  /\ capture' = [j \in Jobs |->
       IF j \in Related(n) /\ capture[j] # "deleted" THEN "inbox" ELSE capture[j]]
  /\ control' = [j \in Jobs |->
       IF control[j].kind = "explicit" /\ control[j].note = n THEN NoControl ELSE control[j]]
  /\ UNCHANGED <<job, page, prep, reservation, linked, published>>

\* finalize_encrypted_note_retention: the note goes for good, never under a
\* job that may still publish, and its captures return to the inbox.
Purge(n) ==
  /\ note[n].status = "trashed"
  /\ \A j \in Related(n) : ~Active(j)
  /\ note' = [note EXCEPT ![n] = [rev |-> 0, status |-> "absent"]]
  /\ capture' = [j \in Jobs |->
       IF j \in Related(n) /\ capture[j] # "deleted" THEN "inbox" ELSE capture[j]]
  /\ control' = [j \in Jobs |->
       IF control[j].kind = "explicit" /\ control[j].note = n THEN NoControl ELSE control[j]]
  /\ linked' = [j \in Jobs |-> IF linked[j] = n THEN NoNote ELSE linked[j]]
  /\ UNCHANGED <<job, page, prep, reservation, published>>

-----------------------------------------------------------------------------
Init ==
  /\ job = [j \in Jobs |-> [state |-> "absent", attempt |-> 0, replan |-> 0, token |-> 0,
                            lease |-> "none", issued |-> 0, retries |-> 0]]
  /\ capture = [j \in Jobs |-> "absent"]
  /\ control = [j \in Jobs |-> NoControl]
  /\ page = [j \in Jobs |-> NoPage]
  /\ prep = [j \in Jobs |-> NoPrep]
  /\ reservation = [r \in ReservationIds |-> "free"]
  /\ note = [n \in Notes |->
       IF \E j \in Jobs : n = StableNote[j]
       THEN [rev |-> 0, status |-> "absent"] ELSE [rev |-> 1, status |-> "open"]]
  /\ linked = [j \in Jobs |-> NoNote]
  /\ published = [j \in Jobs |-> 0]

Failures == {"retryable", "permanent", "key_invalid", "fallback"}

\* A call of a lease holder, current or stale.
Call(j, t) ==
  \/ \E S \in Listable(j) : List(j, t, S)
  \/ HeartbeatConflict(j, t) \/ HeartbeatAuthorize(j, t)
  \/ \E r \in ReservationIds : PrepareCreate(j, t, r)
  \/ \E n \in Notes, r \in ReservationIds : \E v \in {page[j].cand[n].rev} :
       \/ PrepareAppend(j, t, n, v, r)
       \/ PrepareAppendReplan(j, t, n, v, r)
       \/ PrepareAppendReview(j, t, n, v, r)
  \/ Commit(j, t)
  \/ \E kind \in Failures : Fail(j, t, kind)

Service(j) == Claim(j) \/ Expire(j) \/ Recover(j) \/ \E t \in 1..job[j].issued : Call(j, t)
Owner ==
  \/ \E j \in Jobs : (\E c \in Controls : Capture(j, c)) \/ Retry(j) \/ Delete(j)
  \/ \E n \in Notes : (\E status \in OwnerStatuses : OwnerWrite(n, status)) \/ Purge(n)

Next == Owner \/ \E j \in Jobs : Service(j)

Spec == Init /\ [][Next]_vars

-----------------------------------------------------------------------------
(* Properties.                                                             *)

Request == [note : Notes \cup {NoNote}, rev : Nat, res : ReservationIds \cup {NoReservation}]
JobRow == [state : JobState, attempt : 0..MaxAttempts, replan : 0..1, token : Nat,
           lease : {"none", "live", "expired"}, issued : Nat, retries : Nat]
PageRow == [token : Nat, control : Controls, cand : Manifest,
            verdict : {"none", "authorized", "replan", "review"}]
PrepRow == [mode : {"none", "create", "append"}, token : Nat, gen : 0..1,
            note : Notes \cup {NoNote}, rev : Nat, res : ReservationIds \cup {NoReservation},
            control : Controls, replanned : Request, status : {"open", "completed"}]
NoteRow == [rev : Nat, status : NoteStatus]

\* Every table row has the columns and the values its constraints allow.
TypeOK ==
  /\ job \in [Jobs -> JobRow]
  /\ capture \in [Jobs -> CaptureStatus]
  /\ control \in [Jobs -> Controls]
  /\ page \in [Jobs -> PageRow]
  /\ prep \in [Jobs -> PrepRow]
  /\ reservation \in [ReservationIds -> {"free", "held", "spent"}]
  /\ note \in [Notes -> NoteRow]
  /\ linked \in [Jobs -> Notes \cup {NoNote}]
  /\ published \in [Jobs -> Nat]

\* A capture is published at most once over all its attempts, expired leases
\* and manual retries, and exactly when its job succeeded.
ExactlyOnce == \A j \in Jobs : published[j] = IF job[j].state = "succeeded" THEN 1 ELSE 0

\* The capture and its job never disagree about who has to move next: a job
\* that waits has a queued capture (so it can be claimed), a leased one has a
\* capture its holder may read, and a capture shown as failed can be retried.
WorkNeverStranded ==
  \A j \in Jobs :
    /\ job[j].state \in {"created", "awaiting_retry"} =>
         capture[j] = "queued" /\ job[j].attempt < MaxAttempts
    /\ Leased(j) <=> capture[j] = "processing"
    /\ capture[j] = "failed" => job[j].state \in {"failed", "dead_letter"}

\* A lease token is current exactly while its job runs, and the open
\* preparation is under that token: burning its reservations when the lease
\* ends is never refused (a refusal would roll back a whole recovery batch).
BurnNeverRefused ==
  \A j \in Jobs :
    /\ job[j].token = IF Leased(j) THEN job[j].issued ELSE 0
    /\ Leased(j) /\ HasPrep(j) => OpenPrep(j) /\ prep[j].token = job[j].token

\* A reservation still open for sealing belongs to the preparation of a
\* running job: no lease ends, is recovered or is withdrawn with one left.
NoOrphanReservation ==
  \A r \in ReservationIds : reservation[r] = "held" =>
    \E j \in Jobs : Leased(j) /\ OpenPrep(j) /\ prep[j].res = r

\* A preparation that can be sealed was made after the last conflict of its
\* job and under the controls the job's page and capture still have.
PreparedAfterLastConflict ==
  \A j \in Jobs : OpenPrep(j) /\ prep[j].res # NoReservation =>
    /\ Leased(j) /\ prep[j].gen = job[j].replan
    /\ prep[j].control = control[j]

\* A capture whose destination its owner pinned, by name or by a rule, is
\* never filed in another note.
DestinationRespected ==
  \A j \in Jobs : control[j].kind # "none" /\ linked[j] # NoNote
                 /\ capture[j] = "organized" => linked[j] = control[j].note

\* Retention never changes the controls under a lease, so the consent-controls
\* conflict of the heartbeat and of the commit is a second line of defence.
ControlsPinned ==
  \A j \in Jobs : Leased(j) /\ PageHeld(j) => page[j].control = control[j]

\* Two jobs never hold one reservation, so the lease that ends on one cannot
\* burn what the other is about to seal under.
ReservationUnshared ==
  \A i, j \in Jobs : OpenPrep(i) /\ OpenPrep(j) /\ prep[i].res = prep[j].res
                    /\ prep[i].res # NoReservation => i = j

\* A capture never names a note that retention destroyed: neither the note it
\* was filed in nor the destination its owner pinned.
NoDanglingNote ==
  \A j \in Jobs :
    /\ linked[j] # NoNote => note[linked[j]].status # "absent"
    /\ control[j].kind = "explicit" => note[control[j].note].status # "absent"

\* Its reservations are a lease's own: they are held by a running job only, by
\* one job only, and under the token their burning is asked for with.
LeaseOwnsReservations == NoOrphanReservation /\ ReservationUnshared /\ BurnNeverRefused

\* What the invariants above rest on: the reservation of a preparation that
\* can be sealed is held, a completed preparation is a published one, and
\* nothing exists of a capture that has not arrived.
SealedUnderHeld ==
  \A j \in Jobs : OpenPrep(j) /\ prep[j].res # NoReservation => reservation[prep[j].res] = "held"
CompletedIsPublished ==
  \A j \in Jobs : prep[j].status = "completed" => job[j].state = "succeeded"
NothingBeforeCapture ==
  \A j \in Jobs : capture[j] = "absent" =>
    job[j].state = "absent" /\ job[j].attempt = 0 /\ linked[j] = NoNote
Strengthening == SealedUnderHeld /\ CompletedIsPublished /\ NothingBeforeCapture

\* Wrap operations are never spent twice: a reservation goes from free to held
\* to spent, so no two envelopes are sealed under one reservation.
ReservationStep ==
  \A r \in ReservationIds :
    /\ reservation[r] = "spent" => reservation'[r] = "spent"
    /\ reservation[r] = "held" => reservation'[r] # "free"
ReservationLifecycle == [][ReservationStep]_vars

\* What a publication does to notes: under a live lease and an authorized page,
\* an append lands on an open note and a create on an id nobody has, and no
\* other note is touched.
PublicationStep ==
  \A j \in Jobs : published'[j] # published[j] =>
    /\ Leased(j) /\ job[j].lease = "live" /\ page[j].verdict = "authorized"
    /\ \A n \in Notes : note'[n] # note[n] =>
         n = prep[j].note /\ (note[n].status = "absent" \/ Appendable(n))
PublishedUnderLease == [][PublicationStep]_vars

=============================================================================
