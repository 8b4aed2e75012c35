--------------------------- MODULE OrganizerDrain ---------------------------
(***************************************************************************)
(* The organizer service: workers that claim jobs from the store and drive *)
(* each through list, disclosure, plan, preparation, publication heartbeat *)
(* and commit.  Between two calls anything may happen to the store; a      *)
(* reply may be lost after its call took effect; a worker may die.         *)
(*                                                                         *)
(* Abstracted: sealing and opening envelopes, the model's answer (any plan *)
(* over the disclosed page) and the request deadline (an abort anywhere).  *)
(***************************************************************************)
EXTENDS OrganizerJob

CONSTANTS
  Workers,
  MaxGenerations  \* bound: write generations of one processJob

\* (mutant) the attempt is left out of the digest
ReservationIdPerJob(j, attempt, gen) == <<j, 1, gen>>

\* reservationId(): a digest of the job's decision id, the attempt and the
\* write generation, hence an injective function of the three.
ReservationId(j, attempt, gen) == <<j, attempt, gen>>

ASSUME ReservationIdAssumption ==
  \A j \in Jobs, a \in 1..MaxAttempts, g \in 0..MaxGenerations :
    ReservationId(j, a, g) \in ReservationIds

VARIABLE worker

drainVars == <<vars, worker>>

Idle == [pc |-> "idle"]

-----------------------------------------------------------------------------
W(w) == worker[w]
Moves(w, next) == worker' = [worker EXCEPT ![w] = next]

\* The reply reaches the worker, or its loss is an error like any other.
Replies(w, next) == Moves(w, next) \/ Moves(w, [W(w) EXCEPT !.pc = "fail"])

\* A conflict advances the write generation and spends the worker's replan;
\* when it is forced, the next authorized page is for a Review.
Again(w, forced) ==
  [W(w) EXCEPT !.pc = "list", !.plan = "none", !.gen = @ + 1, !.replan = 1,
               !.pending = @ \/ forced]

\* The candidates the planner sees: the open ones of the page.
Disclosed(j) == {n \in Notes : page[j].cand[n].is = "open"}
DestinationMissing(j) ==
  page[j].control.kind # "none" /\ page[j].control.note \notin Disclosed(j)

\* A Review, a spent planner budget, or a plan over the disclosed candidates.
\* A plan the parser or the routing policy refuses makes a Review pending; a
\* rule plans without the planner, and not at all where it does not fit.
Decisions(w) ==
  LET me == W(w)
      c == page[me.job].control
      called == IF c.kind = "rule" THEN me ELSE [me EXCEPT !.calls = @ + 1]
      review == [me EXCEPT !.pending = TRUE, !.pc = "prepare", !.plan = "review"]
      targets == IF c.kind = "none" THEN Disclosed(me.job) ELSE {c.note}
      appends == {[called EXCEPT !.pc = "prepare", !.plan = "append", !.note = n,
                                 !.rev = page[me.job].cand[n].rev] : n \in targets}
      ambiguous == {[called EXCEPT !.pending = TRUE, !.pc = "list"]}
      creates == IF c.kind = "none"
                 THEN {[called EXCEPT !.pc = "prepare", !.plan = "create"]} ELSE {}
      unfit == IF c.kind = "rule" THEN {review} ELSE {}
  IN  IF me.pending \/ DestinationMissing(me.job) THEN {review}
      ELSE IF c.kind # "rule" /\ me.calls >= me.limit
      THEN {[me EXCEPT !.pending = TRUE, !.pc = "list"]}
      ELSE appends \cup ambiguous \cup creates \cup unfit

-----------------------------------------------------------------------------
(* One action per call of processJob.                                      *)

\* (mutant) a new attempt believes its replan unspent
BeginForgetsReplan(w, j) ==
  /\ W(w).pc = "idle"
  /\ Claim(j)
  /\ Moves(w, [pc |-> "list", job |-> j, token |-> job'[j].token,
                attempt |-> job'[j].attempt, replan |-> 0, limit |-> 2,
                gen |-> 0, calls |-> 0, pending |-> FALSE,
                plan |-> "none", note |-> NoNote, rev |-> 0])

\* drain(): claim, and the state processJob starts from.
Begin(w, j) ==
  /\ W(w).pc = "idle"
  /\ Claim(j)
  /\ \/ \E pending \in BOOLEAN :   \* describe() may already ask for a Review
          Moves(w, [pc |-> "list", job |-> j, token |-> job'[j].token,
                    attempt |-> job'[j].attempt, replan |-> job[j].replan,
                    limit |-> IF job[j].replan = 0 THEN 2 ELSE 1,
                    gen |-> 0, calls |-> 0, pending |-> pending,
                    plan |-> "none", note |-> NoNote, rev |-> 0])
     \/ Moves(w, Idle)             \* the claim's reply is lost

ListCandidates(w) ==
  /\ W(w).pc = "list"
  /\ \E S \in Listable(W(w).job) : List(W(w).job, W(w).token, S)
  /\ Replies(w, [W(w) EXCEPT !.pc = "disclose"])

\* The heartbeat that authorizes the page's disclosure.
Disclose(w) ==
  /\ W(w).pc = "disclose"
  /\ \/ /\ HeartbeatAuthorize(W(w).job, W(w).token)
        /\ \E next \in Decisions(w) : Replies(w, next)
     \/ /\ HeartbeatConflict(W(w).job, W(w).token)
        /\ Replies(w, Again(w, job[W(w).job].replan = 1 \/ W(w).replan = 1))

Prepare(w) ==
  LET me == W(w)
      r == ReservationId(me.job, me.attempt, me.gen)
      sealed == [me EXCEPT !.pc = "publish"]
      refused == [me EXCEPT !.pc = "publish", !.plan = "review", !.pending = TRUE]
  IN  /\ me.pc = "prepare" /\ r \in ReservationIds
      /\ \/ /\ me.plan \in {"create", "review"}
            /\ PrepareCreate(me.job, me.token, r)
            /\ Replies(w, sealed) \/ Replies(w, refused)
         \/ /\ me.plan = "append"
            /\ \/ /\ PrepareAppend(me.job, me.token, me.note, me.rev, r)
                  /\ Replies(w, sealed) \/ Replies(w, refused)
               \/ /\ PrepareAppendReplan(me.job, me.token, me.note, me.rev, r)
                  /\ Replies(w, Again(w, FALSE))
               \/ /\ PrepareAppendReview(me.job, me.token, me.note, me.rev, r)
                  /\ Replies(w, refused)

\* The heartbeat after sealing, before publishing.
Publish(w) ==
  /\ W(w).pc = "publish"
  /\ \/ /\ HeartbeatAuthorize(W(w).job, W(w).token)
        /\ Replies(w, [W(w) EXCEPT !.pc = "commit"])
     \/ /\ HeartbeatConflict(W(w).job, W(w).token)
        /\ Replies(w, Again(w, \/ job[W(w).job].replan = 1 \/ W(w).replan = 1
                               \/ W(w).plan = "review"))

CommandOutcome(plan) ==
  IF plan = "append" THEN "appended" ELSE IF plan = "create" THEN "created" ELSE "review"

CommitCommand(w) ==
  LET me == W(w)
      j == me.job
      outcome == CommandOutcome(me.plan)
  IN  /\ me.pc = "commit"
      /\ \/ /\ \/ outcome = "created" /\ CommitCreate(j, me.token)
               \/ outcome = "appended" /\ CommitAppend(j, me.token)
               \/ outcome = "review" /\ CommitReview(j, me.token)
            /\ Replies(w, Idle)
         \/ /\ CommitRuleBroken(j, me.token, outcome)
            /\ Replies(w, Again(w, TRUE))
         \/ /\ CommitConflict(j, me.token, outcome) \/ CommitTargetMoved(j, me.token, outcome)
            /\ IF job[j].replan = 0 /\ me.replan = 1 /\ outcome # "review"
               THEN Moves(w, [me EXCEPT !.pc = "fail"])
               ELSE Replies(w, Again(w, job[j].replan = 1 \/ outcome = "review"))

\* A refused call, a provider or cipher error, or the deadline.
Abort(w) ==
  /\ W(w).pc \notin {"idle", "fail"}
  /\ Moves(w, [W(w) EXCEPT !.pc = "fail"])
  /\ UNCHANGED vars

\* The catch block: the transition is written, or it is refused or times out
\* and the job stays with its lease.
ReportFailure(w) ==
  /\ W(w).pc = "fail"
  /\ \/ \E kind \in Failures : Fail(W(w).job, W(w).token, kind)
     \/ UNCHANGED vars
  /\ Moves(w, Idle)

Crash(w) == W(w).pc # "idle" /\ Moves(w, Idle) /\ UNCHANGED vars

Step(w) ==
  \/ ListCandidates(w) \/ Disclose(w) \/ Prepare(w) \/ Publish(w) \/ CommitCommand(w)
  \/ Abort(w) \/ ReportFailure(w)

\* lease_expires_at passes, and the recovery trigger sweeps.
ExpireLease(j) == Expire(j) /\ UNCHANGED worker
RecoverStale(j) == Recover(j) /\ UNCHANGED worker

DrainInit == Init /\ worker = [w \in Workers |-> Idle]
DrainNext ==
  \/ Owner /\ UNCHANGED worker
  \/ \E j \in Jobs : ExpireLease(j) \/ RecoverStale(j)
  \/ \E w \in Workers : (\E j \in Jobs : Begin(w, j)) \/ Step(w) \/ Crash(w)

DrainSpec == DrainInit /\ [][DrainNext]_drainVars

-----------------------------------------------------------------------------
Working(w) == W(w).pc \notin {"idle", "fail"}
HoldsLease(w) == Working(w) /\ LeaseHeld(W(w).job, W(w).token)

\* A worker that may still write knows whether the job's one replan is spent,
\* so a second conflict is a Review and never a third plan.
ReplanAgreed ==
  \A w \in Workers : HoldsLease(w) => W(w).replan = job[W(w).job].replan

\* Only one worker at a time can get a call through for a job.
OneLeaseHolder ==
  \A v, w \in Workers : HoldsLease(v) /\ HoldsLease(w) /\ W(v).job = W(w).job => v = w

\* Who can get a call through for a job is alone, and knows of its replan.
HolderKnowsJob == OneLeaseHolder /\ ReplanAgreed

\* What the planner read is what the append lands on: the note is at the very
\* revision the worker disclosed, whatever ran between.
PlannedRevisionPublished ==
  [][\A w \in Workers :
       W(w).pc = "commit" /\ W(w).plan = "append"
       /\ published'[W(w).job] # published[W(w).job] /\ worker'[w] # worker[w]
       => note[W(w).note].rev = W(w).rev /\ note'[W(w).note].rev = W(w).rev + 1]_drainVars

\* A reservation id a worker is about to reserve was never reserved before:
\* replan, refreshed Review, retry and recovery cannot reuse a consumed one.
FreshReservation ==
  \A w \in Workers :
    LET r == ReservationId(W(w).job, W(w).attempt, W(w).gen)
    IN  HoldsLease(w) /\ W(w).pc = "prepare" /\ r \in ReservationIds
          => reservation[r] = "free"


\* Every capture that entered the queue leaves it: published, failed where the
\* owner can see it, or withdrawn.
EveryCaptureSettles == \A j \in Jobs : Active(j) ~> ~Active(j)
=============================================================================
