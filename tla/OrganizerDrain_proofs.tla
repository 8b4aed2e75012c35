------------------------ MODULE OrganizerDrain_proofs ------------------------
(***************************************************************************)
(* The organizer's workers over its store, for any number of workers, jobs *)
(* and notes.  Every step of a worker is a step of the store, so what the  *)
(* store guarantees holds of the workers' behaviours too; on top of it,    *)
(* what a worker remembers between two calls is still true of its job.     *)
(***************************************************************************)
EXTENDS OrganizerJob_proofs, OrganizerDrain

-----------------------------------------------------------------------------
(* What a worker remembers.                                                *)

Busy(w) == W(w).pc # "idle"
WorkerRow ==
  [pc : {"list", "disclose", "prepare", "publish", "commit", "fail"},
   job : Jobs, token : Nat, attempt : 1..MaxAttempts, replan : 0..1, limit : 1..2,
   gen : Nat, calls : Nat, pending : BOOLEAN,
   plan : {"none", "append", "create", "review"}, note : Notes \cup {NoNote}, rev : Nat]

\* A worker is idle or it has a job, a token that was issued for it and, once
\* it plans an append, the note it appends to.
Remembers(w) ==
  \/ W(w) = Idle
  \/ /\ W(w) \in WorkerRow
     /\ W(w).token \in 1..job[W(w).job].issued
     /\ W(w).plan = "append" => W(w).note \in Notes

\* No two workers hold a token of one job.
Apart ==
  \A v, w \in Workers :
    v # w /\ Busy(v) /\ Busy(w) /\ W(v).job = W(w).job => W(v).token # W(w).token

\* While its token is the job's, a worker has the job's attempt and, unless it
\* is about to report a failure, the job's replan.
Knows(w) ==
  Busy(w) /\ LeaseHeld(W(w).job, W(w).token) =>
    /\ W(w).attempt = job[W(w).job].attempt
    /\ W(w).pc # "fail" => W(w).replan = job[W(w).job].replan

\* The append a worker has sealed is the one the preparation names.
Sealed(w) == W(w).pc \in {"publish", "commit"} /\ W(w).plan = "append"
Prepared(w) ==
  Sealed(w) /\ LeaseHeld(W(w).job, W(w).token) =>
    prep[W(w).job].note = W(w).note /\ prep[W(w).job].rev = W(w).rev

WorkerInv ==
  /\ worker \in [Workers -> WorkerRow \cup {Idle}]
  /\ \A w \in Workers : Remembers(w) /\ Knows(w) /\ Prepared(w)
  /\ Apart
DrainInv == SealInv /\ WorkerInv

\* The reservations a worker has behind it: those of earlier generations and,
\* once it has sealed, the one of this generation.
Behind(w, g) == g < W(w).gen \/ (g = W(w).gen /\ W(w).pc \in {"publish", "commit"})

\* Until the owner retries it by hand, a job's reservations were made in its
\* attempts so far, and those of the attempt under way by its worker.
Unused(j) ==
  job[j].retries = 0 =>
    \A a \in 1..MaxAttempts, g \in Nat :
      ReservationId(j, a, g) \in ReservationIds /\ reservation[ReservationId(j, a, g)] # "free" =>
        /\ a <= job[j].attempt
        /\ \A w \in Workers :
             HoldsLease(w) /\ W(w).job = j /\ W(w).attempt = a => Behind(w, g)

-----------------------------------------------------------------------------
(* Every step of the workers is a step of the store.                       *)

LEMMA CallIsNext ==
  ASSUME NEW j \in Jobs, NEW t \in 1..job[j].issued, Call(j, t)
  PROVE  Next
  BY DEF Next, Service

LEMMA BusyRow ==
  ASSUME NEW w \in Workers, Remembers(w), Busy(w)
  PROVE  /\ W(w) \in WorkerRow /\ W(w).job \in Jobs /\ W(w).token \in 1..job[W(w).job].issued
         /\ W(w).plan = "append" => W(w).note \in Notes
<1>1. W(w) # Idle
  BY DEF Busy, Idle
<1>2. W(w) \in WorkerRow
  BY <1>1 DEF Remembers
<1>3. W(w).job \in Jobs
  BY <1>2 DEF WorkerRow
<1>4. QED
  BY <1>1, <1>2, <1>3 DEF Remembers

LEMMA PrepareCalls ==
  ASSUME NEW w \in Workers, Remembers(w), Prepare(w), NEW j, NEW t,
         j = W(w).job, t = W(w).token
  PROVE  Call(j, t)
<1>1. PICK r : r = ReservationId(W(w).job, W(w).attempt, W(w).gen)
  OBVIOUS
<1>2. Busy(w) /\ r \in ReservationIds
  BY <1>1 DEF Busy, Prepare
<1>3. CASE PrepareCreate(j, t, r)
  BY <1>2, <1>3 DEF Call
<1>4. ASSUME W(w).plan = "append",
             \/ PrepareAppend(j, t, W(w).note, W(w).rev, r)
             \/ PrepareAppendReplan(j, t, W(w).note, W(w).rev, r)
             \/ PrepareAppendReview(j, t, W(w).note, W(w).rev, r)
      PROVE  Call(j, t)
  <2>1. W(w).note \in Notes
    BY <1>2, <1>4, BusyRow
  <2>2. W(w).rev = page[j].cand[W(w).note].rev
    BY <1>4 DEF PrepareAppend, PrepareAppendReplan, PrepareAppendReview, MayPrepareAppend,
                Authorizes
  <2>3. QED
    BY <1>2, <1>4, <2>1, <2>2 DEF Call
<1>5. QED
  BY <1>1, <1>3, <1>4 DEF Prepare

\* A worker's step is a call it makes with its token, or no step of the store.
LEMMA StepCalls ==
  ASSUME NEW w \in Workers, Remembers(w), Step(w) \/ Crash(w), NEW j, NEW t,
         j = W(w).job, t = W(w).token
  PROVE  Call(j, t) \/ UNCHANGED vars
<1>1. CASE ListCandidates(w)
  BY <1>1 DEF ListCandidates, Call
<1>2. CASE Disclose(w)
  BY <1>2 DEF Disclose, Call
<1>3. CASE Prepare(w)
  BY <1>3, PrepareCalls
<1>4. CASE Publish(w)
  BY <1>4 DEF Publish, Call
<1>5. CASE CommitCommand(w)
  <2>1. CommandOutcome(W(w).plan) \in Outcome
    BY DEF CommandOutcome, Outcome
  <2>2. Commit(j, t)
    BY <1>5, <2>1 DEF CommitCommand, Commit
  <2>3. QED
    BY <2>2 DEF Call
<1>6. CASE Abort(w) \/ Crash(w)
  BY <1>6 DEF Abort, Crash
<1>7. CASE ReportFailure(w)
  BY <1>7 DEF ReportFailure, Call
<1>8. QED
  BY <1>1, <1>2, <1>3, <1>4, <1>5, <1>6, <1>7 DEF Step

LEMMA StepIsNext ==
  ASSUME NEW w \in Workers, Remembers(w), Step(w) \/ Crash(w)
  PROVE  [Next]_vars
<1>1. PICK j, t : j = W(w).job /\ t = W(w).token
  OBVIOUS
<1>2. Busy(w)
  BY DEF Step, Crash, ListCandidates, Disclose, Prepare, Publish, CommitCommand, Abort,
         ReportFailure, Busy
<1>3. j \in Jobs /\ t \in 1..job[j].issued
  BY <1>1, <1>2, BusyRow
<1>4. QED
  BY <1>1, <1>3, StepCalls, CallIsNext

LEMMA DrainIsNext ==
  ASSUME \A w \in Workers : Remembers(w), [DrainNext]_drainVars
  PROVE  [Next]_vars
<1>1. CASE Owner
  BY <1>1 DEF Next
<1>2. ASSUME NEW j \in Jobs, ExpireLease(j) \/ RecoverStale(j) PROVE Next
  BY <1>2 DEF ExpireLease, RecoverStale, Next, Service
<1>3. ASSUME NEW w \in Workers, NEW j \in Jobs, Begin(w, j) PROVE Next
  BY <1>3 DEF Begin, Next, Service
<1>4. ASSUME NEW w \in Workers, Step(w) \/ Crash(w) PROVE [Next]_vars
  BY <1>4, StepIsNext
<1>5. CASE UNCHANGED drainVars
  BY <1>5 DEF drainVars
<1>6. QED
  BY <1>1, <1>2, <1>3, <1>4, <1>5 DEF DrainNext

-----------------------------------------------------------------------------
(* What a step of the store leaves to those who hold a token of a job.     *)

\* Whoever holds job i after the step under token s held it before, and finds
\* it as it was.
Undisturbed(i, s) ==
  LeaseHeld(i, s)' =>
    /\ LeaseHeld(i, s) /\ prep'[i] = prep[i]
    /\ job'[i].attempt = job[i].attempt /\ job'[i].replan = job[i].replan

\* A step does not give tokens back.
Issues == \A i \in Jobs : job'[i].issued \in Nat /\ job'[i].issued >= job[i].issued

\* A step of job j leaves the others alone.
Only(j) ==
  \A i \in Jobs \ {j} : job'[i] = job[i] /\ capture'[i] = capture[i] /\ prep'[i] = prep[i]

LEMMA OnlyUndisturbed ==
  ASSUME NEW j \in Jobs, Only(j), NEW i \in Jobs \ {j}, NEW s
  PROVE  Undisturbed(i, s)
  BY DEF Only, Undisturbed, LeaseHeld, Leased

LEMMA StoreTypes ==
  ASSUME SealInv
  PROVE  /\ TypeInv /\ job \in [Jobs -> JobRow] /\ capture \in [Jobs -> CaptureStatus]
         /\ prep \in [Jobs -> PrepRow] /\ note \in [Notes -> NoteRow]
         /\ page \in [Jobs -> PageRow] /\ reservation \in [ReservationIds -> Use]
         /\ \A j \in Jobs : job[j].token = IF Leased(j) THEN job[j].issued ELSE 0
         /\ \A j \in Jobs : Leased(j) <=> capture[j] = "processing"
  BY Zenon DEF SealInv, LeaseInv, LifeInv, LeaseOK, LifeOK, LifeOf, Leased, TypeInv, TypeOK, Use

\* A step under which job i ends or stays without a lease.
LEMMA NoLease ==
  ASSUME NEW i \in Jobs, NEW s, job'[i].state # "running" \/ job'[i].lease # "live"
                                \/ capture'[i] # "processing"
  PROVE  Undisturbed(i, s)
  BY DEF Undisturbed, LeaseHeld, Leased

LEMMA EndedRest ==
  ASSUME TypeInv, NEW j \in Jobs, NEW s \in JobState
  PROVE  /\ Ended(j, s).lease = "none" /\ Ended(j, s).retries = job[j].retries
<1>1. job[j] \in JobRow
  BY DEF TypeInv, TypeOK
<1>2. QED
  BY <1>1, Zenon DEF Ended, JobRow

\* What a call, a sweep or a claim does to the counters of its job.
Counts(j) ==
  job'[j].issued = job[j].issued /\ job'[j].attempt = job[j].attempt
  /\ job'[j].retries = job[j].retries

LEMMA SpendReplanCounts ==
  ASSUME TypeInv, NEW j \in Jobs, SpendReplan(j)
  PROVE  Counts(j) /\ job'[j].replan = 1
<1>1. job[j] \in JobRow
  BY DEF TypeInv, TypeOK
<1>2. QED
  BY <1>1, Zenon DEF SpendReplan, Counts, TypeInv, TypeOK, JobRow

LEMMA EndCounts ==
  ASSUME TypeInv, NEW j \in Jobs, NEW s \in JobState, job' = [job EXCEPT ![j] = Ended(j, s)]
  PROVE  Counts(j) /\ job'[j].state = s /\ job'[j].lease = "none"
         /\ \A i \in Jobs \ {j} : job'[i] = job[i]
<1>1. job'[j] = Ended(j, s) /\ \A i \in Jobs \ {j} : job'[i] = job[i]
  BY Zenon DEF TypeInv, TypeOK
<1>2. QED
  BY <1>1, EndedValues, EndedRest DEF Counts

LEMMA ReleaseQuiet ==
  ASSUME TypeInv, NEW j \in Jobs, ReleasePreparation(j),
         \/ Requeue(j)
         \/ \E s \in JobState \ {"running"}, c \in CaptureStatus : GiveUp(j, s, c)
  PROVE  Counts(j) /\ Only(j) /\ job'[j].state # "running"
<1>1. PICK s \in JobState \ {"running"} : job' = [job EXCEPT ![j] = Ended(j, s)]
  BY DEF Requeue, GiveUp, JobState
<1>2. \A i \in Jobs \ {j} : capture'[i] = capture[i] /\ prep'[i] = prep[i]
  BY Zenon DEF Requeue, GiveUp, ReleasePreparation, TypeInv, TypeOK
<1>3. QED
  BY <1>1, <1>2, EndCounts DEF Only

\* The owner, expiry and recovery disturb no holder.
LEMMA OwnerQuiet ==
  ASSUME SealInv, Owner, NEW i \in Jobs, NEW s
  PROVE  /\ Undisturbed(i, s) /\ job'[i].issued = job[i].issued
         /\ Counts(i) \/ job'[i].retries \in 1..MaxRetries
<1>0. job[i] \in JobRow /\ job \in [Jobs -> JobRow] /\ prep \in [Jobs -> PrepRow] /\ TypeInv
      /\ capture \in [Jobs -> CaptureStatus]
  BY StoreTypes
<1>1. ASSUME NEW j \in Jobs, NEW c \in Controls, Capture(j, c)
      PROVE  Only(j) /\ Counts(j) /\ job'[j].state # "running"
  BY <1>0, <1>1, Zenon DEF Capture, Only, Counts, JobRow
<1>2. ASSUME NEW j \in Jobs, Retry(j)
      PROVE  /\ Only(j) /\ job'[j].issued = job[j].issued /\ job'[j].state # "running"
             /\ job'[j].retries \in 1..MaxRetries
  <2> DEFINE e == Ended(j, "created")
             row == [e EXCEPT !.attempt = 0, !.replan = 0, !.retries = @ + 1]
  <2>1. e \in JobRow /\ e.issued = job[j].issued /\ e.retries = job[j].retries
        /\ e.state = "created"
    BY <1>0, EndedRow, EndedValues, EndedRest DEF JobState
  <2>2. row.issued = e.issued /\ row.retries = e.retries + 1 /\ row.state = e.state
    <3> HIDE DEF e
    <3> QED
      BY <2>1, Zenon DEF JobRow
  <2>3. job[j].retries \in Nat /\ job[j].retries < MaxRetries /\ MaxRetries \in Nat
    BY <1>0, <1>2, BoundAssumption DEF Retry, JobRow
  <2>4. job' = [job EXCEPT ![j] = row]
    BY <1>2 DEF Retry
  <2> HIDE DEF row, e
  <2>5. job'[j] = row /\ \A k \in Jobs \ {j} : job'[k] = job[k]
    BY <1>0, <2>4, Zenon
  <2>6. \A k \in Jobs \ {j} : capture'[k] = capture[k] /\ prep'[k] = prep[k]
    BY <1>0, <1>2, Zenon DEF Retry
  <2>7. QED
    BY <2>1, <2>2, <2>3, <2>5, <2>6, SMT DEF Only
<1>3. ASSUME NEW j \in Jobs, Delete(j)
      PROVE  Only(j) /\ Counts(j) /\ capture'[j] # "processing"
  <2>1. \A k \in Jobs \ {j} : job'[k] = job[k] /\ capture'[k] = capture[k] /\ prep'[k] = prep[k]
    BY <1>0, <1>3, Zenon DEF Delete
  <2>2. capture'[j] = "deleted"
    BY <1>0, <1>3, Zenon DEF Delete
  <2>3. job'[j] = IF Active(j) THEN Ended(j, "failed") ELSE job[j]
    BY <1>0, <1>3, Zenon DEF Delete
  <2>4. Counts(j)
    BY <1>0, <2>3, EndedValues, EndedRest DEF Counts, JobState
  <2>5. QED
    BY <2>1, <2>2, <2>4 DEF Only
<1>4. ASSUME NEW n \in Notes, NEW st, OwnerWrite(n, st) \/ Purge(n)
      PROVE  job' = job /\ prep' = prep /\ (capture'[i] = capture[i] \/ capture'[i] = "inbox")
  BY <1>0, <1>4, Zenon DEF OwnerWrite, Purge
<1>5. ASSUME NEW j \in Jobs, Only(j), Counts(j), job'[j].state # "running" \/ capture'[j] # "processing"
      PROVE  /\ Undisturbed(i, s) /\ job'[i].issued = job[i].issued
             /\ Counts(i) \/ job'[i].retries \in 1..MaxRetries
  BY <1>5, OnlyUndisturbed, NoLease DEF Only, Counts
<1>6. ASSUME NEW j \in Jobs, Retry(j)
      PROVE  /\ Undisturbed(i, s) /\ job'[i].issued = job[i].issued
             /\ Counts(i) \/ job'[i].retries \in 1..MaxRetries
  BY <1>2, <1>6, OnlyUndisturbed, NoLease DEF Only, Counts
<1>7. ASSUME NEW n \in Notes, NEW st, OwnerWrite(n, st) \/ Purge(n)
      PROVE  /\ Undisturbed(i, s) /\ job'[i].issued = job[i].issued
             /\ Counts(i) \/ job'[i].retries \in 1..MaxRetries
  BY <1>4, <1>7 DEF Undisturbed, LeaseHeld, Leased, Counts
<1>8. QED
  BY <1>1, <1>3, <1>5, <1>6, <1>7 DEF Owner

LEMMA SweepQuiet ==
  ASSUME SealInv, NEW j \in Jobs, Expire(j) \/ Recover(j), NEW i \in Jobs, NEW s
  PROVE  Undisturbed(i, s) /\ Counts(i)
<1>0. job[j] \in JobRow /\ job \in [Jobs -> JobRow] /\ TypeInv
  BY StoreTypes
<1>1. CASE Expire(j)
  <2>1. Only(j) /\ Counts(j) /\ job'[j].lease = "expired"
    BY <1>0, <1>1, Zenon DEF Expire, Only, Counts, JobRow
  <2>2. QED
    BY <2>1, OnlyUndisturbed, NoLease DEF Only, Counts
<1>2. CASE Recover(j)
  <2>1. Counts(j) /\ Only(j) /\ job'[j].state # "running"
    BY <1>0, <1>2, ReleaseQuiet DEF Recover, JobState, CaptureStatus
  <2>2. QED
    BY <2>1, OnlyUndisturbed, NoLease DEF Only, Counts
<1>3. QED
  BY <1>1, <1>2

\* A claim issues a token nobody holds, and takes every earlier one's lease.
LEMMA ClaimQuiet ==
  ASSUME SealInv, NEW j \in Jobs, Claim(j), NEW i \in Jobs, NEW s \in 1..job[i].issued
  PROVE  /\ Undisturbed(i, s) /\ Only(j)
         /\ job'[j].issued = job[j].issued + 1 /\ job'[j].token = job[j].issued + 1
         /\ job'[j].attempt = job[j].attempt + 1 /\ job'[j].replan = job[j].replan
         /\ job'[j].retries = job[j].retries
<1>0. job[j] \in JobRow /\ job \in [Jobs -> JobRow] /\ TypeInv /\ prep \in [Jobs -> PrepRow]
      /\ capture \in [Jobs -> CaptureStatus]
  BY StoreTypes
<1>1. job'[j] = Started(j) /\ Only(j)
  BY <1>0, Zenon DEF Claim, Only
<1>2. Started(j).retries = job[j].retries
  BY <1>0, Zenon DEF Started, JobRow
<1>3. job[j].issued \in Nat
  BY <1>0 DEF JobRow
<1>4. job'[j].issued = job[j].issued + 1 /\ job'[j].token = job[j].issued + 1
      /\ job'[j].attempt = job[j].attempt + 1 /\ job'[j].replan = job[j].replan
      /\ job'[j].retries = job[j].retries
  BY <1>0, <1>1, <1>2, StartedValues
<1>5. CASE i = j
  <2>1. job'[i].token # s
    BY <1>3, <1>4, <1>5, SMT
  <2>2. QED
    BY <1>1, <1>4, <2>1 DEF Undisturbed, LeaseHeld
<1>6. QED
  BY <1>1, <1>4, <1>5, OnlyUndisturbed

\* A call touches its own job only, under the lease it presents, and gives
\* its job no new token, attempt or life.
LEMMA CallOwn ==
  ASSUME SealInv, NEW j \in Jobs, NEW t \in Nat, Call(j, t)
  PROVE  LeaseHeld(j, t) /\ Counts(j) /\ Only(j)
<1>0. /\ job \in [Jobs -> JobRow] /\ capture \in [Jobs -> CaptureStatus]
      /\ prep \in [Jobs -> PrepRow] /\ TypeInv
  BY StoreTypes
<1>1. ASSUME SpendReplan(j), UNCHANGED capture,
             \E row : prep' = [prep EXCEPT ![j] = row]
      PROVE  Counts(j) /\ Only(j)
  <2>1. \A i \in Jobs \ {j} : job'[i] = job[i]
    BY <1>0, <1>1, Zenon DEF SpendReplan
  <2>2. \A i \in Jobs \ {j} : prep'[i] = prep[i]
    BY <1>0, <1>1, Zenon
  <2>3. QED
    BY <1>0, <1>1, <2>1, <2>2, SpendReplanCounts DEF Only
<1>2. ASSUME UNCHANGED <<job, capture>>,
             UNCHANGED prep \/ \E row : prep' = [prep EXCEPT ![j] = row]
      PROVE  Counts(j) /\ Only(j)
  BY <1>0, <1>2, Zenon DEF Counts, Only
<1>3. CASE \/ \E S \in Listable(j) : List(j, t, S)
           \/ HeartbeatAuthorize(j, t)
  BY <1>2, <1>3 DEF List, HeartbeatAuthorize
<1>4. CASE HeartbeatConflict(j, t)
  BY <1>1, <1>4 DEF HeartbeatConflict, RecordConflict, VoidPreparation
<1>5. CASE \E r \in ReservationIds : PrepareCreate(j, t, r)
  BY <1>2, <1>5 DEF PrepareCreate, MayPrepare, Reserve
<1>6. CASE \E n \in Notes, r \in ReservationIds : \E v \in {page[j].cand[n].rev} :
             \/ PrepareAppend(j, t, n, v, r)
             \/ PrepareAppendReplan(j, t, n, v, r)
             \/ PrepareAppendReview(j, t, n, v, r)
  <2>0. PICK n \in Notes, r \in ReservationIds :
          \E v \in {page[j].cand[n].rev} :
            \/ PrepareAppend(j, t, n, v, r)
            \/ PrepareAppendReplan(j, t, n, v, r)
            \/ PrepareAppendReview(j, t, n, v, r)
    BY <1>6
  <2>1. PICK v :
          \/ PrepareAppend(j, t, n, v, r)
          \/ PrepareAppendReplan(j, t, n, v, r)
          \/ PrepareAppendReview(j, t, n, v, r)
    BY <2>0
  <2>2. LeaseHeld(j, t)
    BY <2>1 DEF PrepareAppend, PrepareAppendReplan, PrepareAppendReview, MayPrepareAppend,
                MayPrepare
  <2>3. CASE PrepareAppendReplan(j, t, n, v, r)
    BY <1>1, <2>2, <2>3 DEF PrepareAppendReplan
  <2>4. CASE PrepareAppend(j, t, n, v, r) \/ PrepareAppendReview(j, t, n, v, r)
    BY <1>2, <2>2, <2>4 DEF PrepareAppend, PrepareAppendReview, Reserve
  <2>5. QED
    BY <2>1, <2>3, <2>4
<1>7. CASE Commit(j, t)
  <2>1. ASSUME NEW o \in Outcome, \/ CommitRuleBroken(j, t, o)
                                 \/ CommitConflict(j, t, o)
                                 \/ CommitTargetMoved(j, t, o)
        PROVE  LeaseHeld(j, t) /\ Counts(j) /\ Only(j)
    BY <1>1, <2>1 DEF CommitRuleBroken, CommitConflict, CommitTargetMoved, PassesHeartbeat,
                      ReachesHeartbeat, MayCommit, RecordConflict, VoidPreparation
  <2>2. ASSUME NEW o, Publishable(j, t, o), NEW c, NEW n, Succeed(j, c, n)
        PROVE  LeaseHeld(j, t) /\ Counts(j) /\ Only(j)
    <3>1. LeaseHeld(j, t)
      BY <2>2 DEF Publishable, PassesHeartbeat, ReachesHeartbeat, MayCommit
    <3>2. \A i \in Jobs \ {j} : capture'[i] = capture[i] /\ prep'[i] = prep[i]
      BY <1>0, <2>2, Zenon DEF Succeed
    <3>3. job' = [job EXCEPT ![j] = Ended(j, "succeeded")]
      BY <2>2 DEF Succeed
    <3>4. QED
      BY <1>0, <3>1, <3>2, <3>3, EndCounts DEF Only, JobState
  <2>3. CASE CommitCreate(j, t)
    BY <2>2, <2>3 DEF CommitCreate
  <2>4. CASE CommitAppend(j, t)
    BY <2>2, <2>4 DEF CommitAppend
  <2>5. CASE CommitReview(j, t)
    BY <2>2, <2>5 DEF CommitReview
  <2>6. QED
    BY <1>7, <2>1, <2>3, <2>4, <2>5 DEF Commit
<1>8. CASE \E kind \in Failures : Fail(j, t, kind)
  BY <1>0, <1>8, ReleaseQuiet DEF Fail, JobState, CaptureStatus
<1>9. QED
  BY <1>3, <1>4, <1>5, <1>6, <1>7, <1>8 DEF Call

LEMMA CallQuiet ==
  ASSUME SealInv, SealInv', NEW j \in Jobs, NEW t \in Nat, Call(j, t) \/ UNCHANGED vars,
         NEW i \in Jobs, NEW s, i # j \/ s # t
  PROVE  Undisturbed(i, s) /\ Counts(i)
<1>1. CASE UNCHANGED vars
  BY <1>1 DEF vars, Undisturbed, Counts, LeaseHeld, Leased
<1>2. CASE Call(j, t)
  <2>1. LeaseHeld(j, t) /\ Counts(j) /\ Only(j)
    BY <1>2, CallOwn
  <2>2. CASE i # j
    BY <2>1, <2>2, OnlyUndisturbed DEF Only, Counts
  <2>3. CASE i = j /\ s # t
    <3>1. job[j].token = job[j].issued /\ (Leased(j)' => job'[j].token = job'[j].issued)
      BY <2>1, Zenon DEF LeaseHeld, Leased, SealInv, LeaseInv, LeaseOK
    <3>2. ~LeaseHeld(i, s)'
      BY <2>1, <2>3, <3>1 DEF LeaseHeld, Counts
    <3>3. QED
      BY <2>1, <2>3, <3>2 DEF Undisturbed
  <2>4. QED
    BY <2>2, <2>3
<1>3. QED
  BY <1>1, <1>2

-----------------------------------------------------------------------------
(* A worker's step keeps what every worker remembers.                      *)

\* What a worker's next state takes over from its state, the job and the
\* preparation.  (Workers' states are values here, not functions of the state.)
Carries(me, next) ==
  \/ next = Idle
  \/ /\ next \in WorkerRow
     /\ next.job = me.job /\ next.token = me.token /\ next.attempt = me.attempt
     /\ next.plan = "append" => next.note \in Notes
     /\ LeaseHeld(me.job, me.token)' =>
          /\ next.pc # "fail" => next.replan = job'[me.job].replan
          /\ next.pc \in {"publish", "commit"} /\ next.plan = "append" =>
               prep'[me.job].note = next.note /\ prep'[me.job].rev = next.rev

LEMMA OthersRemember ==
  ASSUME WorkerInv, NEW v \in Workers, NEW me, W(v) = me, W(v)' = me,
         Busy(v) => Undisturbed(me.job, me.token)
                    /\ job[me.job].issued \in Nat /\ job'[me.job].issued \in Nat
                    /\ job'[me.job].issued >= job[me.job].issued
  PROVE  Remembers(v)' /\ Knows(v)' /\ Prepared(v)'
<1>1. CASE me = Idle
  BY <1>1 DEF Remembers, Knows, Prepared, Sealed, Busy, W, Idle
<1>2. CASE me # Idle
  <2>1. Remembers(v) /\ Knows(v) /\ Prepared(v)
    BY DEF WorkerInv
  <2>2. me \in WorkerRow /\ me.token \in 1..job[me.job].issued
        /\ (me.plan = "append" => me.note \in Notes)
    BY <1>2, <2>1 DEF Remembers
  <2>3. Busy(v)
    BY <2>2 DEF Busy, WorkerRow
  <2>4. me.token \in 1..job'[me.job].issued
    <3>1. /\ job[me.job].issued \in Nat /\ job'[me.job].issued \in Nat
          /\ job'[me.job].issued >= job[me.job].issued
      BY <2>3
    <3>2. QED
      BY <2>2, <3>1, SMT
  <2>5. Remembers(v)'
    BY <2>2, <2>4 DEF Remembers, WorkerRow
  <2>6. LeaseHeld(me.job, me.token)' =>
          /\ LeaseHeld(me.job, me.token) /\ prep'[me.job] = prep[me.job]
          /\ job'[me.job].attempt = job[me.job].attempt /\ job'[me.job].replan = job[me.job].replan
    BY <2>3 DEF Undisturbed
  <2>7. Knows(v)'
    BY <2>1, <2>3, <2>6 DEF Knows, LeaseHeld, Leased
  <2>8. Prepared(v)'
    BY <2>1, <2>6 DEF Prepared, Sealed, LeaseHeld, Leased
  <2>9. QED
    BY <2>5, <2>7, <2>8
<1>3. QED
  BY <1>1, <1>2

LEMMA Moved ==
  ASSUME WorkerInv, NEW w \in Workers, NEW next, Moves(w, next)
  PROVE  W(w)' = next /\ \A v \in Workers \ {w} : W(v)' = W(v)
  BY Zenon DEF WorkerInv, Moves, W

\* Every worker remembers, and no two hold one token: the worker that moved
\* has the token it had, or none.
LEMMA WorkerParts ==
  ASSUME WorkerInv, NEW w \in Workers, NEW next \in WorkerRow \cup {Idle}, Moves(w, next),
         \A v \in Workers : Remembers(v)' /\ Knows(v)' /\ Prepared(v)',
         next # Idle => \A v \in Workers \ {w} :
           Busy(v) /\ W(v).job = next.job => W(v).token # next.token
  PROVE  WorkerInv'
<1>1. W(w)' = next /\ \A v \in Workers \ {w} : W(v)' = W(v)
  BY Moved
<1>2. worker' \in [Workers -> WorkerRow \cup {Idle}]
  BY Zenon DEF WorkerInv, Moves
<1>3. Apart'
  <2> SUFFICES ASSUME NEW u \in Workers, NEW v \in Workers, u # v, Busy(u)', Busy(v)',
                      W(u)'.job = W(v)'.job
               PROVE  W(u)'.token # W(v)'.token
    BY DEF Apart
  <2>1. CASE u = w
    BY <1>1, <2>1 DEF Busy, Idle
  <2>2. CASE v = w
    BY <1>1, <2>2 DEF Busy, Idle
  <2>3. CASE u # w /\ v # w
    BY <1>1, <2>3 DEF Busy, WorkerInv, Apart
  <2>4. QED
    BY <2>1, <2>2, <2>3
<1>4. QED
  BY <1>2, <1>3 DEF WorkerInv

LEMMA StepFrame ==
  ASSUME SealInv, SealInv', WorkerInv, NEW w \in Workers, Busy(w), NEW me, me = W(w),
         Call(me.job, me.token) \/ UNCHANGED vars,
         NEW next, Moves(w, next), Carries(me, next)
  PROVE  WorkerInv'
<1>1. W(w)' = next /\ \A v \in Workers \ {w} : W(v)' = W(v)
  BY Moved
<1>2. \A v \in Workers : Remembers(v)
  BY DEF WorkerInv
<1>3. PICK j, t : j = me.job /\ t = me.token
  OBVIOUS
<1>4. j \in Jobs /\ t \in 1..job[j].issued /\ t \in Nat
  <2>1. me \in WorkerRow /\ j \in Jobs /\ t \in 1..job[j].issued
    BY <1>2, <1>3, BusyRow
  <2>2. QED
    BY <1>3, <2>1 DEF WorkerRow
<1>5. \A i \in Jobs : job[i].issued \in Nat
  BY StoreTypes DEF JobRow
<1>6. Counts(j) /\ (LeaseHeld(j, t)' => LeaseHeld(j, t))
  <2>1. CASE UNCHANGED vars
    BY <2>1 DEF vars, LeaseHeld, Leased, Counts
  <2>2. QED
    BY <1>3, <1>4, <2>1, CallOwn
<1>7. ASSUME NEW v \in Workers \ {w} PROVE Remembers(v)' /\ Knows(v)' /\ Prepared(v)'
  <2>1. PICK you : you = W(v)
    OBVIOUS
  <2>2. ASSUME Busy(v)
        PROVE  /\ Undisturbed(you.job, you.token)
               /\ job[you.job].issued \in Nat /\ job'[you.job].issued \in Nat
               /\ job'[you.job].issued >= job[you.job].issued
    <3>1. PICK i, s : i = you.job /\ s = you.token
      OBVIOUS
    <3>2. i # j \/ s # t
      BY <1>3, <2>1, <2>2, <3>1 DEF WorkerInv, Apart
    <3>3. i \in Jobs
      BY <1>2, <2>1, <2>2, <3>1, BusyRow
    <3>4. Undisturbed(i, s) /\ Counts(i)
      BY <1>3, <1>4, <3>2, <3>3, CallQuiet
    <3>5. QED
      BY <1>5, <3>1, <3>3, <3>4 DEF Counts
  <2>3. QED
    BY <1>1, <2>1, <2>2, OthersRemember
<1>8. Remembers(w)' /\ Knows(w)' /\ Prepared(w)'
  <2>1. CASE next = Idle
    BY <1>1, <2>1 DEF Remembers, Knows, Prepared, Sealed, Busy, W, Idle
  <2>2. CASE next # Idle
    <3>1. /\ next \in WorkerRow
          /\ next.job = j /\ next.token = t /\ next.attempt = me.attempt
          /\ next.plan = "append" => next.note \in Notes
          /\ LeaseHeld(j, t)' =>
               /\ next.pc # "fail" => next.replan = job'[j].replan
               /\ next.pc \in {"publish", "commit"} /\ next.plan = "append" =>
                    prep'[j].note = next.note /\ prep'[j].rev = next.rev
      BY <1>3, <2>2 DEF Carries
    <3>2. Remembers(w)'
      BY <1>1, <1>4, <1>6, <3>1 DEF Remembers, Counts
    <3>3. Knows(w)
      BY DEF WorkerInv
    <3>4. Knows(w)'
      BY <1>1, <1>3, <1>6, <3>1, <3>3 DEF Knows, Counts, LeaseHeld, Leased
    <3>5. Prepared(w)'
      BY <1>1, <3>1 DEF Prepared, Sealed, LeaseHeld, Leased
    <3>6. QED
      BY <3>2, <3>4, <3>5
  <2>3. QED
    BY <2>1, <2>2
<1>9. next \in WorkerRow \cup {Idle}
  BY DEF Carries
<1>10. next # Idle => next.job = j /\ next.token = t
  BY <1>3 DEF Carries
<1>11. \A v \in Workers \ {w} : Busy(v) /\ W(v).job = j => W(v).token # t
  BY <1>3 DEF WorkerInv, Apart
<1>12. QED
  BY <1>7, <1>8, <1>9, <1>10, <1>11, WorkerParts

Pc == {"list", "disclose", "prepare", "publish", "commit", "fail"}

\* The worker that only goes on to another call, under the same plan.
LEMMA GoesOn ==
  ASSUME NEW me \in WorkerRow, NEW next, NEW pc \in Pc, next = [me EXCEPT !.pc = pc]
  PROVE  /\ next \in WorkerRow /\ next.pc = pc /\ next.job = me.job /\ next.token = me.token
         /\ next.attempt = me.attempt /\ next.replan = me.replan /\ next.plan = me.plan
         /\ next.note = me.note /\ next.rev = me.rev /\ next.gen = me.gen
  BY Zenon DEF WorkerRow, Pc

LEMMA AgainValues ==
  ASSUME NEW w, NEW me \in WorkerRow, me = W(w), NEW forced \in BOOLEAN, NEW next,
         next = Again(w, forced)
  PROVE  /\ next \in WorkerRow /\ next.pc = "list" /\ next.job = me.job
         /\ next.token = me.token /\ next.attempt = me.attempt /\ next.replan = 1
         /\ next.plan = "none" /\ next.gen = me.gen + 1
<1>1. PICK g, b : g = me.gen + 1 /\ b = (me.pending \/ forced)
  OBVIOUS
<1>2. g \in Nat /\ b \in BOOLEAN
  BY <1>1 DEF WorkerRow
<1>3. next = [me EXCEPT !.pc = "list", !.plan = "none", !.gen = g, !.replan = 1, !.pending = b]
  BY <1>1 DEF Again
<1>4. 1 \in 0..1
  OBVIOUS
<1>5. /\ next.pc = "list" /\ next.job = me.job
      /\ next.token = me.token /\ next.attempt = me.attempt /\ next.replan = 1
      /\ next.plan = "none" /\ next.gen = g
  BY <1>3, Zenon DEF WorkerRow
<1>6. next \in WorkerRow
  BY <1>2, <1>3, <1>4, Zenon DEF WorkerRow
<1>7. QED
  BY <1>1, <1>5, <1>6

LEMMA RepliesFrame ==
  ASSUME SealInv, SealInv', WorkerInv, NEW w \in Workers, NEW me, me = W(w), Busy(w),
         Call(me.job, me.token) \/ UNCHANGED vars,
         NEW next, Replies(w, next), Carries(me, next)
  PROVE  WorkerInv'
<1>1. PICK f : f = [me EXCEPT !.pc = "fail"]
  OBVIOUS
<1>2. me \in WorkerRow /\ (me.plan = "append" => me.note \in Notes)
  BY BusyRow DEF WorkerInv
<1>3. Carries(me, f)
  <2>1. /\ f \in WorkerRow /\ f.pc = "fail" /\ f.job = me.job /\ f.token = me.token
        /\ f.attempt = me.attempt /\ f.plan = me.plan /\ f.note = me.note
    BY <1>1, <1>2, GoesOn DEF Pc
  <2>2. QED
    BY <1>2, <2>1 DEF Carries
<1>4. Moves(w, next) \/ Moves(w, f)
  BY <1>1 DEF Replies
<1>5. QED
  BY <1>3, <1>4, StepFrame

\* A conflict spends the job's replan, and the worker's with it.
LEMMA AgainFrame ==
  ASSUME SealInv, SealInv', WorkerInv, NEW w \in Workers, NEW me, me = W(w), Busy(w),
         Call(me.job, me.token), SpendReplan(me.job),
         NEW forced \in BOOLEAN, Replies(w, Again(w, forced))
  PROVE  WorkerInv'
<1>1. PICK next : next = Again(w, forced)
  OBVIOUS
<1>2. me \in WorkerRow /\ me.job \in Jobs
  BY BusyRow DEF WorkerInv
<1>3. job'[me.job].replan = 1
  BY <1>2, StoreTypes, SpendReplanCounts
<1>4. Carries(me, next)
  <2>1. /\ next \in WorkerRow /\ next.pc = "list" /\ next.job = me.job
        /\ next.token = me.token /\ next.attempt = me.attempt /\ next.replan = 1
        /\ next.plan = "none"
    BY <1>1, <1>2, AgainValues
  <2>2. QED
    BY <1>3, <2>1 DEF Carries
<1>5. Replies(w, next)
  BY <1>1
<1>6. QED
  BY <1>4, <1>5, RepliesFrame

\* A step that leaves job and capture as they were.
LEMMA CarriesOn ==
  ASSUME WorkerInv, NEW w \in Workers, NEW me, me = W(w), Busy(w), me.pc # "fail",
         UNCHANGED <<job, capture>>,
         NEW next \in WorkerRow, next.job = me.job, next.token = me.token,
         next.attempt = me.attempt, next.replan = me.replan,
         next.plan = "append" => next.note \in Notes,
         next.pc \in {"publish", "commit"} /\ next.plan = "append"
           /\ LeaseHeld(me.job, me.token) =>
             prep'[me.job].note = next.note /\ prep'[me.job].rev = next.rev
  PROVE  Carries(me, next)
<1>1. Knows(w)
  BY DEF WorkerInv
<1>2. LeaseHeld(me.job, me.token) => me.replan = job[me.job].replan
  BY <1>1 DEF Knows
<1>3. LeaseHeld(me.job, me.token)' => LeaseHeld(me.job, me.token)
  BY DEF LeaseHeld, Leased
<1>4. QED
  BY <1>2, <1>3 DEF Carries

LEMMA ListKeeps ==
  ASSUME SealInv, SealInv', WorkerInv, NEW w \in Workers, ListCandidates(w)
  PROVE  WorkerInv'
<1>1. PICK me, next : me = W(w) /\ next = [me EXCEPT !.pc = "disclose"]
  OBVIOUS
<1>2. Busy(w) /\ me.pc # "fail"
  BY <1>1 DEF ListCandidates, Busy
<1>3. me \in WorkerRow /\ (me.plan = "append" => me.note \in Notes)
  BY <1>1, <1>2, BusyRow DEF WorkerInv
<1>4. /\ next \in WorkerRow /\ next.pc = "disclose" /\ next.job = me.job /\ next.token = me.token
      /\ next.attempt = me.attempt /\ next.replan = me.replan /\ next.plan = me.plan
      /\ next.note = me.note
  BY <1>1, <1>3, GoesOn DEF Pc
<1>5. Call(me.job, me.token) /\ UNCHANGED <<job, capture>> /\ Replies(w, next)
  BY <1>1 DEF ListCandidates, List, Call
<1>6. Carries(me, next)
  BY <1>1, <1>2, <1>3, <1>4, <1>5, CarriesOn
<1>7. QED
  BY <1>1, <1>2, <1>5, <1>6, RepliesFrame

\* The planner's answers are rows of the worker that answered.
LEMMA DecisionValues ==
  ASSUME TypeInv, NEW w, NEW me \in WorkerRow, me = W(w), me.job \in Jobs,
         NEW next \in Decisions(w)
  PROVE  /\ next \in WorkerRow /\ next.pc \in {"list", "prepare"}
         /\ next.job = me.job /\ next.token = me.token /\ next.attempt = me.attempt
         /\ next.replan = me.replan /\ next.gen = me.gen
         /\ next.plan = "append" => next.note \in Notes \/ (next.note = me.note /\ me.plan = "append")
<1>1. PICK c : c = page[me.job].control
  OBVIOUS
<1>2. c \in Controls /\ \A n \in Notes : page[me.job].cand[n].rev \in Nat
  BY <1>1, Zenon DEF TypeInv, TypeOK, PageRow, Manifest
<1>3. c.kind # "none" => c.note \in Notes
  BY <1>2 DEF Controls
<1>4. PICK k : k = me.calls + 1
  OBVIOUS
<1>5. k \in Nat
  BY <1>4 DEF WorkerRow
<1>6. PICK called : called = IF c.kind = "rule" THEN me ELSE [me EXCEPT !.calls = k]
  OBVIOUS
<1>7. /\ called \in WorkerRow /\ called.job = me.job /\ called.token = me.token
      /\ called.attempt = me.attempt /\ called.replan = me.replan /\ called.gen = me.gen
      /\ called.plan = me.plan /\ called.note = me.note
  BY <1>5, <1>6, Zenon DEF WorkerRow
<1> DEFINE Same == /\ next.job = me.job /\ next.token = me.token /\ next.attempt = me.attempt
                   /\ next.replan = me.replan /\ next.gen = me.gen
<1>8. CASE next = [me EXCEPT !.pending = TRUE, !.pc = "prepare", !.plan = "review"]
  <2>1. next \in WorkerRow /\ next.pc = "prepare" /\ next.plan = "review" /\ Same
    BY <1>8, Zenon DEF WorkerRow
  <2>2. QED
    BY <2>1
<1>9. ASSUME NEW r \in {me, called}, next = [r EXCEPT !.pending = TRUE, !.pc = "list"]
      PROVE  next \in WorkerRow /\ next.pc = "list" /\ next.plan = me.plan /\ next.note = me.note /\ Same
  <2>1. /\ r \in WorkerRow /\ r.job = me.job /\ r.token = me.token /\ r.attempt = me.attempt
        /\ r.replan = me.replan /\ r.gen = me.gen /\ r.plan = me.plan /\ r.note = me.note
    BY <1>7
  <2>2. QED
    BY <1>9, <2>1, Zenon DEF WorkerRow
<1>10. ASSUME NEW n \in Notes, NEW v \in Nat,
              next = [called EXCEPT !.pc = "prepare", !.plan = "append", !.note = n, !.rev = v]
       PROVE  next \in WorkerRow /\ next.pc = "prepare" /\ next.note \in Notes /\ Same
  BY <1>7, <1>10, Zenon DEF WorkerRow
<1>11. CASE next = [called EXCEPT !.pc = "prepare", !.plan = "create"]
  <2>1. next \in WorkerRow /\ next.pc = "prepare" /\ next.plan = "create" /\ Same
    BY <1>7, <1>11, Zenon DEF WorkerRow
  <2>2. QED
    BY <2>1
<1>12. \/ next = [me EXCEPT !.pending = TRUE, !.pc = "prepare", !.plan = "review"]
       \/ \E r \in {me, called} : next = [r EXCEPT !.pending = TRUE, !.pc = "list"]
       \/ \E n \in Notes, v \in Nat :
            next = [called EXCEPT !.pc = "prepare", !.plan = "append", !.note = n, !.rev = v]
       \/ next = [called EXCEPT !.pc = "prepare", !.plan = "create"]
  <2>1. Disclosed(me.job) \subseteq Notes
    BY DEF Disclosed
  <2>2. ASSUME next \in {[called EXCEPT !.pc = "prepare", !.plan = "append", !.note = n,
                                       !.rev = page[me.job].cand[n].rev] :
                          n \in IF c.kind = "none" THEN Disclosed(me.job) ELSE {c.note}}
        PROVE  \E n \in Notes, v \in Nat :
                 next = [called EXCEPT !.pc = "prepare", !.plan = "append", !.note = n, !.rev = v]
    <3>1. PICK n \in IF c.kind = "none" THEN Disclosed(me.job) ELSE {c.note} :
            next = [called EXCEPT !.pc = "prepare", !.plan = "append", !.note = n,
                                  !.rev = page[me.job].cand[n].rev]
      BY <2>2
    <3>2. n \in Notes /\ page[me.job].cand[n].rev \in Nat
      BY <1>2, <1>3, <2>1
    <3>3. QED
      BY <3>1, <3>2, Zenon
  <2>3. \/ next = [me EXCEPT !.pending = TRUE, !.pc = "prepare", !.plan = "review"]
        \/ next = [me EXCEPT !.pending = TRUE, !.pc = "list"]
        \/ next = [called EXCEPT !.pending = TRUE, !.pc = "list"]
        \/ next = [called EXCEPT !.pc = "prepare", !.plan = "create"]
        \/ next \in {[called EXCEPT !.pc = "prepare", !.plan = "append", !.note = n,
                                    !.rev = page[me.job].cand[n].rev] :
                       n \in IF c.kind = "none" THEN Disclosed(me.job) ELSE {c.note}}
    BY <1>1, <1>4, <1>6, Zenon DEF Decisions
  <2>4. QED
    BY <2>2, <2>3, Zenon
<1>13. QED
  BY <1>8, <1>9, <1>10, <1>11, <1>12

LEMMA DiscloseKeeps ==
  ASSUME SealInv, SealInv', WorkerInv, NEW w \in Workers, Disclose(w)
  PROVE  WorkerInv'
<1>1. PICK me : me = W(w)
  OBVIOUS
<1>2. Busy(w) /\ me.pc # "fail"
  BY <1>1 DEF Disclose, Busy
<1>3. me \in WorkerRow /\ me.job \in Jobs /\ (me.plan = "append" => me.note \in Notes)
  BY <1>1, <1>2, BusyRow DEF WorkerInv
<1>4. CASE HeartbeatAuthorize(me.job, me.token) /\ \E next \in Decisions(w) : Replies(w, next)
  <2>1. PICK next \in Decisions(w) : Replies(w, next)
    BY <1>4
  <2>2. /\ next \in WorkerRow /\ next.pc \in {"list", "prepare"}
        /\ next.job = me.job /\ next.token = me.token /\ next.attempt = me.attempt
        /\ next.replan = me.replan /\ (next.plan = "append" => next.note \in Notes)
    BY <1>1, <1>3, StoreTypes, DecisionValues
  <2>3. Call(me.job, me.token) /\ UNCHANGED <<job, capture>>
    BY <1>4 DEF HeartbeatAuthorize, Call
  <2>4. Carries(me, next)
    BY <1>1, <1>2, <2>2, <2>3, CarriesOn
  <2>5. QED
    BY <1>1, <1>2, <2>1, <2>3, <2>4, RepliesFrame
<1>5. ASSUME HeartbeatConflict(me.job, me.token), NEW forced \in BOOLEAN, Replies(w, Again(w, forced))
      PROVE  WorkerInv'
  BY <1>1, <1>2, <1>5, AgainFrame DEF HeartbeatConflict, RecordConflict, Call
<1>6. QED
  BY <1>1, <1>4, <1>5 DEF Disclose

LEMMA ReserveNames ==
  ASSUME SealInv, NEW j \in Jobs, NEW t, NEW m, NEW n, NEW v, NEW r, NEW q,
         Reserve(j, t, m, n, v, r, q)
  PROVE  prep'[j].note = n /\ prep'[j].rev = v
  BY StoreTypes, Zenon DEF Reserve

LEMMA PrepareKeeps ==
  ASSUME SealInv, SealInv', WorkerInv, NEW w \in Workers, Prepare(w)
  PROVE  WorkerInv'
<1>1. PICK me, r, sealed, refused :
        /\ me = W(w) /\ r = ReservationId(me.job, me.attempt, me.gen)
        /\ sealed = [me EXCEPT !.pc = "publish"]
        /\ refused = [me EXCEPT !.pc = "publish", !.plan = "review", !.pending = TRUE]
  OBVIOUS
<1>2. Busy(w) /\ me.pc = "prepare" /\ r \in ReservationIds
  BY <1>1 DEF Prepare, Busy
<1>3. me \in WorkerRow /\ me.job \in Jobs /\ (me.plan = "append" => me.note \in Notes)
      /\ me.token \in 1..job[me.job].issued
  BY <1>1, <1>2, BusyRow DEF WorkerInv
<1>4. /\ sealed \in WorkerRow /\ sealed.job = me.job /\ sealed.token = me.token
      /\ sealed.attempt = me.attempt /\ sealed.replan = me.replan /\ sealed.plan = me.plan
      /\ sealed.note = me.note /\ sealed.rev = me.rev
  BY <1>1, <1>3, GoesOn DEF Pc
<1>5. /\ refused \in WorkerRow /\ refused.job = me.job /\ refused.token = me.token
      /\ refused.attempt = me.attempt /\ refused.replan = me.replan /\ refused.plan = "review"
  BY <1>1, <1>3, Zenon DEF WorkerRow
<1>6. ASSUME Call(me.job, me.token), UNCHANGED <<job, capture>>, Replies(w, refused)
      PROVE  WorkerInv'
  <2>1. Carries(me, refused)
    BY <1>1, <1>2, <1>5, <1>6, CarriesOn
  <2>2. QED
    BY <1>1, <1>2, <1>6, <2>1, RepliesFrame
<1>7. CASE /\ me.plan \in {"create", "review"} /\ PrepareCreate(me.job, me.token, r)
           /\ Replies(w, sealed) \/ Replies(w, refused)
  <2>1. Call(me.job, me.token) /\ UNCHANGED <<job, capture>>
    BY <1>2, <1>7 DEF Call, PrepareCreate
  <2>2. Carries(me, sealed)
    BY <1>1, <1>2, <1>4, <1>7, <2>1, CarriesOn
  <2>3. QED
    BY <1>1, <1>2, <1>6, <1>7, <2>1, <2>2, RepliesFrame
<1>8. ASSUME me.plan = "append",
             \/ PrepareAppend(me.job, me.token, me.note, me.rev, r)
             \/ PrepareAppendReplan(me.job, me.token, me.note, me.rev, r)
             \/ PrepareAppendReview(me.job, me.token, me.note, me.rev, r)
      PROVE  Call(me.job, me.token)
  <2>1. me.rev = page[me.job].cand[me.note].rev
    BY <1>8 DEF PrepareAppend, PrepareAppendReplan, PrepareAppendReview, MayPrepareAppend,
                Authorizes
  <2>2. QED
    BY <1>2, <1>3, <1>8, <2>1 DEF Call
<1>9. CASE /\ me.plan = "append" /\ PrepareAppend(me.job, me.token, me.note, me.rev, r)
           /\ Replies(w, sealed) \/ Replies(w, refused)
  <2>1. Call(me.job, me.token) /\ UNCHANGED <<job, capture>>
    BY <1>8, <1>9 DEF PrepareAppend
  <2>2. prep'[me.job].note = me.note /\ prep'[me.job].rev = me.rev
    BY <1>3, <1>9, ReserveNames DEF PrepareAppend
  <2>3. Carries(me, sealed)
    BY <1>1, <1>2, <1>3, <1>4, <2>1, <2>2, CarriesOn
  <2>4. QED
    BY <1>1, <1>2, <1>6, <1>9, <2>1, <2>3, RepliesFrame
<1>10. CASE /\ me.plan = "append" /\ PrepareAppendReplan(me.job, me.token, me.note, me.rev, r)
            /\ Replies(w, Again(w, FALSE))
  <2>1. Call(me.job, me.token) /\ SpendReplan(me.job)
    BY <1>8, <1>10 DEF PrepareAppendReplan
  <2>2. QED
    BY <1>1, <1>2, <1>10, <2>1, AgainFrame
<1>11. CASE /\ me.plan = "append" /\ PrepareAppendReview(me.job, me.token, me.note, me.rev, r)
            /\ Replies(w, refused)
  BY <1>6, <1>8, <1>11 DEF PrepareAppendReview
<1>12. QED
  BY <1>1, <1>7, <1>9, <1>10, <1>11 DEF Prepare

LEMMA PublishKeeps ==
  ASSUME SealInv, SealInv', WorkerInv, NEW w \in Workers, Publish(w)
  PROVE  WorkerInv'
<1>1. PICK me, next : me = W(w) /\ next = [me EXCEPT !.pc = "commit"]
  OBVIOUS
<1>2. Busy(w) /\ me.pc = "publish"
  BY <1>1 DEF Publish, Busy
<1>3. me \in WorkerRow /\ me.job \in Jobs /\ (me.plan = "append" => me.note \in Notes)
  BY <1>1, <1>2, BusyRow DEF WorkerInv
<1>4. CASE HeartbeatAuthorize(me.job, me.token) /\ Replies(w, next)
  <2>1. /\ next \in WorkerRow /\ next.job = me.job /\ next.token = me.token
        /\ next.attempt = me.attempt /\ next.replan = me.replan /\ next.plan = me.plan
        /\ next.note = me.note /\ next.rev = me.rev
    BY <1>1, <1>3, GoesOn DEF Pc
  <2>2. Call(me.job, me.token) /\ UNCHANGED <<job, capture, prep>>
    BY <1>4 DEF HeartbeatAuthorize, Call
  <2>3. Prepared(w)
    BY DEF WorkerInv
  <2>4. me.plan = "append" /\ LeaseHeld(me.job, me.token) =>
          prep'[me.job].note = me.note /\ prep'[me.job].rev = me.rev
    BY <1>1, <1>2, <2>2, <2>3 DEF Prepared, Sealed
  <2>5. Carries(me, next)
    BY <1>1, <1>2, <1>3, <2>1, <2>2, <2>4, CarriesOn
  <2>6. QED
    BY <1>1, <1>2, <1>4, <2>2, <2>5, RepliesFrame
<1>5. ASSUME HeartbeatConflict(me.job, me.token), NEW forced \in BOOLEAN, Replies(w, Again(w, forced))
      PROVE  WorkerInv'
  BY <1>1, <1>2, <1>5, AgainFrame DEF HeartbeatConflict, RecordConflict, Call
<1>6. QED
  BY <1>1, <1>4, <1>5 DEF Publish

LEMMA Quits ==
  ASSUME SealInv, SealInv', WorkerInv, NEW w \in Workers, NEW me, me = W(w), Busy(w),
         Call(me.job, me.token) \/ UNCHANGED vars,
         NEW next \in {Idle, [me EXCEPT !.pc = "fail"]}, Moves(w, next) \/ Replies(w, next)
  PROVE  WorkerInv'
<1>1. Carries(me, Idle)
  BY DEF Carries
<1>2. CASE next = Idle
  BY <1>1, <1>2, StepFrame, RepliesFrame
<1>3. CASE next = [me EXCEPT !.pc = "fail"]
  <2>1. Replies(w, Idle)
    BY <1>3 DEF Replies
  <2>2. QED
    BY <1>1, <2>1, RepliesFrame
<1>4. QED
  BY <1>2, <1>3

LEMMA CommitKeeps ==
  ASSUME SealInv, SealInv', WorkerInv, NEW w \in Workers, CommitCommand(w)
  PROVE  WorkerInv'
<1>1. PICK me, outcome : me = W(w) /\ outcome = CommandOutcome(me.plan)
  OBVIOUS
<1>2. Busy(w) /\ me.pc = "commit" /\ outcome \in Outcome
  BY <1>1 DEF CommitCommand, Busy, CommandOutcome, Outcome
<1>3. CASE /\ \/ CommitCreate(me.job, me.token) \/ CommitAppend(me.job, me.token)
              \/ CommitReview(me.job, me.token)
           /\ Replies(w, Idle)
  BY <1>1, <1>2, <1>3, Quits DEF Call, Commit
<1>4. ASSUME \/ CommitRuleBroken(me.job, me.token, outcome)
             \/ CommitConflict(me.job, me.token, outcome)
             \/ CommitTargetMoved(me.job, me.token, outcome)
      PROVE  Call(me.job, me.token) /\ SpendReplan(me.job)
  BY <1>2, <1>4 DEF Call, Commit, CommitRuleBroken, CommitConflict, CommitTargetMoved,
                    RecordConflict
<1>5. ASSUME \/ CommitRuleBroken(me.job, me.token, outcome)
             \/ CommitConflict(me.job, me.token, outcome)
             \/ CommitTargetMoved(me.job, me.token, outcome),
             NEW forced \in BOOLEAN, Replies(w, Again(w, forced))
      PROVE  WorkerInv'
  BY <1>1, <1>2, <1>4, <1>5, AgainFrame
<1>6. CASE /\ CommitConflict(me.job, me.token, outcome) \/ CommitTargetMoved(me.job, me.token, outcome)
           /\ Moves(w, [me EXCEPT !.pc = "fail"])
  BY <1>1, <1>2, <1>4, <1>6, Quits
<1>7. QED
  BY <1>1, <1>3, <1>5, <1>6 DEF CommitCommand

LEMMA StepKeeps ==
  ASSUME SealInv, SealInv', WorkerInv, NEW w \in Workers, Step(w) \/ Crash(w)
  PROVE  WorkerInv'
<1>1. PICK me : me = W(w)
  OBVIOUS
<1>2. CASE Abort(w)
  <2>1. Busy(w)
    BY <1>2 DEF Abort, Busy
  <2>2. QED
    BY <1>1, <1>2, <2>1, Quits DEF Abort
<1>3. CASE ReportFailure(w)
  <2>1. Busy(w)
    BY <1>3 DEF ReportFailure, Busy
  <2>2. QED
    BY <1>1, <1>3, <2>1, Quits DEF ReportFailure, Call
<1>4. CASE Crash(w)
  BY <1>1, <1>4, Quits DEF Crash, Busy
<1>5. QED
  BY <1>2, <1>3, <1>4, ListKeeps, DiscloseKeeps, PrepareKeeps, PublishKeeps, CommitKeeps DEF Step

\* A worker that does not move, while no holder is disturbed.
LEMMA RestRemember ==
  ASSUME SealInv, WorkerInv, NEW v \in Workers, W(v)' = W(v),
         \A i \in Jobs : job'[i].issued \in Nat /\ job'[i].issued >= job[i].issued,
         \A i \in Jobs : \A s \in 1..job[i].issued : Undisturbed(i, s)
  PROVE  Remembers(v)' /\ Knows(v)' /\ Prepared(v)'
<1>1. PICK me, i, s : me = W(v) /\ i = me.job /\ s = me.token
  OBVIOUS
<1>2. ASSUME Busy(v)
      PROVE  Undisturbed(i, s) /\ job[i].issued \in Nat /\ job'[i].issued \in Nat
             /\ job'[i].issued >= job[i].issued
  <2>1. i \in Jobs /\ s \in 1..job[i].issued
    BY <1>1, <1>2, BusyRow DEF WorkerInv
  <2>2. job[i].issued \in Nat
    BY <2>1, StoreTypes DEF JobRow
  <2>3. QED
    BY <2>1, <2>2
<1>3. QED
  BY <1>1, <1>2, OthersRemember

LEMMA BeginKeeps ==
  ASSUME SealInv, SealInv', WorkerInv, NEW w \in Workers, NEW j \in Jobs, Begin(w, j)
  PROVE  WorkerInv'
<1>0. Claim(j) /\ job \in [Jobs -> JobRow] /\ job[j].issued \in Nat
      /\ job'[j].attempt \in 0..MaxAttempts /\ job[j].attempt \in Nat
  <2>1. job \in [Jobs -> JobRow] /\ Claim(j)
    BY StoreTypes DEF Begin
  <2>2. job' \in [Jobs -> JobRow]
    BY Zenon DEF SealInv, LeaseInv, LifeInv, TypeInv, TypeOK
  <2>3. QED
    BY <2>1, <2>2 DEF JobRow
<1>1. /\ Only(j) /\ job'[j].issued = job[j].issued + 1 /\ job'[j].token = job[j].issued + 1
      /\ job'[j].attempt = job[j].attempt + 1 /\ job'[j].replan = job[j].replan
      /\ \A i \in Jobs : \A s \in 1..job[i].issued : Undisturbed(i, s)
  <2>1. ASSUME NEW i \in Jobs, NEW s \in 1..job[i].issued PROVE Undisturbed(i, s)
    BY <1>0, <2>1, ClaimQuiet
  <2>2. job'[j] = Started(j) /\ Only(j)
    BY <1>0, StoreTypes, Zenon DEF Claim, Only
  <2>3. QED
    BY <2>1, <2>2, StoreTypes, StartedValues
<1>2. \A i \in Jobs : job'[i].issued \in Nat /\ job'[i].issued >= job[i].issued
  BY <1>0, <1>1 DEF Only, JobRow
<1>3. PICK next : Moves(w, next) /\
        \/ next = Idle
        \/ \E pending \in BOOLEAN :
             next = [pc |-> "list", job |-> j, token |-> job'[j].token,
                     attempt |-> job'[j].attempt, replan |-> job[j].replan,
                     limit |-> IF job[j].replan = 0 THEN 2 ELSE 1,
                     gen |-> 0, calls |-> 0, pending |-> pending,
                     plan |-> "none", note |-> NoNote, rev |-> 0]
  BY DEF Begin
<1>4. ASSUME next # Idle
      PROVE  /\ next \in WorkerRow /\ next.pc = "list" /\ next.job = j
             /\ next.token = job[j].issued + 1 /\ next.attempt = job'[j].attempt
             /\ next.replan = job'[j].replan /\ next.plan = "none"
  <2>1. job[j].replan \in 0..1 /\ job'[j].token \in Nat /\ job'[j].attempt \in 1..MaxAttempts
        /\ (IF job[j].replan = 0 THEN 2 ELSE 1) \in 1..2
    BY <1>0, <1>1 DEF JobRow
  <2>2. QED
    BY <1>1, <1>3, <1>4, <2>1 DEF WorkerRow
<1>5. W(w)' = next /\ \A v \in Workers \ {w} : W(v)' = W(v)
  BY <1>3, Moved
<1>6. Remembers(w)' /\ Knows(w)' /\ Prepared(w)'
  <2>1. CASE next = Idle
    BY <1>5, <2>1 DEF Remembers, Knows, Prepared, Sealed, Busy, W, Idle
  <2>2. CASE next # Idle
    <3>1. next.token \in 1..job'[j].issued
      BY <1>0, <1>1, <1>4, <2>2
    <3>2. Remembers(w)'
      BY <1>4, <1>5, <2>2, <3>1 DEF Remembers
    <3>3. Knows(w)' /\ Prepared(w)'
      BY <1>4, <1>5, <2>2 DEF Knows, Prepared, Sealed
    <3>4. QED
      BY <3>2, <3>3
  <2>3. QED
    BY <2>1, <2>2
<1>7. \A v \in Workers \ {w} : Remembers(v)' /\ Knows(v)' /\ Prepared(v)'
  BY <1>1, <1>2, <1>5, RestRemember
<1>8. ASSUME next # Idle, NEW v \in Workers \ {w}, Busy(v), W(v).job = next.job
      PROVE  W(v).token # next.token
  <2>1. W(v).token \in 1..job[j].issued
    BY <1>4, <1>8, BusyRow DEF WorkerInv
  <2>2. QED
    BY <1>0, <1>4, <1>8, <2>1
<1>9. next \in WorkerRow \cup {Idle}
  BY <1>4
<1>10. QED
  BY <1>3, <1>6, <1>7, <1>8, <1>9, WorkerParts

\* The owner, expiry and recovery move no worker and disturb none.
LEMMA EnvironmentKeeps ==
  ASSUME SealInv, SealInv', WorkerInv, UNCHANGED worker,
         Owner \/ (\E j \in Jobs : Expire(j) \/ Recover(j)) \/ UNCHANGED vars
  PROVE  WorkerInv'
<1>1. ASSUME NEW i \in Jobs, NEW s PROVE Undisturbed(i, s) /\ job'[i].issued = job[i].issued
  <2>1. CASE Owner
    BY <2>1, OwnerQuiet
  <2>2. CASE \E j \in Jobs : Expire(j) \/ Recover(j)
    BY <2>2, SweepQuiet DEF Counts
  <2>3. CASE UNCHANGED vars
    BY <2>3 DEF vars, Undisturbed, LeaseHeld, Leased
  <2>4. QED
    BY <2>1, <2>2, <2>3
<1>2. ASSUME NEW i \in Jobs PROVE job'[i].issued \in Nat /\ job'[i].issued >= job[i].issued
  <2>1. job'[i].issued = job[i].issued
    BY <1>1
  <2>2. job[i].issued \in Nat
    BY StoreTypes DEF JobRow
  <2>3. QED
    BY <2>1, <2>2
<1>3. \A v \in Workers : Remembers(v)' /\ Knows(v)' /\ Prepared(v)'
  BY <1>1, <1>2, RestRemember DEF W
<1>4. QED
  BY <1>3 DEF WorkerInv, Apart, Busy, W

LEMMA DrainKeeps ==
  ASSUME DrainInv, [DrainNext]_drainVars
  PROVE  DrainInv'
<1>1. SealInv /\ WorkerInv /\ [Next]_vars
  BY DrainIsNext DEF DrainInv, WorkerInv
<1>2. SealInv'
  BY <1>1, SealStep
<1>3. CASE \/ Owner /\ UNCHANGED worker
           \/ \E j \in Jobs : ExpireLease(j) \/ RecoverStale(j)
           \/ UNCHANGED drainVars
  <2>1. UNCHANGED worker
    BY <1>3 DEF ExpireLease, RecoverStale, drainVars
  <2>2. Owner \/ (\E j \in Jobs : Expire(j) \/ Recover(j)) \/ UNCHANGED vars
    BY <1>3 DEF ExpireLease, RecoverStale, drainVars
  <2>3. QED
    BY <1>1, <1>2, <2>1, <2>2, EnvironmentKeeps DEF DrainInv
<1>4. ASSUME NEW w \in Workers, (\E j \in Jobs : Begin(w, j)) \/ Step(w) \/ Crash(w)
      PROVE  WorkerInv'
  BY <1>1, <1>2, <1>4, BeginKeeps, StepKeeps
<1>5. QED
  BY <1>1, <1>2, <1>3, <1>4 DEF DrainNext, DrainInv

LEMMA DrainStart == DrainInit => DrainInv
<1> SUFFICES ASSUME DrainInit PROVE DrainInv
  OBVIOUS
<1>1. SealInv
  BY SealInit DEF DrainInit
<1>2. worker = [w \in Workers |-> Idle] /\ \A w \in Workers : W(w) = Idle
  BY DEF DrainInit, W
<1>3. WorkerInv
  BY <1>2 DEF WorkerInv, Remembers, Knows, Prepared, Sealed, Apart, Busy, Idle
<1>4. QED
  BY <1>1, <1>3 DEF DrainInv

LEMMA DrainInvariant == DrainSpec => []DrainInv
<1>1. DrainInv /\ [DrainNext]_drainVars => DrainInv'
  BY DrainKeeps
<1>2. QED
  BY <1>1, DrainStart, PTL DEF DrainSpec

\* Every behaviour of the workers is a behaviour of the store, so each of the
\* store's guarantees holds of the service that runs on it.
THEOREM WorkersUseTheStore == DrainSpec => Spec
<1>1. DrainInit => Init
  BY DEF DrainInit
<1>2. DrainInv /\ [DrainNext]_drainVars => [Next]_vars
  BY DrainIsNext DEF DrainInv, WorkerInv
<1>3. QED
  BY <1>1, <1>2, DrainInvariant, PTL DEF DrainSpec, Spec

\* So under the workers too a capture is published once, no job is stranded,
\* the owner's destination is respected and no reservation outlives its lease.
THEOREM ServiceKeepsTheStore ==
  DrainSpec => [](/\ ExactlyOnce /\ WorkNeverStranded /\ DestinationRespected
                  /\ LeaseOwnsReservations /\ NoDanglingNote)
  BY WorkersUseTheStore, PublishedExactlyOnce, NeverStranded, DestinationAlwaysRespected,
     ReservationsOwned, NoNoteDangles, PTL

\* Only one worker at a time can get a call through for a job, and that worker
\* knows whether the job's one replan is spent (processJob's own copy of it).
THEOREM HolderKnows == DrainSpec => []HolderKnowsJob
<1>1. DrainInv => HolderKnowsJob
  <2> SUFFICES ASSUME DrainInv PROVE HolderKnowsJob
    OBVIOUS
  <2>1. \A w \in Workers : HoldsLease(w) => Busy(w)
    BY DEF HoldsLease, Working, Busy
  <2>2. OneLeaseHolder
    BY <2>1 DEF OneLeaseHolder, DrainInv, WorkerInv, Apart, HoldsLease, LeaseHeld
  <2>3. ReplanAgreed
    BY <2>1 DEF ReplanAgreed, DrainInv, WorkerInv, Knows, HoldsLease, Working
  <2>4. QED
    BY <2>2, <2>3 DEF HolderKnowsJob
<1>2. QED
  BY <1>1, DrainInvariant, PTL

-----------------------------------------------------------------------------
(* The append lands on the revision the planner read.                      *)

LEMMA NothingPublished ==
  ASSUME NEW j \in Jobs, NEW t, Call(j, t), ~Commit(j, t)
  PROVE  UNCHANGED published
  BY DEF Call, List, HeartbeatConflict, HeartbeatAuthorize, PrepareCreate, PrepareAppend,
         PrepareAppendReplan, PrepareAppendReview, Fail

\* The commit that moves published is the one of the plan, and finds the note
\* at the revision the worker read.
LEMMA AppendLands ==
  ASSUME SealInv, WorkerInv, NEW w \in Workers, CommitCommand(w), NEW me, me = W(w),
         me.plan = "append", ~UNCHANGED published
  PROVE  note[me.note].rev = me.rev /\ note'[me.note].rev = me.rev + 1
<1>1. Busy(w)
  BY DEF CommitCommand, Busy
<1>2. me \in WorkerRow /\ me.job \in Jobs /\ me.note \in Notes
  BY <1>1, BusyRow DEF WorkerInv
<1>3. CommandOutcome(me.plan) = "appended"
  BY DEF CommandOutcome
<1>4. CommitAppend(me.job, me.token)
  BY <1>3 DEF CommitCommand, CommitRuleBroken, CommitConflict, CommitTargetMoved
<1>5. LeaseHeld(me.job, me.token) /\ TargetCurrent(me.job)
  BY <1>4 DEF CommitAppend, Publishable, PassesHeartbeat, ReachesHeartbeat, MayCommit
<1>6. Prepared(w) /\ me.pc = "commit"
  BY DEF WorkerInv, CommitCommand
<1>7. prep[me.job].note = me.note /\ prep[me.job].rev = me.rev
  BY <1>5, <1>6 DEF Prepared, Sealed
<1>8. note[me.note].rev = me.rev
  BY <1>5, <1>7 DEF TargetCurrent
<1>9. PICK v : v = note[me.note].rev + 1
  OBVIOUS
<1>10. note \in [Notes -> NoteRow] /\ note' = [note EXCEPT ![me.note].rev = v]
  BY <1>4, <1>7, <1>9, StoreTypes DEF CommitAppend
<1>11. note'[me.note].rev = v
  BY <1>2, <1>10, Zenon DEF NoteRow
<1>12. QED
  BY <1>8, <1>9, <1>11

\* What the planner read is what the append lands on (the compare-and-set of
\* the commit is on the revision of the disclosed page, whatever ran between).
THEOREM PlanLands == DrainSpec => PlannedRevisionPublished
<1> DEFINE Lands(w) ==
      W(w).pc = "commit" /\ W(w).plan = "append"
      /\ published'[W(w).job] # published[W(w).job] /\ worker'[w] # worker[w]
      => note[W(w).note].rev = W(w).rev /\ note'[W(w).note].rev = W(w).rev + 1
<1>1. DrainInv /\ [DrainNext]_drainVars => [\A w \in Workers : Lands(w)]_drainVars
  <2> SUFFICES ASSUME DrainInv, DrainNext, NEW w \in Workers, NEW me, me = W(w),
                      me.pc = "commit", me.plan = "append",
                      published'[me.job] # published[me.job], worker'[w] # worker[w]
               PROVE  note[me.note].rev = me.rev /\ note'[me.note].rev = me.rev + 1
    OBVIOUS
  <2>1. SealInv /\ WorkerInv
    BY DEF DrainInv
  <2>2. PICK v \in Workers : (\E j \in Jobs : Begin(v, j)) \/ Step(v) \/ Crash(v)
    BY DEF DrainNext, ExpireLease, RecoverStale
  <2>3. v = w
    <3>1. \E next : Moves(v, next)
      BY <2>2 DEF Begin, Step, Crash, ListCandidates, Disclose, Prepare, Publish, CommitCommand,
                  Abort, ReportFailure, Replies
    <3>2. QED
      BY <2>1, <3>1, Moved DEF W
  <2>4. CommitCommand(w) \/ UNCHANGED vars
    BY <2>2, <2>3 DEF Begin, Step, Crash, ListCandidates, Disclose, Prepare, Publish, Abort,
                      ReportFailure
  <2>5. QED
    BY <2>1, <2>4, AppendLands DEF vars
<1>2. QED
  BY <1>1, DrainInvariant, PTL DEF DrainSpec, PlannedRevisionPublished

-----------------------------------------------------------------------------
(* Reservation ids.                                                        *)

Free(r) == reservation[r] = "free"
UnusedInv == \A j \in Jobs : Unused(j)

\* A step that reserves nothing leaves free what was free.
NoneReserved == \A r \in ReservationIds : Free(r) => Free(r)'

LEMMA BurnReservesNone ==
  ASSUME SealInv, NEW j \in Jobs, reservation' = Burned(j)
  PROVE  NoneReserved
<1> SUFFICES ASSUME NEW r \in ReservationIds, reservation[r] = "free"
             PROVE  Burned(j)[r] = "free"
  BY DEF NoneReserved, Free
<1>1. OpenPrep(j) /\ r = prep[j].res => reservation[r] = "held"
  BY NullAssumption DEF SealInv, SealedUnderHeld
<1>2. QED
  BY <1>1 DEF Burned

LEMMA ReserveReservesOne ==
  ASSUME SealInv, NEW j \in Jobs, NEW t, NEW m, NEW n, NEW v, NEW r \in ReservationIds, NEW q,
         Reserve(j, t, m, n, v, r, q)
  PROVE  \A x \in ReservationIds \ {r} : Free(x) => Free(x)'
<1> SUFFICES ASSUME NEW x \in ReservationIds \ {r}, reservation[x] = "free"
             PROVE  reservation'[x] = "free"
  BY DEF Free
<1>1. OpenPrep(j) /\ x = prep[j].res => reservation[x] = "held"
  BY NullAssumption DEF SealInv, SealedUnderHeld
<1>2. Burned(j)[x] = "free"
  BY <1>1 DEF Burned
<1>3. reservation'[x] = Burned(j)[x]
  BY Zenon DEF Reserve, Burned
<1>4. QED
  BY <1>2, <1>3

\* Only a preparation reserves.
LEMMA OthersReserveNone ==
  ASSUME SealInv, NEW j \in Jobs, NEW t,
         \/ \E S \in Listable(j) : List(j, t, S)
         \/ HeartbeatConflict(j, t) \/ HeartbeatAuthorize(j, t)
         \/ Commit(j, t)
         \/ \E kind \in Failures : Fail(j, t, kind)
         \/ \E n, v, r : PrepareAppendReplan(j, t, n, v, r)
         \/ Claim(j) \/ Expire(j) \/ Recover(j)
  PROVE  NoneReserved
<1>1. reservation' = Burned(j) \/ UNCHANGED reservation
  BY DEF List, HeartbeatConflict, HeartbeatAuthorize, RecordConflict, VoidPreparation, Commit,
         CommitRuleBroken, CommitConflict, CommitTargetMoved, CommitCreate, CommitAppend,
         CommitReview, Succeed, Fail, ReleasePreparation, PrepareAppendReplan, Claim, Expire, Recover
<1>2. QED
  BY <1>1, BurnReservesNone DEF NoneReserved, Free

LEMMA OwnerReservesNone ==
  ASSUME SealInv, Owner
  PROVE  NoneReserved
<1>1. ASSUME NEW j \in Jobs, Delete(j) PROVE NoneReserved
  BY <1>1, BurnReservesNone DEF Delete, NoneReserved, Free
<1>2. QED
  BY <1>1 DEF Owner, Capture, Retry, OwnerWrite, Purge, NoneReserved, Free

\* A worker's move from one call to the next: to a later generation, or on in
\* this one without coming back from a sealed preparation.
Onward(me, next) ==
  next.pc \notin {"idle", "fail"} =>
    /\ me.pc # "fail" /\ next.job = me.job /\ next.token = me.token /\ next.attempt = me.attempt
    /\ \/ next.gen = me.gen + 1
       \/ next.gen = me.gen /\ (me.pc \in {"publish", "commit"} => next.pc \in {"publish", "commit"})

\* A preparation reserves the worker's id of this generation, under its lease.
Reserves(me, next) ==
  /\ LeaseHeld(me.job, me.token) /\ next.pc \in {"publish", "fail"}
  /\ \A x \in ReservationIds \ {ReservationId(me.job, me.attempt, me.gen)} : Free(x) => Free(x)'

LEMMA AgainOnward ==
  ASSUME NEW w, NEW me \in WorkerRow, me = W(w), me.pc # "fail", NEW forced \in BOOLEAN
  PROVE  Onward(me, Again(w, forced))
<1>1. PICK next : next = Again(w, forced)
  OBVIOUS
<1>2. /\ next.job = me.job /\ next.token = me.token /\ next.attempt = me.attempt
      /\ next.gen = me.gen + 1
  BY <1>1, AgainValues
<1>3. QED
  BY <1>1, <1>2 DEF Onward

LEMMA PrepareOnward ==
  ASSUME SealInv, WorkerInv, NEW w \in Workers, Prepare(w), NEW me, me = W(w)
  PROVE  \E next : /\ Moves(w, next) /\ Onward(me, next)
                   /\ NoneReserved \/ Reserves(me, next)
<1>1. PICK r, sealed, refused :
        /\ r = ReservationId(me.job, me.attempt, me.gen)
        /\ sealed = [me EXCEPT !.pc = "publish"]
        /\ refused = [me EXCEPT !.pc = "publish", !.plan = "review", !.pending = TRUE]
  OBVIOUS
<1>2. Busy(w) /\ me.pc = "prepare" /\ r \in ReservationIds
  BY <1>1 DEF Prepare, Busy
<1>3. me \in WorkerRow /\ me.job \in Jobs
  BY <1>2, BusyRow DEF WorkerInv
<1>4. ASSUME NEW s \in {sealed, refused}
      PROVE  Onward(me, s) /\ s.pc = "publish"
  <2>1. /\ s.job = me.job /\ s.token = me.token /\ s.attempt = me.attempt
        /\ s.gen = me.gen /\ s.pc = "publish"
    <3>1. CASE s = sealed
      BY <1>1, <1>3, <3>1, GoesOn DEF Pc
    <3>2. CASE s = refused
      BY <1>1, <1>3, <3>2, Zenon DEF WorkerRow
    <3>3. QED
      BY <3>1, <3>2
  <2>2. QED
    BY <1>2, <2>1 DEF Onward
<1>5. PICK f : f = [me EXCEPT !.pc = "fail"]
  OBVIOUS
<1>6. f.pc = "fail" /\ Onward(me, f)
  BY <1>3, <1>5, GoesOn DEF Pc, Onward
<1>7. CASE PrepareAppendReplan(me.job, me.token, me.note, me.rev, r) /\ Replies(w, Again(w, FALSE))
  <2>1. NoneReserved
    BY <1>3, <1>7, OthersReserveNone
  <2>2. Onward(me, Again(w, FALSE))
    BY <1>2, <1>3, AgainOnward
  <2>3. QED
    BY <1>5, <1>6, <1>7, <2>1, <2>2 DEF Replies
<1>8. ASSUME NEW s \in {sealed, refused}, Replies(w, s), NEW m, NEW n, NEW v, NEW q,
             Reserve(me.job, me.token, m, n, v, r, q), LeaseHeld(me.job, me.token)
      PROVE  \E next : Moves(w, next) /\ Onward(me, next) /\ Reserves(me, next)
  <2>1. \A x \in ReservationIds \ {r} : Free(x) => Free(x)'
    BY <1>2, <1>3, <1>8, ReserveReservesOne
  <2>2. ASSUME NEW next \in {s, f} PROVE Onward(me, next) /\ Reserves(me, next)
    BY <1>1, <1>4, <1>6, <1>8, <2>1, <2>2 DEF Reserves
  <2>3. Moves(w, s) \/ Moves(w, f)
    BY <1>5, <1>8 DEF Replies
  <2>4. QED
    BY <2>2, <2>3
<1>9. CASE PrepareCreate(me.job, me.token, r) /\ (Replies(w, sealed) \/ Replies(w, refused))
  BY <1>8, <1>9 DEF PrepareCreate, MayPrepare
<1>10. CASE /\ PrepareAppend(me.job, me.token, me.note, me.rev, r)
            /\ Replies(w, sealed) \/ Replies(w, refused)
  BY <1>8, <1>10 DEF PrepareAppend, MayPrepareAppend, MayPrepare
<1>11. CASE PrepareAppendReview(me.job, me.token, me.note, me.rev, r) /\ Replies(w, refused)
  BY <1>8, <1>11 DEF PrepareAppendReview, MayPrepareAppend, MayPrepare
<1>12. QED
  BY <1>1, <1>7, <1>9, <1>10, <1>11 DEF Prepare

LEMMA StepOnward ==
  ASSUME SealInv, WorkerInv, NEW w \in Workers, Step(w) \/ Crash(w), NEW me, me = W(w)
  PROVE  \E next : /\ Moves(w, next) /\ Onward(me, next)
                   /\ NoneReserved \/ Reserves(me, next)
<1>1. Busy(w)
  BY DEF Step, Crash, ListCandidates, Disclose, Prepare, Publish, CommitCommand, Abort,
         ReportFailure, Busy
<1>2. me \in WorkerRow /\ me.job \in Jobs
  BY <1>1, BusyRow DEF WorkerInv
<1>3. PICK f : f = [me EXCEPT !.pc = "fail"]
  OBVIOUS
<1>4. Onward(me, f) /\ Onward(me, Idle)
  BY <1>2, <1>3, GoesOn DEF Pc, Onward, Idle
<1>5. ASSUME NEW good, Onward(me, good), Replies(w, good), NoneReserved
      PROVE  \E next : Moves(w, next) /\ Onward(me, next) /\ NoneReserved
  BY <1>3, <1>4, <1>5 DEF Replies
<1>6. me.pc # "fail" => \A forced \in BOOLEAN : Onward(me, Again(w, forced))
  BY <1>2, AgainOnward
<1>7. ASSUME NEW pc \in {"disclose", "commit"}, NEW next, next = [me EXCEPT !.pc = pc],
             me.pc = "publish" => pc = "commit"
      PROVE  Onward(me, next) \/ me.pc \in {"commit", "fail"}
  BY <1>2, <1>7, GoesOn DEF Pc, Onward
<1>8. CASE ListCandidates(w)
  <2>1. NoneReserved
    BY <1>2, <1>8, OthersReserveNone DEF ListCandidates
  <2>2. PICK next : next = [me EXCEPT !.pc = "disclose"]
    OBVIOUS
  <2>3. Replies(w, next) /\ me.pc = "list"
    BY <1>8, <2>2 DEF ListCandidates
  <2>4. QED
    BY <1>5, <1>7, <2>1, <2>2, <2>3
<1>9. ASSUME HeartbeatConflict(me.job, me.token), NEW forced \in BOOLEAN, Replies(w, Again(w, forced)),
             me.pc # "fail"
      PROVE  \E next : Moves(w, next) /\ Onward(me, next) /\ NoneReserved
  BY <1>2, <1>5, <1>6, <1>9, OthersReserveNone
<1>10. CASE Disclose(w)
  <2>1. CASE HeartbeatAuthorize(me.job, me.token) /\ \E next \in Decisions(w) : Replies(w, next)
    <3>1. PICK next \in Decisions(w) : Replies(w, next)
      BY <2>1
    <3>2. me.pc = "disclose"
      BY <1>10 DEF Disclose
    <3>3. Onward(me, next)
      <4>1. /\ next.job = me.job /\ next.token = me.token /\ next.attempt = me.attempt
            /\ next.gen = me.gen
        BY <1>2, StoreTypes, DecisionValues
      <4>2. QED
        BY <3>2, <4>1 DEF Onward
    <3>4. QED
      BY <1>2, <1>5, <2>1, <3>1, <3>3, OthersReserveNone
  <2>2. QED
    BY <1>9, <1>10, <2>1 DEF Disclose
<1>11. CASE Prepare(w)
  BY <1>11, PrepareOnward
<1>12. CASE Publish(w)
  <2>1. PICK next : next = [me EXCEPT !.pc = "commit"]
    OBVIOUS
  <2>2. me.pc = "publish"
    BY <1>12 DEF Publish
  <2>3. CASE HeartbeatAuthorize(me.job, me.token) /\ Replies(w, next)
    <3>1. NoneReserved
      BY <1>2, <2>3, OthersReserveNone
    <3>2. QED
      BY <1>5, <1>7, <2>1, <2>2, <2>3, <3>1
  <2>4. QED
    BY <1>9, <1>12, <2>1, <2>3 DEF Publish
<1>13. CASE CommitCommand(w)
  <2>1. CommandOutcome(me.plan) \in Outcome
    BY DEF CommandOutcome, Outcome
  <2>2. Commit(me.job, me.token)
    BY <1>13, <2>1 DEF CommitCommand, Commit
  <2>3. NoneReserved
    BY <1>2, <2>2, OthersReserveNone
  <2>4. Moves(w, f) \/ \E good : Onward(me, good) /\ Replies(w, good)
    BY <1>3, <1>4, <1>6, <1>13 DEF CommitCommand
  <2>5. QED
    BY <1>4, <1>5, <2>3, <2>4
<1>14. CASE Abort(w)
  <2>1. NoneReserved
    BY <1>14 DEF Abort, vars, NoneReserved, Free
  <2>2. QED
    BY <1>3, <1>4, <1>14, <2>1 DEF Abort
<1>15. CASE ReportFailure(w)
  <2>1. ASSUME UNCHANGED vars PROVE NoneReserved
    BY <2>1 DEF vars, NoneReserved, Free
  <2>2. NoneReserved
    BY <1>2, <1>15, <2>1, OthersReserveNone DEF ReportFailure
  <2>3. QED
    BY <1>4, <1>15, <2>2 DEF ReportFailure
<1>16. CASE Crash(w)
  <2>1. NoneReserved
    BY <1>16 DEF Crash, vars, NoneReserved, Free
  <2>2. QED
    BY <1>4, <1>16, <2>1 DEF Crash
<1>17. QED
  BY <1>8, <1>10, <1>11, <1>12, <1>13, <1>14, <1>15, <1>16 DEF Step

\* A job whose lives and attempts only go on.
GoesForward(j) ==
  job'[j].retries = 0 => job[j].retries = 0 /\ job[j].attempt <= job'[j].attempt

\* Whoever may work on after the step was working before, and came no further
\* than its move from the one state to the other.
Follows(v) ==
  HoldsLease(v)' => HoldsLease(v) /\ Onward(W(v), worker'[v])

LEMMA FollowsBehind ==
  ASSUME WorkerInv, NEW v \in Workers, Follows(v), HoldsLease(v)', NEW g \in Nat, Behind(v, g)
  PROVE  Behind(v, g)' /\ HoldsLease(v) /\ W(v)'.job = W(v).job /\ W(v)'.attempt = W(v).attempt
<1>1. PICK me, next : me = W(v) /\ next = worker'[v] /\ next = W(v)'
  BY DEF W
<1>2. HoldsLease(v) /\ Onward(me, next) /\ next.pc \notin {"idle", "fail"}
  BY <1>1 DEF Follows, HoldsLease, Working
<1>3. me \in WorkerRow
  BY <1>1, <1>2, BusyRow DEF WorkerInv, HoldsLease, Working, Busy
<1>4. me.gen \in Nat
  BY <1>3 DEF WorkerRow
<1>5. Behind(v, g)'
  BY <1>1, <1>2, <1>4 DEF Behind, Onward
<1>6. QED
  BY <1>1, <1>2, <1>5 DEF Onward

\* What the step reserves of job j is of its attempts so far and behind the
\* worker that has it.
ReservedBehind(j) ==
  \A a \in 1..MaxAttempts, g \in Nat :
    ReservationId(j, a, g) \in ReservationIds
    /\ Free(ReservationId(j, a, g)) /\ ~Free(ReservationId(j, a, g))' =>
      /\ a <= job'[j].attempt
      /\ \A v \in Workers :
           HoldsLease(v)' /\ W(v)'.job = j /\ W(v)'.attempt = a => Behind(v, g)'

LEMMA UnusedFrame ==
  ASSUME WorkerInv, NEW j \in Jobs, Unused(j), GoesForward(j), ReservedBehind(j),
         job[j].attempt \in Nat, job'[j].attempt \in Nat,
         \A v \in Workers : Follows(v) \/ ~HoldsLease(v)' \/ W(v)'.job # j
                           \/ W(v)'.attempt > job[j].attempt
  PROVE  Unused(j)'
<1> SUFFICES ASSUME job'[j].retries = 0, NEW a \in 1..MaxAttempts, NEW g \in Nat,
                    ReservationId(j, a, g) \in ReservationIds, ~Free(ReservationId(j, a, g))'
             PROVE  /\ a <= job'[j].attempt
                    /\ \A v \in Workers :
                         HoldsLease(v)' /\ W(v)'.job = j /\ W(v)'.attempt = a => Behind(v, g)'
  BY DEF Unused, Free, ReservationId
<1>0. CASE Free(ReservationId(j, a, g))
  BY <1>0 DEF ReservedBehind
<1> SUFFICES ASSUME ~Free(ReservationId(j, a, g))
             PROVE  /\ a <= job'[j].attempt
                    /\ \A v \in Workers :
                         HoldsLease(v)' /\ W(v)'.job = j /\ W(v)'.attempt = a => Behind(v, g)'
  BY <1>0
<1>2. job[j].retries = 0 /\ job[j].attempt <= job'[j].attempt
  BY DEF GoesForward
<1>3. /\ a <= job[j].attempt
      /\ \A w \in Workers :
             HoldsLease(w) /\ W(w).job = j /\ W(w).attempt = a => Behind(w, g)
  BY <1>2 DEF Unused, Free
<1>4. a <= job'[j].attempt
  BY <1>2, <1>3
<1>5. ASSUME NEW v \in Workers, HoldsLease(v)', W(v)'.job = j, W(v)'.attempt = a
      PROVE  Behind(v, g)'
  <2>1. Follows(v)
    BY <1>3, <1>5
  <2>2. HoldsLease(v) /\ W(v).job = j /\ W(v).attempt = a
    BY <1>5, <2>1 DEF Follows, Onward, W, HoldsLease, Working
  <2>3. QED
    BY <1>3, <1>5, <2>1, <2>2, FollowsBehind
<1>6. QED
  BY <1>4, <1>5

LEMMA NoneReservedBehind ==
  ASSUME NoneReserved, NEW j
  PROVE  ReservedBehind(j)
  BY DEF NoneReserved, ReservedBehind

LEMMA ReservesBehind ==
  ASSUME WorkerInv, NEW w \in Workers, Busy(w), NEW me, me = W(w), NEW next, Moves(w, next),
         Reserves(me, next), Onward(me, next), NEW j \in Jobs,
         job[j].attempt \in Nat, job'[j].attempt \in Nat, job[j].attempt <= job'[j].attempt,
         \A v \in Workers : Follows(v)
  PROVE  ReservedBehind(j)
<1> SUFFICES ASSUME NEW a \in 1..MaxAttempts, NEW g \in Nat,
                    ReservationId(j, a, g) \in ReservationIds,
                    Free(ReservationId(j, a, g)), ~Free(ReservationId(j, a, g))'
             PROVE  /\ a <= job'[j].attempt
                    /\ \A v \in Workers :
                         HoldsLease(v)' /\ W(v)'.job = j /\ W(v)'.attempt = a => Behind(v, g)'
  BY DEF ReservedBehind
<1>1. me \in WorkerRow
  BY BusyRow DEF WorkerInv
<1>2. ReservationId(j, a, g) = ReservationId(me.job, me.attempt, me.gen)
  BY DEF Reserves
<1>3. j = me.job /\ a = me.attempt /\ g = me.gen
  BY <1>2 DEF ReservationId
<1>4. a = job[j].attempt
  BY <1>3 DEF Reserves, WorkerInv, Knows
<1>5. ASSUME NEW v \in Workers, HoldsLease(v)', W(v)'.job = j, W(v)'.attempt = a
      PROVE  Behind(v, g)'
  <2>1. HoldsLease(v) /\ W(v).job = j
    BY <1>5 DEF Follows, Onward, W, HoldsLease, Working
  <2>2. v = w
    BY <1>3, <2>1 DEF Reserves, WorkerInv, Apart, HoldsLease, Working, Busy, LeaseHeld
  <2>3. W(v)' = next /\ next.pc \notin {"idle", "fail"}
    BY <1>5, <2>2, Moved DEF HoldsLease, Working
  <2>4. next.pc = "publish" /\ (next.gen = me.gen + 1 \/ next.gen = me.gen) /\ me.gen \in Nat
    BY <1>1, <2>3 DEF Reserves, Onward, WorkerRow
  <2>5. QED
    BY <1>3, <2>3, <2>4 DEF Behind
<1>6. QED
  BY <1>4, <1>5

\* A worker that does not move, and whose lease is not disturbed.
LEMMA StillFollows ==
  ASSUME WorkerInv, NEW v \in Workers, W(v)' = W(v), NEW i, NEW s,
         i = W(v).job, s = W(v).token, Busy(v) => Undisturbed(i, s)
  PROVE  Follows(v)
<1>1. PICK me : me = W(v) /\ me = worker'[v] /\ me = W(v)'
  BY DEF W
<1> SUFFICES ASSUME HoldsLease(v)' PROVE HoldsLease(v) /\ Onward(W(v), worker'[v])
  BY DEF Follows
<1>2. me.pc \notin {"idle", "fail"} /\ LeaseHeld(i, s)'
  BY <1>1 DEF HoldsLease, Working, LeaseHeld, Leased
<1>3. LeaseHeld(i, s)
  BY <1>1, <1>2 DEF Undisturbed, Busy
<1>4. QED
  BY <1>1, <1>2, <1>3 DEF HoldsLease, Working, Onward

LEMMA UnusedEnvironment ==
  ASSUME SealInv, SealInv', WorkerInv, UNCHANGED worker, NEW j \in Jobs, Unused(j),
         Owner \/ (\E i \in Jobs : Expire(i) \/ Recover(i)) \/ UNCHANGED vars
  PROVE  Unused(j)'
<1>1. ASSUME NEW i \in Jobs, NEW s
      PROVE  Undisturbed(i, s) /\ (job'[i].retries = 0 => Counts(i))
  <2>1. CASE Owner
    BY <2>1, OwnerQuiet
  <2>2. CASE \E k \in Jobs : Expire(k) \/ Recover(k)
    BY <2>2, SweepQuiet
  <2>3. CASE UNCHANGED vars
    BY <2>3 DEF vars, Undisturbed, LeaseHeld, Leased, Counts
  <2>4. QED
    BY <2>1, <2>2, <2>3
<1>2. NoneReserved
  <2>1. CASE UNCHANGED vars
    BY <2>1 DEF vars, NoneReserved, Free
  <2>2. QED
    BY <2>1, OwnerReservesNone, OthersReserveNone
<1>3. ASSUME NEW v \in Workers PROVE Follows(v)
  <2>1. PICK i, s : i = W(v).job /\ s = W(v).token
    OBVIOUS
  <2>2. Busy(v) => Undisturbed(i, s)
    BY <1>1, <2>1, BusyRow DEF WorkerInv
  <2>3. QED
    BY <2>1, <2>2, StillFollows DEF W
<1>4. job[j].attempt \in Nat
  BY StoreTypes DEF JobRow
<1>5. GoesForward(j)
  BY <1>1, <1>4 DEF GoesForward, Counts
<1>6. CASE job'[j].retries = 0
  <2>1. job'[j].attempt \in Nat
    BY <1>1, <1>4, <1>6 DEF Counts
  <2>2. QED
    BY <1>2, <1>3, <1>4, <1>5, <2>1, NoneReservedBehind, UnusedFrame
<1>7. QED
  BY <1>6 DEF Unused

LEMMA UnusedBegin ==
  ASSUME SealInv, SealInv', WorkerInv, NEW w \in Workers, NEW k \in Jobs, Begin(w, k),
         NEW j \in Jobs, Unused(j)
  PROVE  Unused(j)'
<1>1. Claim(k)
  BY DEF Begin
<1>2. NoneReserved
  BY <1>1, OthersReserveNone
<1>3. \A i \in Jobs : \A s \in 1..job[i].issued : Undisturbed(i, s)
  BY <1>1, ClaimQuiet
<1>4. /\ Only(k) /\ job'[k].attempt = job[k].attempt + 1 /\ job'[k].retries = job[k].retries
  <2>1. job'[k] = Started(k) /\ Only(k)
    BY <1>1, StoreTypes, Zenon DEF Claim, Only
  <2>2. Started(k).retries = job[k].retries
    BY StoreTypes, Zenon DEF Started, JobRow
  <2>3. QED
    BY <2>1, <2>2, StoreTypes, StartedValues
<1>5. job[j].attempt \in Nat /\ job[k].attempt \in Nat
  BY StoreTypes DEF JobRow
<1>6. job'[j].attempt \in Nat /\ GoesForward(j)
  BY <1>4, <1>5 DEF GoesForward, Only
<1>7. PICK next : Moves(w, next) /\
        (next = Idle \/ (next.job = k /\ next.attempt = job'[k].attempt))
  <2>1. CASE Moves(w, Idle)
    BY <2>1
  <2>2. ASSUME NEW pending \in BOOLEAN, NEW next,
               next = [pc |-> "list", job |-> k, token |-> job'[k].token,
                       attempt |-> job'[k].attempt, replan |-> job[k].replan,
                       limit |-> IF job[k].replan = 0 THEN 2 ELSE 1,
                       gen |-> 0, calls |-> 0, pending |-> pending,
                       plan |-> "none", note |-> NoNote, rev |-> 0]
        PROVE  next.job = k /\ next.attempt = job'[k].attempt
    BY <2>2
  <2>3. QED
    BY <2>1, <2>2 DEF Begin
<1>8. W(w)' = next /\ \A v \in Workers \ {w} : W(v)' = W(v)
  BY <1>7, Moved
<1>9. ASSUME NEW v \in Workers \ {w} PROVE Follows(v)
  <2>1. PICK i, s : i = W(v).job /\ s = W(v).token
    OBVIOUS
  <2>2. Busy(v) => Undisturbed(i, s)
    BY <1>3, <2>1, BusyRow DEF WorkerInv
  <2>3. QED
    BY <1>8, <2>1, <2>2, StillFollows
<1>10. ~HoldsLease(w)' \/ W(w)'.job # j \/ W(w)'.attempt > job[j].attempt
  <2>1. CASE next = Idle
    BY <1>8, <2>1 DEF HoldsLease, Working, Idle
  <2>2. CASE next.job = k /\ next.attempt = job'[k].attempt
    BY <1>4, <1>5, <1>8, <2>2
  <2>3. QED
    BY <1>7, <2>1, <2>2
<1>11. QED
  BY <1>2, <1>5, <1>6, <1>9, <1>10, NoneReservedBehind, UnusedFrame

LEMMA UnusedWorker ==
  ASSUME SealInv, SealInv', WorkerInv, NEW w \in Workers, Step(w) \/ Crash(w),
         NEW j \in Jobs, Unused(j)
  PROVE  Unused(j)'
<1>1. PICK me, next : /\ me = W(w) /\ Moves(w, next) /\ Onward(me, next)
                      /\ NoneReserved \/ Reserves(me, next)
  <2>1. PICK me : me = W(w)
    OBVIOUS
  <2>2. QED
    BY <2>1, StepOnward
<1>2. Busy(w)
  BY DEF Step, Crash, ListCandidates, Disclose, Prepare, Publish, CommitCommand, Abort,
         ReportFailure, Busy
<1>3. PICK i, t : i = me.job /\ t = me.token
  OBVIOUS
<1>4. i \in Jobs /\ t \in Nat
  BY <1>1, <1>2, <1>3, BusyRow DEF WorkerInv, WorkerRow
<1>5. Call(i, t) \/ UNCHANGED vars
  BY <1>1, <1>3, StepCalls DEF WorkerInv
<1>6. Counts(j)
  BY <1>4, <1>5, CallOwn, CallQuiet DEF vars, Counts
<1>7. LeaseHeld(i, t)' => LeaseHeld(i, t)
  BY <1>4, <1>5, CallOwn DEF vars, LeaseHeld, Leased
<1>8. W(w)' = next /\ \A v \in Workers \ {w} : W(v)' = W(v)
  BY <1>1, Moved
<1>9. ASSUME NEW v \in Workers \ {w} PROVE Follows(v)
  <2>1. PICK x, s : x = W(v).job /\ s = W(v).token
    OBVIOUS
  <2>2. ASSUME Busy(v) PROVE Undisturbed(x, s)
    <3>1. x # i \/ s # t
      BY <1>1, <1>2, <1>3, <2>1, <2>2 DEF WorkerInv, Apart
    <3>2. x \in Jobs
      BY <2>1, <2>2, BusyRow DEF WorkerInv
    <3>3. QED
      BY <1>4, <1>5, <3>1, <3>2, CallQuiet
  <2>3. QED
    BY <1>8, <2>1, <2>2, StillFollows
<1>10. Follows(w)
  <2>1. next = worker'[w]
    BY <1>8 DEF W
  <2> SUFFICES ASSUME HoldsLease(w)' PROVE HoldsLease(w) /\ Onward(W(w), worker'[w])
    BY DEF Follows
  <2>2. next.pc \notin {"idle", "fail"} /\ LeaseHeld(next.job, next.token)'
    BY <1>8 DEF HoldsLease, Working, LeaseHeld, Leased
  <2>3. me.pc # "fail" /\ next.job = i /\ next.token = t
    BY <1>1, <1>3, <2>2 DEF Onward
  <2>4. LeaseHeld(i, t)
    BY <1>7, <2>2, <2>3
  <2>5. QED
    BY <1>1, <1>2, <1>3, <2>1, <2>3, <2>4 DEF HoldsLease, Working, Busy
<1>11. job[j].attempt \in Nat
  BY StoreTypes DEF JobRow
<1>12. job'[j].attempt = job[j].attempt /\ GoesForward(j)
  BY <1>6, <1>11 DEF Counts, GoesForward
<1>13. ReservedBehind(j)
  BY <1>1, <1>2, <1>9, <1>10, <1>11, <1>12, NoneReservedBehind, ReservesBehind
<1>14. QED
  BY <1>9, <1>10, <1>11, <1>12, <1>13, UnusedFrame

\* Every life of a job that its owner does not retry by hand reserves under
\* ids of its own: attempt and write generation name them.
LEMMA UnusedInvariant == DrainSpec => [](DrainInv /\ UnusedInv)
<1>1. DrainInit => UnusedInv
  <2> SUFFICES ASSUME DrainInit PROVE \A r \in ReservationIds : reservation[r] = "free"
    BY DEF UnusedInv, Unused, ReservationId
  <2>1. QED
    BY DEF DrainInit, Init
<1>2. DrainInv /\ UnusedInv /\ [DrainNext]_drainVars /\ DrainInv' => UnusedInv'
  <2> SUFFICES ASSUME DrainInv, UnusedInv, [DrainNext]_drainVars, DrainInv', NEW j \in Jobs
               PROVE  Unused(j)'
    BY DEF UnusedInv
  <2>1. SealInv /\ SealInv' /\ WorkerInv /\ Unused(j)
    BY DEF DrainInv, UnusedInv
  <2>2. CASE \/ Owner /\ UNCHANGED worker
             \/ \E i \in Jobs : ExpireLease(i) \/ RecoverStale(i)
             \/ UNCHANGED drainVars
    <3>1. UNCHANGED worker
      BY <2>2 DEF ExpireLease, RecoverStale, drainVars
    <3>2. Owner \/ (\E i \in Jobs : Expire(i) \/ Recover(i)) \/ UNCHANGED vars
      BY <2>2 DEF ExpireLease, RecoverStale, drainVars
    <3>3. QED
      BY <2>1, <3>1, <3>2, UnusedEnvironment
  <2>3. ASSUME NEW w \in Workers, (\E k \in Jobs : Begin(w, k)) \/ Step(w) \/ Crash(w)
        PROVE  Unused(j)'
    BY <2>1, <2>3, UnusedBegin, UnusedWorker
  <2>4. QED
    BY <2>2, <2>3 DEF DrainNext
<1>3. QED
  BY <1>1, <1>2, DrainInvariant, PTL DEF DrainSpec

\* FreshReservation for the jobs that were never retried by hand.
FreshInLife ==
  \A w \in Workers :
    LET r == ReservationId(W(w).job, W(w).attempt, W(w).gen)
    IN  HoldsLease(w) /\ W(w).pc = "prepare" /\ r \in ReservationIds
        /\ job[W(w).job].retries = 0 => reservation[r] = "free"

\* A worker never asks for a reservation that was made before, through every
\* replan, refreshed Review, lost reply, expired lease and later attempt, until
\* the owner retries the capture by hand (which starts the attempts again).
THEOREM FreshWithinLife == DrainSpec => []FreshInLife
<1>1. DrainInv /\ UnusedInv => FreshInLife
  <2> SUFFICES ASSUME DrainInv, UnusedInv, NEW w \in Workers, NEW me, me = W(w),
                      HoldsLease(w), me.pc = "prepare", job[me.job].retries = 0,
                      ReservationId(me.job, me.attempt, me.gen) \in ReservationIds,
                      reservation[ReservationId(me.job, me.attempt, me.gen)] # "free"
               PROVE  FALSE
    BY DEF FreshInLife
  <2>1. me \in WorkerRow /\ me.job \in Jobs
    BY BusyRow DEF DrainInv, WorkerInv, Busy
  <2>2. me.attempt \in 1..MaxAttempts /\ me.gen \in Nat
    BY <2>1 DEF WorkerRow
  <2>3. Behind(w, me.gen)
    BY <2>1, <2>2 DEF UnusedInv, Unused
  <2>4. QED
    BY <2>2, <2>3 DEF Behind
<1>2. QED
  BY <1>1, UnusedInvariant, PTL

\* The owner retries at most MaxRetries times.
RetriesBounded == \A j \in Jobs : job[j].retries <= MaxRetries
LEMMA RetriesStep ==
  ASSUME DrainInv, RetriesBounded, [DrainNext]_drainVars
  PROVE  RetriesBounded'
<1> SUFFICES ASSUME NEW j \in Jobs PROVE job'[j].retries <= MaxRetries
  BY DEF RetriesBounded
<1>0. SealInv /\ WorkerInv /\ job[j].retries <= MaxRetries
  BY DEF DrainInv, RetriesBounded
<1>1. CASE Counts(j)
  BY <1>0, <1>1 DEF Counts
<1>2. CASE Owner
  BY <1>0, <1>1, <1>2, OwnerQuiet, BoundAssumption
<1>3. ASSUME NEW i \in Jobs, Expire(i) \/ Recover(i) PROVE Counts(j)
  BY <1>0, <1>3, SweepQuiet
<1>4. ASSUME UNCHANGED job PROVE Counts(j)
  BY <1>4 DEF Counts
<1>5. ASSUME NEW k \in Jobs, Claim(k) PROVE job'[j].retries = job[j].retries
  <2>1. job'[k] = Started(k) /\ Only(k)
    BY <1>0, <1>5, StoreTypes, Zenon DEF Claim, Only
  <2>2. Started(k).retries = job[k].retries
    BY <1>0, StoreTypes, Zenon DEF Started, JobRow
  <2>3. QED
    BY <2>1, <2>2 DEF Only
<1>6. ASSUME NEW w \in Workers, Step(w) \/ Crash(w) PROVE Counts(j)
  <2>1. PICK i, t : i = W(w).job /\ t = W(w).token
    OBVIOUS
  <2>2. Call(i, t) \/ UNCHANGED vars
    BY <1>0, <1>6, <2>1, StepCalls DEF WorkerInv
  <2>3. Busy(w)
    BY <1>6 DEF Step, Crash, ListCandidates, Disclose, Prepare, Publish, CommitCommand, Abort,
                ReportFailure, Busy
  <2>4. i \in Jobs /\ t \in Nat
    BY <1>0, <2>1, <2>3, BusyRow DEF WorkerInv, WorkerRow
  <2>5. CASE Call(i, t)
    BY <1>0, <2>4, <2>5, CallOwn DEF Only, Counts
  <2>6. QED
    BY <1>4, <2>2, <2>5 DEF vars
<1>7. CASE UNCHANGED drainVars
  BY <1>1, <1>4, <1>7 DEF drainVars, vars
<1>8. QED
  BY <1>0, <1>1, <1>2, <1>3, <1>5, <1>6, <1>7
  DEF DrainNext, ExpireLease, RecoverStale, Begin

\* Where the owner does not retry by hand, no reservation id is asked for twice.
THEOREM FreshWithoutRetries ==
  ASSUME MaxRetries = 0
  PROVE  DrainSpec => []FreshReservation
<1>1. DrainInit => RetriesBounded
  BY BoundAssumption DEF DrainInit, Init, RetriesBounded
<1>2. DrainInv /\ RetriesBounded /\ [DrainNext]_drainVars => RetriesBounded'
  BY RetriesStep
<1>3. DrainInv /\ RetriesBounded /\ FreshInLife => FreshReservation
  <2> SUFFICES ASSUME DrainInv, RetriesBounded, FreshInLife, NEW w \in Workers, HoldsLease(w)
               PROVE  job[W(w).job].retries = 0
    BY DEF FreshInLife, FreshReservation
  <2>1. W(w).job \in Jobs
    BY BusyRow DEF DrainInv, WorkerInv, HoldsLease, Working, Busy
  <2>2. job[W(w).job].retries \in Nat
    BY <2>1, StoreTypes DEF DrainInv, JobRow
  <2>3. QED
    BY <2>1, <2>2 DEF RetriesBounded
<1>4. QED
  BY <1>1, <1>2, <1>3, DrainInvariant, FreshWithinLife, PTL DEF DrainSpec
=============================================================================
