------------------------- MODULE OrganizerJob_proofs -------------------------
(***************************************************************************)
(* Theorems about the organizer's store, for every set of jobs, notes and  *)
(* reservations and every bound.                                           *)
(*                                                                         *)
(* Type correctness comes first.  The inductive invariant of the safety    *)
(* theorems has four layers, each proved from those before it: the life of *)
(* a job and its capture, the lease and its preparation, the reservations  *)
(* and controls a preparation is sealed under, and where captures are      *)
(* filed.                                                                  *)
(*                                                                         *)
(* The steps come last: what a step may never do (give a reservation back; *)
(* publish without a live lease, an authorized page and a target that is   *)
(* open or new), and what every step does to the work of a capture: the    *)
(* store implements LeasedWork.                                            *)
(***************************************************************************)
EXTENDS OrganizerJobRefinement, TLAPS

-----------------------------------------------------------------------------
(* Type correctness.  A preparation names a note: without it the revision  *)
(* a conflict copies from its note would have no type.                     *)

PrepNamed == \A j \in Jobs : HasPrep(j) => prep[j].note \in Notes
TypeInv == TypeOK /\ PrepNamed

Use == {"free", "held", "spent"}

LEMMA NullRows ==
  NoControl \in Controls /\ NoPage \in PageRow /\ NoRequest \in Request /\ NoPrep \in PrepRow
<1>1. NoControl \in Controls
  BY SMT DEF NoControl, Controls
<1>2. NoRequest \in Request
  BY SMT DEF NoRequest, Request
<1>3. NoPage \in PageRow
  BY <1>1, SMT DEF NoPage, PageRow, Manifest
<1>4. NoPrep \in PrepRow
  BY <1>1, <1>2, SMT DEF NoPrep, PrepRow
<1>5. QED
  BY <1>1, <1>2, <1>3, <1>4

\* The row a lease leaves behind, and the preparation it releases.
LEMMA EndedRow ==
  ASSUME NEW j \in Jobs, NEW s \in JobState, job \in [Jobs -> JobRow]
  PROVE  Ended(j, s) \in JobRow
<1>1. job[j] \in JobRow
  OBVIOUS
<1>2. QED
  BY <1>1, Zenon DEF Ended, JobRow

LEMMA StartedRow ==
  ASSUME NEW j \in Jobs, job \in [Jobs -> JobRow], job[j].attempt < MaxAttempts
  PROVE  Started(j) \in JobRow
<1> DEFINE a == job[j].attempt + 1
           i == job[j].issued + 1
<1>1. job[j] \in JobRow
  OBVIOUS
<1>2. a \in 0..MaxAttempts /\ i \in Nat
  BY <1>1, BoundAssumption, SMT DEF JobRow
<1>3. "running" \in JobState
  BY DEF JobState
<1>4. Started(j) = [job[j] EXCEPT !.state = "running", !.attempt = a, !.lease = "live",
                                  !.issued = i, !.token = i]
  BY Zenon DEF Started
<1> HIDE DEF a, i
<1>5. QED
  BY <1>1, <1>2, <1>3, <1>4, Zenon DEF JobRow

LEMMA ClearedRow ==
  ASSUME NEW j \in Jobs, prep \in [Jobs -> PrepRow]
  PROVE  /\ Cleared(j) \in PrepRow
         /\ Cleared(j).mode = prep[j].mode /\ Cleared(j).note = prep[j].note
<1>1. prep[j] \in PrepRow
  OBVIOUS
<1>2. [prep[j] EXCEPT !.res = NoReservation, !.control = NoControl] \in PrepRow
  BY <1>1, NullRows, Zenon DEF PrepRow
<1>3. QED
  BY <1>1, <1>2, SMT DEF Cleared, PrepRow

LEMMA ReboundRow ==
  ASSUME NEW j \in Jobs, prep \in [Jobs -> PrepRow], job \in [Jobs -> JobRow]
  PROVE  /\ Rebound(j) \in PrepRow
         /\ Rebound(j).mode = prep[j].mode /\ Rebound(j).note = prep[j].note
<1> DEFINE i == job[j].issued + 1
           row == [prep[j] EXCEPT !.token = i, !.gen = job[j].replan, !.replanned = NoRequest]
<1>1. prep[j] \in PrepRow /\ job[j] \in JobRow
  OBVIOUS
<1>2. i \in Nat /\ job[j].replan \in 0..1
  BY <1>1, SMT DEF JobRow
<1>3. Rebound(j) = IF OpenPrep(j) THEN row ELSE prep[j]
  BY DEF Rebound
<1>4. row \in PrepRow /\ row.mode = prep[j].mode /\ row.note = prep[j].note
  <2> HIDE DEF i
  <2> QED
    BY <1>1, <1>2, NullRows, Zenon DEF PrepRow
<1>5. QED
  BY <1>1, <1>3, <1>4

LEMMA BurnedType ==
  ASSUME NEW j \in Jobs, reservation \in [ReservationIds -> Use]
  PROVE  Burned(j) \in [ReservationIds -> Use]
<1>1. \A r \in ReservationIds : Burned(j)[r] \in Use
  BY SMT DEF Burned, Use
<1>2. QED
  BY <1>1, Zenon DEF Burned

-----------------------------------------------------------------------------
(* The effects the actions share.                                          *)

LEMMA RequeueType ==
  ASSUME TypeInv, NEW j \in Jobs, Requeue(j)
  PROVE  job' \in [Jobs -> JobRow] /\ capture' \in [Jobs -> CaptureStatus]
<1>1. Ended(j, "awaiting_retry") \in JobRow
  BY EndedRow DEF TypeInv, TypeOK, JobState
<1>2. "queued" \in CaptureStatus
  BY DEF CaptureStatus
<1>3. QED
  BY <1>1, <1>2, Zenon DEF Requeue, TypeInv, TypeOK

LEMMA GiveUpType ==
  ASSUME TypeInv, NEW j \in Jobs, NEW s \in JobState, NEW c \in CaptureStatus, GiveUp(j, s, c)
  PROVE  job' \in [Jobs -> JobRow] /\ capture' \in [Jobs -> CaptureStatus]
<1>1. Ended(j, s) \in JobRow
  BY EndedRow DEF TypeInv, TypeOK
<1>2. QED
  BY <1>1, Zenon DEF GiveUp, TypeInv, TypeOK

\* A preparation row keeps the named note wherever mode and note are kept.
LEMMA PrepUpdate ==
  ASSUME TypeInv, NEW j \in Jobs, NEW p \in PrepRow,
         p.mode # "none" => p.note \in Notes,
         prep' = [prep EXCEPT ![j] = p]
  PROVE  prep' \in [Jobs -> PrepRow] /\ PrepNamed'
<1>1. prep' \in [Jobs -> PrepRow]
  BY Zenon DEF TypeInv, TypeOK
<1>2. ASSUME NEW i \in Jobs, HasPrep(i)'
      PROVE  prep'[i].note \in Notes
  <2>1. CASE i = j
    BY <1>2, <2>1, SMT DEF HasPrep, TypeInv, TypeOK
  <2>2. CASE i # j
    BY <1>2, <2>2, SMT DEF HasPrep, TypeInv, TypeOK, PrepNamed
  <2>3. QED
    BY <2>1, <2>2
<1>3. QED
  BY <1>1, <1>2 DEF PrepNamed

LEMMA ClearedUpdate ==
  ASSUME TypeInv, NEW j \in Jobs, prep' = [prep EXCEPT ![j] = Cleared(j)]
  PROVE  prep' \in [Jobs -> PrepRow] /\ PrepNamed'
<1>1. Cleared(j) \in PrepRow /\ (Cleared(j).mode # "none" => Cleared(j).note \in Notes)
  BY ClearedRow DEF TypeInv, TypeOK, PrepNamed, HasPrep
<1>2. QED
  BY <1>1, PrepUpdate

LEMMA ReleaseType ==
  ASSUME TypeInv, NEW j \in Jobs, ReleasePreparation(j)
  PROVE  reservation' \in [ReservationIds -> Use] /\ prep' \in [Jobs -> PrepRow] /\ PrepNamed'
<1>1. reservation' \in [ReservationIds -> Use]
  BY BurnedType DEF TypeInv, TypeOK, ReleasePreparation, Use
<1>2. QED
  BY <1>1, ClearedUpdate DEF ReleasePreparation

LEMMA VoidType ==
  ASSUME TypeInv, NEW j \in Jobs, NEW v \in Nat, NEW q \in Request,
         VoidPreparation(j, v, q)
  PROVE  reservation' \in [ReservationIds -> Use] /\ prep' \in [Jobs -> PrepRow] /\ PrepNamed'
<1> DEFINE p == IF OpenPrep(j) THEN [Cleared(j) EXCEPT !.gen = 1, !.rev = v, !.replanned = q] ELSE prep[j]
<1>1. reservation' \in [ReservationIds -> Use]
  BY BurnedType DEF TypeInv, TypeOK, VoidPreparation, Use
<1>2. /\ [Cleared(j) EXCEPT !.gen = 1, !.rev = v, !.replanned = q] \in PrepRow
      /\ [Cleared(j) EXCEPT !.gen = 1, !.rev = v, !.replanned = q].mode = prep[j].mode
      /\ [Cleared(j) EXCEPT !.gen = 1, !.rev = v, !.replanned = q].note = prep[j].note
  <2>1. 1 \in 0..1
    BY SMT
  <2>2. QED
    BY <2>1, ClearedRow, Zenon DEF TypeInv, TypeOK, PrepRow
<1>3. p \in PrepRow /\ p.mode = prep[j].mode /\ p.note = prep[j].note
  BY <1>2 DEF TypeInv, TypeOK
<1>4. p.mode # "none" => p.note \in Notes
  BY <1>3 DEF TypeInv, PrepNamed, HasPrep
<1>5. prep' = [prep EXCEPT ![j] = p]
  BY DEF VoidPreparation
<1> HIDE DEF p
<1>6. QED
  BY <1>1, <1>3, <1>4, <1>5, PrepUpdate

LEMMA SpendReplanType ==
  ASSUME TypeInv, NEW j \in Jobs, SpendReplan(j)
  PROVE  job' \in [Jobs -> JobRow]
<1>1. job[j] \in JobRow /\ 1 \in 0..1
  BY SMT DEF TypeInv, TypeOK
<1>2. [job[j] EXCEPT !.replan = 1] \in JobRow
  BY <1>1, Zenon DEF JobRow
<1>3. QED
  BY <1>2, Zenon DEF SpendReplan, TypeInv, TypeOK

LEMMA ReserveType ==
  ASSUME TypeInv, NEW j \in Jobs, NEW t \in Nat, NEW m \in {"create", "append"},
         NEW n \in Notes, NEW v \in Nat, NEW r \in ReservationIds, NEW q \in Request,
         Reserve(j, t, m, n, v, r, q)
  PROVE  reservation' \in [ReservationIds -> Use] /\ prep' \in [Jobs -> PrepRow] /\ PrepNamed'
<1> DEFINE p == [mode |-> m, token |-> t, gen |-> job[j].replan, note |-> n, rev |-> v,
                 res |-> r, control |-> page[j].control, replanned |-> q, status |-> "open"]
<1>1. Burned(j) \in [ReservationIds -> Use]
  BY BurnedType DEF TypeInv, TypeOK, Use
<1>2. reservation' \in [ReservationIds -> Use]
  BY <1>1, SMT DEF Reserve, Use
<1>3. job[j].replan \in 0..1 /\ page[j].control \in Controls
  BY SMT DEF TypeInv, TypeOK, JobRow, PageRow
<1>4. p \in PrepRow /\ p.note \in Notes
  BY <1>3, SMT DEF PrepRow
<1>5. prep' = [prep EXCEPT ![j] = p]
  BY DEF Reserve
<1> HIDE DEF p
<1>6. QED
  BY <1>2, <1>4, <1>5, PrepUpdate

-----------------------------------------------------------------------------
(* Every action preserves the types.                                       *)

LEMMA CaptureType ==
  ASSUME TypeInv, NEW j \in Jobs, NEW c \in Controls, Capture(j, c)
  PROVE  TypeInv'
<1>1. [job[j] EXCEPT !.state = "created"] \in JobRow
  BY SMT DEF TypeInv, TypeOK, JobRow, JobState
<1>2. job' \in [Jobs -> JobRow]
  BY <1>1, Zenon DEF Capture, TypeInv, TypeOK
<1>3. capture' \in [Jobs -> CaptureStatus] /\ control' \in [Jobs -> Controls]
  BY SMT DEF Capture, TypeInv, TypeOK, CaptureStatus
<1>4. QED
  BY <1>2, <1>3 DEF Capture, TypeInv, TypeOK, PrepNamed, HasPrep

LEMMA ClaimType ==
  ASSUME TypeInv, NEW j \in Jobs, Claim(j)
  PROVE  TypeInv'
<1>1. Started(j) \in JobRow
  BY StartedRow DEF Claim, TypeInv, TypeOK
<1>2. job' \in [Jobs -> JobRow]
  BY <1>1, Zenon DEF Claim, TypeInv, TypeOK
<1>3. Rebound(j) \in PrepRow /\ (Rebound(j).mode # "none" => Rebound(j).note \in Notes)
  BY ReboundRow DEF TypeInv, TypeOK, PrepNamed, HasPrep
<1>4. prep' \in [Jobs -> PrepRow] /\ PrepNamed'
  BY <1>3, PrepUpdate DEF Claim
<1>5. capture' \in [Jobs -> CaptureStatus]
  BY SMT DEF Claim, TypeInv, TypeOK, CaptureStatus
<1>6. page' \in [Jobs -> PageRow]
  BY NullRows, Zenon DEF Claim, TypeInv, TypeOK
<1>7. QED
  BY <1>2, <1>4, <1>5, <1>6 DEF Claim, TypeInv, TypeOK

LEMMA ExpireType ==
  ASSUME TypeInv, NEW j \in Jobs, Expire(j)
  PROVE  TypeInv'
<1>1. [job[j] EXCEPT !.lease = "expired"] \in JobRow
  BY SMT DEF TypeInv, TypeOK, JobRow
<1>2. job' \in [Jobs -> JobRow]
  BY <1>1, Zenon DEF Expire, TypeInv, TypeOK
<1>3. QED
  BY <1>2 DEF Expire, TypeInv, TypeOK, PrepNamed, HasPrep

LEMMA RecoverType ==
  ASSUME TypeInv, NEW j \in Jobs, Recover(j)
  PROVE  TypeInv'
<1>1. job' \in [Jobs -> JobRow] /\ capture' \in [Jobs -> CaptureStatus]
  <2>1. "dead_letter" \in JobState /\ "failed" \in CaptureStatus
    BY DEF JobState, CaptureStatus
  <2>2. QED
    BY <2>1, RequeueType, GiveUpType DEF Recover
<1>2. reservation' \in [ReservationIds -> Use] /\ prep' \in [Jobs -> PrepRow] /\ PrepNamed'
  BY ReleaseType DEF Recover
<1>3. QED
  BY <1>1, <1>2 DEF Recover, TypeInv, TypeOK, Use

LEMMA FailType ==
  ASSUME TypeInv, NEW j \in Jobs, NEW t, NEW kind, Fail(j, t, kind)
  PROVE  TypeInv'
<1>1. job' \in [Jobs -> JobRow] /\ capture' \in [Jobs -> CaptureStatus]
  <2>1. {"dead_letter", "failed"} \subseteq JobState /\ {"failed", "inbox"} \subseteq CaptureStatus
    BY DEF JobState, CaptureStatus
  <2>2. \/ Requeue(j)
        \/ \E s \in JobState, c \in CaptureStatus : GiveUp(j, s, c)
    BY <2>1 DEF Fail
  <2>3. QED
    BY <2>2, RequeueType, GiveUpType
<1>2. reservation' \in [ReservationIds -> Use] /\ prep' \in [Jobs -> PrepRow] /\ PrepNamed'
  BY ReleaseType DEF Fail
<1>3. QED
  BY <1>1, <1>2 DEF Fail, TypeInv, TypeOK, Use

LEMMA ListType ==
  ASSUME TypeInv, NEW j \in Jobs, NEW t \in Nat, NEW S \in Listable(j), List(j, t, S)
  PROVE  TypeInv'
<1> DEFINE manifest == [n \in Notes |-> IF n \in S THEN [is |-> note[n].status, rev |-> note[n].rev]
                                        ELSE [is |-> "unlisted", rev |-> 0]]
           row == [token |-> t, control |-> control[j], verdict |-> "none", cand |-> manifest]
<1>1. \A n \in S : n \in Notes /\ note[n].status \in {"open", "closed"}
  BY Zenon DEF Listable, Eligible
<1>2. manifest \in Manifest
  BY <1>1, SMT DEF Manifest, TypeInv, TypeOK, NoteRow
<1>3. row \in PageRow
  <2> HIDE DEF manifest
  <2> QED
    BY <1>2, SMT DEF PageRow, TypeInv, TypeOK
<1>4. page' = [page EXCEPT ![j] = row]
  BY DEF List
<1> HIDE DEF row
<1>5. page' \in [Jobs -> PageRow]
  BY <1>3, <1>4, Zenon DEF TypeInv, TypeOK
<1>6. QED
  BY <1>5 DEF List, TypeInv, TypeOK, PrepNamed, HasPrep

LEMMA RecordConflictType ==
  ASSUME TypeInv, NEW j \in Jobs, RecordConflict(j)
  PROVE  /\ job' \in [Jobs -> JobRow] /\ page' \in [Jobs -> PageRow]
         /\ reservation' \in [ReservationIds -> Use] /\ prep' \in [Jobs -> PrepRow] /\ PrepNamed'
<1> DEFINE verdict == IF job[j].replan = 0 THEN "replan" ELSE "review"
<1>1. job' \in [Jobs -> JobRow]
  BY SpendReplanType DEF RecordConflict
<1>2. [page[j] EXCEPT !.verdict = verdict] \in PageRow
  <2>1. page[j] \in PageRow /\ verdict \in {"none", "authorized", "replan", "review"}
    BY DEF TypeInv, TypeOK
  <2> HIDE DEF verdict
  <2>2. QED
    BY <2>1, Zenon DEF PageRow
<1>3. page' = [page EXCEPT ![j].verdict = verdict]
  BY DEF RecordConflict
<1>4. page' \in [Jobs -> PageRow]
  <2> HIDE DEF verdict
  <2> QED
    BY <1>2, <1>3, Zenon DEF TypeInv, TypeOK
<1>5. PICK c \in Culprits(j) :
        VoidPreparation(j,
          IF prep[j].mode = "append" /\ prep[j].note = c /\ note[c].status # "absent"
          THEN note[c].rev ELSE prep[j].rev, NoRequest)
  BY DEF RecordConflict
<1>6. prep[j].rev \in Nat /\ (HasPrep(j) => note[prep[j].note].rev \in Nat)
  BY SMT DEF TypeInv, TypeOK, PrepNamed, PrepRow, NoteRow
<1>7. (IF prep[j].mode = "append" /\ prep[j].note = c /\ note[c].status # "absent"
       THEN note[c].rev ELSE prep[j].rev) \in Nat
  BY <1>6 DEF HasPrep
<1>8. reservation' \in [ReservationIds -> Use] /\ prep' \in [Jobs -> PrepRow] /\ PrepNamed'
  BY <1>5, <1>7, NullRows, VoidType
<1>9. QED
  BY <1>1, <1>4, <1>8

LEMMA HeartbeatConflictType ==
  ASSUME TypeInv, NEW j \in Jobs, NEW t, HeartbeatConflict(j, t)
  PROVE  TypeInv'
  BY RecordConflictType DEF HeartbeatConflict, TypeInv, TypeOK, Use

LEMMA HeartbeatAuthorizeType ==
  ASSUME TypeInv, NEW j \in Jobs, NEW t, HeartbeatAuthorize(j, t)
  PROVE  TypeInv'
<1>1. [page[j] EXCEPT !.verdict = "authorized"] \in PageRow
  BY SMT DEF TypeInv, TypeOK, PageRow
<1>2. page' \in [Jobs -> PageRow]
  BY <1>1, Zenon DEF HeartbeatAuthorize, TypeInv, TypeOK
<1>3. QED
  BY <1>2 DEF HeartbeatAuthorize, TypeInv, TypeOK, PrepNamed, HasPrep

LEMMA PrepareCreateType ==
  ASSUME TypeInv, NEW j \in Jobs, NEW t \in Nat, NEW r \in ReservationIds, PrepareCreate(j, t, r)
  PROVE  TypeInv'
<1>1. StableNote[j] \in Notes /\ 0 \in Nat
  BY JobIdsAssumption
<1>2. reservation' \in [ReservationIds -> Use] /\ prep' \in [Jobs -> PrepRow] /\ PrepNamed'
  BY <1>1, NullRows, ReserveType DEF PrepareCreate
<1>3. QED
  BY <1>2 DEF PrepareCreate, TypeInv, TypeOK, Use

LEMMA PrepareAppendType ==
  ASSUME TypeInv, NEW j \in Jobs, NEW t \in Nat, NEW n \in Notes, NEW v \in Nat,
         NEW r \in ReservationIds, PrepareAppend(j, t, n, v, r)
  PROVE  TypeInv'
<1>1. reservation' \in [ReservationIds -> Use] /\ prep' \in [Jobs -> PrepRow] /\ PrepNamed'
  BY NullRows, ReserveType DEF PrepareAppend
<1>2. QED
  BY <1>1 DEF PrepareAppend, TypeInv, TypeOK, Use

LEMMA PrepareAppendReplanType ==
  ASSUME TypeInv, NEW j \in Jobs, NEW t \in Nat, NEW n \in Notes, NEW v \in Nat,
         NEW r \in ReservationIds, PrepareAppendReplan(j, t, n, v, r)
  PROVE  TypeInv'
<1> DEFINE q == [note |-> n, rev |-> v, res |-> r]
           w == IF Appendable(n) THEN note[n].rev ELSE v
           p == [mode |-> "append", token |-> t, gen |-> 1, note |-> n, rev |-> w,
                 res |-> NoReservation, control |-> NoControl, replanned |-> q,
                 status |-> "open"]
<1>1. job' \in [Jobs -> JobRow]
  BY SpendReplanType DEF PrepareAppendReplan
<1>2. reservation' \in [ReservationIds -> Use]
  BY BurnedType DEF TypeInv, TypeOK, PrepareAppendReplan, Use
<1>3. q \in Request /\ w \in Nat
  BY SMT DEF Request, TypeInv, TypeOK, NoteRow
<1>4. prep' = [prep EXCEPT ![j] = p]
  BY DEF PrepareAppendReplan
<1>5. p \in PrepRow /\ p.note \in Notes
  <2> HIDE DEF q, w
  <2> QED
    BY <1>3, NullRows, SMT DEF PrepRow
<1> HIDE DEF p
<1>6. prep' \in [Jobs -> PrepRow] /\ PrepNamed'
  BY <1>4, <1>5, PrepUpdate
<1>7. QED
  BY <1>1, <1>2, <1>6 DEF PrepareAppendReplan, TypeInv, TypeOK, Use

LEMMA PrepareAppendReviewType ==
  ASSUME TypeInv, NEW j \in Jobs, NEW t \in Nat, NEW n \in Notes, NEW v \in Nat,
         NEW r \in ReservationIds, PrepareAppendReview(j, t, n, v, r)
  PROVE  TypeInv'
<1>1. StableNote[j] \in Notes /\ 0 \in Nat
  BY JobIdsAssumption
<1>2. [note |-> n, rev |-> v, res |-> r] \in Request
  BY SMT DEF Request
<1>3. reservation' \in [ReservationIds -> Use] /\ prep' \in [Jobs -> PrepRow] /\ PrepNamed'
  BY <1>1, <1>2, ReserveType DEF PrepareAppendReview
<1>4. QED
  BY <1>3 DEF PrepareAppendReview, TypeInv, TypeOK, Use

LEMMA VoidedCommitType ==
  ASSUME TypeInv, NEW j \in Jobs, NEW v \in Nat, NEW q \in Request,
         SpendReplan(j), VoidPreparation(j, v, q),
         UNCHANGED <<capture, control, page, note, linked, published>>
  PROVE  TypeInv'
  BY SpendReplanType, VoidType DEF TypeInv, TypeOK, Use

LEMMA CommitRuleBrokenType ==
  ASSUME TypeInv, NEW j \in Jobs, NEW t, NEW o, CommitRuleBroken(j, t, o)
  PROVE  TypeInv'
<1>1. prep[j].rev \in Nat /\ prep[j].replanned \in Request
  BY SMT DEF TypeInv, TypeOK, PrepRow
<1>2. QED
  BY <1>1, VoidedCommitType DEF CommitRuleBroken

LEMMA CommitConflictType ==
  ASSUME TypeInv, NEW j \in Jobs, NEW t, NEW o, CommitConflict(j, t, o)
  PROVE  TypeInv'
  BY RecordConflictType DEF CommitConflict, TypeInv, TypeOK, Use

LEMMA CommitTargetMovedType ==
  ASSUME TypeInv, NEW j \in Jobs, NEW t, NEW o, CommitTargetMoved(j, t, o)
  PROVE  TypeInv'
<1> DEFINE v == IF Appendable(prep[j].note) THEN note[prep[j].note].rev ELSE prep[j].rev
<1>1. prep[j].note \in Notes
  BY DEF CommitTargetMoved, TypeInv, PrepNamed, HasPrep
<1>2. v \in Nat /\ prep[j].replanned \in Request
  BY <1>1, SMT DEF TypeInv, TypeOK, PrepRow, NoteRow
<1>3. SpendReplan(j) /\ VoidPreparation(j, v, prep[j].replanned)
      /\ UNCHANGED <<capture, control, page, note, linked, published>>
  BY DEF CommitTargetMoved
<1> HIDE DEF v
<1>4. QED
  BY <1>2, <1>3, VoidedCommitType

LEMMA SucceedType ==
  ASSUME TypeInv, NEW j \in Jobs, NEW s \in CaptureStatus, NEW n \in Notes \cup {NoNote},
         OpenPrep(j), Succeed(j, s, n)
  PROVE  /\ job' \in [Jobs -> JobRow] /\ capture' \in [Jobs -> CaptureStatus]
         /\ reservation' \in [ReservationIds -> Use]
         /\ prep' \in [Jobs -> PrepRow] /\ PrepNamed'
         /\ linked' \in [Jobs -> Notes \cup {NoNote}] /\ published' \in [Jobs -> Nat]
<1>1. Ended(j, "succeeded") \in JobRow
  BY EndedRow DEF TypeInv, TypeOK, JobState
<1>2. job' \in [Jobs -> JobRow] /\ capture' \in [Jobs -> CaptureStatus]
  BY <1>1, Zenon DEF Succeed, TypeInv, TypeOK
<1>3. reservation' \in [ReservationIds -> Use]
  BY BurnedType DEF TypeInv, TypeOK, Succeed, Use
<1>4. /\ [prep[j] EXCEPT !.status = "completed"] \in PrepRow
      /\ [prep[j] EXCEPT !.status = "completed"].note = prep[j].note
  <2>1. prep[j] \in PrepRow
    BY DEF TypeInv, TypeOK
  <2>2. QED
    BY <2>1, Zenon DEF PrepRow
<1>5. prep[j].note \in Notes
  BY DEF OpenPrep, TypeInv, PrepNamed
<1>6. prep' = [prep EXCEPT ![j] = [prep[j] EXCEPT !.status = "completed"]]
  BY Zenon DEF Succeed
<1>7. prep' \in [Jobs -> PrepRow] /\ PrepNamed'
  BY <1>4, <1>5, <1>6, PrepUpdate
<1>8. linked' \in [Jobs -> Notes \cup {NoNote}] /\ published' \in [Jobs -> Nat]
  BY SMT DEF Succeed, TypeInv, TypeOK
<1>9. QED
  BY <1>2, <1>3, <1>7, <1>8

\* What a publication finds: an open preparation that names a note.
LEMMA PublishableOpen ==
  ASSUME TypeInv, NEW j \in Jobs, NEW t, NEW o, Publishable(j, t, o)
  PROVE  /\ OpenPrep(j) /\ prep[j].note \in Notes /\ LeaseHeld(j, t)
         /\ prep[j].token = t /\ prep[j].res # NoReservation /\ PageAuthorized(j)
  BY DEF Publishable, PassesHeartbeat, ReachesHeartbeat, MayCommit, OpenPrep, TypeInv, PrepNamed

LEMMA CommitCreateType ==
  ASSUME TypeInv, NEW j \in Jobs, NEW t, CommitCreate(j, t)
  PROVE  TypeInv'
<1>1. OpenPrep(j) /\ prep[j].note \in Notes
  BY PublishableOpen DEF CommitCreate
<1>2. "organized" \in CaptureStatus /\ [rev |-> 1, status |-> "open"] \in NoteRow
  BY SMT DEF CaptureStatus, NoteRow, NoteStatus
<1>3. note' \in [Notes -> NoteRow]
  BY <1>1, <1>2, Zenon DEF CommitCreate, TypeInv, TypeOK
<1>4. QED
  BY <1>1, <1>2, <1>3, SucceedType DEF CommitCreate, TypeInv, TypeOK, Use

LEMMA CommitAppendType ==
  ASSUME TypeInv, NEW j \in Jobs, NEW t, CommitAppend(j, t)
  PROVE  TypeInv'
<1> DEFINE n == prep[j].note
<1>1. OpenPrep(j) /\ n \in Notes
  BY PublishableOpen DEF CommitAppend
<1>2. note[n].rev + 1 \in Nat /\ note[n] \in NoteRow
  BY <1>1, SMT DEF TypeInv, TypeOK, NoteRow
<1>3. [note[n] EXCEPT !.rev = note[n].rev + 1] \in NoteRow
  BY <1>2, Zenon DEF NoteRow
<1>4. note' = [note EXCEPT ![n] = [note[n] EXCEPT !.rev = note[n].rev + 1]]
  BY Zenon DEF CommitAppend
<1>5. note' \in [Notes -> NoteRow]
  BY <1>3, <1>4, Zenon DEF TypeInv, TypeOK
<1>6. "organized" \in CaptureStatus
  BY DEF CaptureStatus
<1>7. QED
  BY <1>1, <1>5, <1>6, SucceedType DEF CommitAppend, TypeInv, TypeOK, Use

LEMMA CommitReviewType ==
  ASSUME TypeInv, NEW j \in Jobs, NEW t, CommitReview(j, t)
  PROVE  TypeInv'
<1> DEFINE n == IF prep[j].mode = "append" /\ Appendable(prep[j].note)
                THEN prep[j].note ELSE NoNote
<1>1. OpenPrep(j) /\ n \in Notes \cup {NoNote}
  BY PublishableOpen DEF CommitReview
<1>2. "needs_review" \in CaptureStatus
  BY DEF CaptureStatus
<1>3. Succeed(j, "needs_review", n) /\ UNCHANGED <<control, page, note>>
  BY DEF CommitReview
<1> HIDE DEF n
<1>4. QED
  BY <1>1, <1>2, <1>3, SucceedType DEF TypeInv, TypeOK, Use

LEMMA RetryType ==
  ASSUME TypeInv, NEW j \in Jobs, Retry(j)
  PROVE  TypeInv'
<1> DEFINE k == job[j].retries + 1
<1>1. Ended(j, "created") \in JobRow /\ Ended(j, "created").retries = job[j].retries
  <2>1. "created" \in JobState /\ job[j] \in JobRow
    BY DEF JobState, TypeInv, TypeOK
  <2>2. QED
    BY <2>1, EndedRow, Zenon DEF Ended, TypeInv, TypeOK, JobRow
<1>2. k \in Nat /\ 0 \in 0..MaxAttempts /\ 0 \in 0..1
  BY BoundAssumption, SMT DEF TypeInv, TypeOK, JobRow
<1>3. [Ended(j, "created") EXCEPT !.attempt = 0, !.replan = 0, !.retries = @ + 1] =
        [Ended(j, "created") EXCEPT !.attempt = 0, !.replan = 0, !.retries = k]
  BY <1>1, Zenon
<1>4. [Ended(j, "created") EXCEPT !.attempt = 0, !.replan = 0, !.retries = k] \in JobRow
  <2> HIDE DEF k
  <2> QED
    BY <1>1, <1>2, Zenon DEF JobRow
<1>5. job' \in [Jobs -> JobRow]
  BY <1>3, <1>4, Zenon DEF Retry, TypeInv, TypeOK
<1>6. capture' \in [Jobs -> CaptureStatus]
  BY SMT DEF Retry, TypeInv, TypeOK, CaptureStatus
<1>7. page' \in [Jobs -> PageRow]
  BY NullRows, Zenon DEF Retry, TypeInv, TypeOK
<1>8. prep' \in [Jobs -> PrepRow] /\ PrepNamed'
  BY ClearedUpdate DEF Retry
<1>9. QED
  BY <1>5, <1>6, <1>7, <1>8 DEF Retry, TypeInv, TypeOK

LEMMA DeleteType ==
  ASSUME TypeInv, NEW j \in Jobs, Delete(j)
  PROVE  TypeInv'
<1>1. job' \in [Jobs -> JobRow]
  <2>1. Ended(j, "failed") \in JobRow /\ job[j] \in JobRow
    BY EndedRow DEF TypeInv, TypeOK, JobState
  <2>2. QED
    BY <2>1, Zenon DEF Delete, TypeInv, TypeOK
<1>2. capture' \in [Jobs -> CaptureStatus]
  BY SMT DEF Delete, TypeInv, TypeOK, CaptureStatus
<1>3. page' \in [Jobs -> PageRow]
  BY NullRows, Zenon DEF Delete, TypeInv, TypeOK
<1>4. prep' \in [Jobs -> PrepRow] /\ PrepNamed'
  BY ClearedUpdate DEF Delete
<1>5. reservation' \in [ReservationIds -> Use]
  BY BurnedType DEF Delete, TypeInv, TypeOK, Use
<1>6. linked' \in [Jobs -> Notes \cup {NoNote}]
  BY Zenon DEF Delete, TypeInv, TypeOK
<1>7. QED
  BY <1>1, <1>2, <1>3, <1>4, <1>5, <1>6 DEF Delete, TypeInv, TypeOK, Use

LEMMA OwnerWriteType ==
  ASSUME TypeInv, NEW n \in Notes, NEW s \in OwnerStatuses, OwnerWrite(n, s)
  PROVE  TypeInv'
<1>1. s \in NoteStatus
  BY StatusAssumption DEF NoteStatus
<1>2. [rev |-> note[n].rev + 1, status |-> s] \in NoteRow
  BY <1>1, SMT DEF TypeInv, TypeOK, NoteRow
<1>3. note' \in [Notes -> NoteRow]
  BY <1>2, Zenon DEF OwnerWrite, TypeInv, TypeOK
<1>4. QED
  BY <1>3 DEF OwnerWrite, TypeInv, TypeOK, PrepNamed, HasPrep

LEMMA PurgeType ==
  ASSUME TypeInv, NEW n \in Notes, Purge(n)
  PROVE  TypeInv'
<1>1. [rev |-> 0, status |-> "absent"] \in NoteRow
  BY SMT DEF NoteRow, NoteStatus
<1>2. note' \in [Notes -> NoteRow]
  BY <1>1, Zenon DEF Purge, TypeInv, TypeOK
<1>3. "inbox" \in CaptureStatus
  BY DEF CaptureStatus
<1>4. capture' \in [Jobs -> CaptureStatus]
  BY <1>3, Zenon DEF Purge, TypeInv, TypeOK
<1>5. control' \in [Jobs -> Controls] /\ linked' \in [Jobs -> Notes \cup {NoNote}]
  BY NullRows, Zenon DEF Purge, TypeInv, TypeOK
<1>6. QED
  BY <1>2, <1>4, <1>5 DEF Purge, TypeInv, TypeOK, PrepNamed, HasPrep

-----------------------------------------------------------------------------
(* The steps of Next, one case per action.                                 *)

LEMMA InitType == Init => TypeInv
<1> SUFFICES ASSUME Init PROVE TypeInv
  OBVIOUS
<1>1. job \in [Jobs -> JobRow]
  BY BoundAssumption, SMT DEF Init, JobRow, JobState
<1>2. note \in [Notes -> NoteRow]
  BY SMT DEF Init, NoteRow, NoteStatus
<1>3. page \in [Jobs -> PageRow] /\ prep \in [Jobs -> PrepRow] /\ control \in [Jobs -> Controls]
  BY NullRows, Zenon DEF Init
<1>4. /\ capture \in [Jobs -> CaptureStatus] /\ reservation \in [ReservationIds -> Use]
      /\ linked \in [Jobs -> Notes \cup {NoNote}] /\ published \in [Jobs -> Nat]
  BY SMT DEF Init, CaptureStatus, Use
<1>5. PrepNamed
  BY SMT DEF Init, PrepNamed, HasPrep, NoPrep
<1>6. QED
  BY <1>1, <1>2, <1>3, <1>4, <1>5 DEF TypeInv, TypeOK, Use

LEMMA CallType ==
  ASSUME TypeInv, NEW j \in Jobs, NEW t \in Nat, Call(j, t)
  PROVE  TypeInv'
<1>1. CASE \E S \in Listable(j) : List(j, t, S)
  BY <1>1, ListType
<1>2. CASE HeartbeatConflict(j, t)
  BY <1>2, HeartbeatConflictType
<1>3. CASE HeartbeatAuthorize(j, t)
  BY <1>3, HeartbeatAuthorizeType
<1>4. CASE \E r \in ReservationIds : PrepareCreate(j, t, r)
  BY <1>4, PrepareCreateType
<1>5. CASE \E n \in Notes, r \in ReservationIds : \E v \in {page[j].cand[n].rev} :
             \/ PrepareAppend(j, t, n, v, r)
             \/ PrepareAppendReplan(j, t, n, v, r)
             \/ PrepareAppendReview(j, t, n, v, r)
  <2>1. \A n \in Notes : page[j].cand[n].rev \in Nat
    BY SMT DEF TypeInv, TypeOK, PageRow, Manifest
  <2>2. QED
    BY <1>5, <2>1, PrepareAppendType, PrepareAppendReplanType, PrepareAppendReviewType
<1>6. CASE Commit(j, t)
  BY <1>6, CommitRuleBrokenType, CommitConflictType, CommitTargetMovedType,
     CommitCreateType, CommitAppendType, CommitReviewType DEF Commit
<1>7. CASE \E kind \in Failures : Fail(j, t, kind)
  BY <1>7, FailType
<1>8. QED
  BY <1>1, <1>2, <1>3, <1>4, <1>5, <1>6, <1>7 DEF Call

LEMMA TypeStep == TypeInv /\ [Next]_vars => TypeInv'
<1> SUFFICES ASSUME TypeInv, [Next]_vars PROVE TypeInv'
  OBVIOUS
<1>1. CASE Owner
  BY <1>1, CaptureType, RetryType, DeleteType, OwnerWriteType, PurgeType DEF Owner
<1>2. ASSUME NEW j \in Jobs, Service(j) PROVE TypeInv'
  <2>1. \A t \in 1..job[j].issued : t \in Nat
    BY SMT DEF TypeInv, TypeOK, JobRow
  <2>2. QED
    BY <1>2, <2>1, ClaimType, ExpireType, RecoverType, CallType DEF Service
<1>3. CASE UNCHANGED vars
  BY <1>3 DEF vars, TypeInv, TypeOK, PrepNamed, HasPrep
<1>4. QED
  BY <1>1, <1>2, <1>3 DEF Next

\* Every row of the store keeps the columns and values its constraints allow:
\* attempts within the limit, at most one replan, notes and reservations that
\* exist.
THEOREM TypeCorrect == Spec => []TypeOK
<1>1. TypeInv => TypeOK
  BY DEF TypeInv
<1>2. QED
  BY <1>1, InitType, TypeStep, PTL DEF Spec

-----------------------------------------------------------------------------
(* The columns the effects leave.                                          *)

LEMMA EndedValues ==
  ASSUME TypeInv, NEW j \in Jobs, NEW s \in JobState
  PROVE  /\ Ended(j, s).state = s /\ Ended(j, s).token = 0
         /\ Ended(j, s).attempt = job[j].attempt /\ Ended(j, s).issued = job[j].issued
         /\ Ended(j, s).replan = job[j].replan
<1>1. job[j] \in JobRow
  BY DEF TypeInv, TypeOK
<1>2. QED
  BY <1>1, Zenon DEF Ended, JobRow

LEMMA StartedValues ==
  ASSUME TypeInv, NEW j \in Jobs
  PROVE  /\ Started(j).state = "running" /\ Started(j).attempt = job[j].attempt + 1
         /\ Started(j).token = job[j].issued + 1 /\ Started(j).issued = job[j].issued + 1
         /\ Started(j).replan = job[j].replan
<1>1. job[j] \in JobRow
  BY DEF TypeInv, TypeOK
<1>2. QED
  BY <1>1, Zenon DEF Started, JobRow

LEMMA ClearedValues ==
  ASSUME TypeInv, NEW j \in Jobs
  PROVE  /\ Cleared(j).mode = prep[j].mode /\ Cleared(j).token = prep[j].token
         /\ Cleared(j).status = prep[j].status
         /\ OpenPrep(j) => Cleared(j).res = NoReservation
         /\ ~OpenPrep(j) => Cleared(j) = prep[j]
<1>1. prep[j] \in PrepRow
  BY DEF TypeInv, TypeOK
<1>2. QED
  BY <1>1, Zenon DEF Cleared, PrepRow

LEMMA ReboundValues ==
  ASSUME TypeInv, NEW j \in Jobs
  PROVE  /\ Rebound(j).mode = prep[j].mode /\ Rebound(j).status = prep[j].status
         /\ Rebound(j).res = prep[j].res
         /\ OpenPrep(j) => Rebound(j).token = job[j].issued + 1
         /\ ~OpenPrep(j) => Rebound(j) = prep[j]
<1>1. prep[j] \in PrepRow
  BY DEF TypeInv, TypeOK
<1>2. QED
  BY <1>1, Zenon DEF Rebound, PrepRow

\* The preparation after a conflict.
LEMMA VoidValues ==
  ASSUME TypeInv, NEW j \in Jobs, NEW v, NEW q, VoidPreparation(j, v, q)
  PROVE  /\ prep'[j].mode = prep[j].mode /\ prep'[j].token = prep[j].token
         /\ prep'[j].status = prep[j].status
         /\ OpenPrep(j) => prep'[j].res = NoReservation
         /\ ~OpenPrep(j) => prep'[j] = prep[j]
         /\ \A i \in Jobs \ {j} : prep'[i] = prep[i]
         /\ reservation' = Burned(j)
<1> DEFINE row == [Cleared(j) EXCEPT !.gen = 1, !.rev = v, !.replanned = q]
<1>1. Cleared(j) \in PrepRow
  BY ClearedRow DEF TypeInv, TypeOK
<1>2. /\ row.mode = Cleared(j).mode /\ row.token = Cleared(j).token
      /\ row.status = Cleared(j).status /\ row.res = Cleared(j).res
  BY <1>1, Zenon DEF PrepRow
<1>3. prep' = [prep EXCEPT ![j] = IF OpenPrep(j) THEN row ELSE prep[j]]
  BY DEF VoidPreparation
<1> HIDE DEF row
<1>4. prep'[j] = (IF OpenPrep(j) THEN row ELSE prep[j]) /\ \A i \in Jobs \ {j} : prep'[i] = prep[i]
  BY <1>3, Zenon DEF TypeInv, TypeOK
<1>5. QED
  BY <1>2, <1>4, ClearedValues DEF VoidPreparation

LEMMA SpendReplanValues ==
  ASSUME TypeInv, NEW j \in Jobs, SpendReplan(j)
  PROVE  /\ job'[j].state = job[j].state /\ job'[j].token = job[j].token
         /\ job'[j].attempt = job[j].attempt /\ job'[j].issued = job[j].issued
         /\ job'[j].replan = 1
         /\ \A i \in Jobs \ {j} : job'[i] = job[i]
<1>1. job[j] \in JobRow
  BY DEF TypeInv, TypeOK
<1>2. QED
  BY <1>1, Zenon DEF SpendReplan, TypeInv, TypeOK, JobRow

-----------------------------------------------------------------------------
(* First layer: the life of a job, its capture and its publications.       *)

LifeOf(state, attempt, status, publications, preparation, filed) ==
  /\ publications = IF state = "succeeded" THEN 1 ELSE 0
  /\ state \in {"created", "awaiting_retry"} => status = "queued" /\ attempt < MaxAttempts
  /\ state = "running" <=> status = "processing"
  /\ status = "failed" => state \in {"failed", "dead_letter"}
  /\ preparation = "completed" => state = "succeeded"
  /\ status = "absent" => state = "absent" /\ attempt = 0 /\ filed = NoNote

LifeOK(j) ==
  LifeOf(job[j].state, job[j].attempt, capture[j], published[j], prep[j].status, linked[j])
LifeInv == TypeInv /\ \A j \in Jobs : LifeOK(j)

LEMMA LifeParts ==
  LifeInv <=> /\ TypeInv /\ ExactlyOnce /\ WorkNeverStranded
              /\ CompletedIsPublished /\ NothingBeforeCapture
  BY Zenon DEF LifeInv, LifeOK, LifeOf, ExactlyOnce, WorkNeverStranded, Leased,
               CompletedIsPublished, NothingBeforeCapture

\* A step that keeps the life of every job but j.
LEMMA LifeFrame ==
  ASSUME LifeInv, NEW j \in Jobs, TypeInv', LifeOK(j)',
         \A i \in Jobs \ {j} :
           /\ job'[i] = job[i] /\ capture'[i] = capture[i] /\ published'[i] = published[i]
           /\ prep'[i] = prep[i] /\ linked'[i] = linked[i]
  PROVE  LifeInv'
<1>1. ASSUME NEW i \in Jobs PROVE LifeOK(i)'
  <2>1. CASE i = j
    BY <2>1
  <2>2. CASE i # j
    BY <2>2, Zenon DEF LifeInv, LifeOK
  <2>3. QED
    BY <2>1, <2>2
<1>2. QED
  BY <1>1 DEF LifeInv

\* A step of j that changes neither.
LEMMA LifeKept ==
  ASSUME LifeInv, NEW j \in Jobs, TypeInv',
         job'[j].state = job[j].state, job'[j].attempt = job[j].attempt,
         prep'[j].status = prep[j].status \/ prep'[j].status = "open",
         \A i \in Jobs \ {j} : job'[i] = job[i] /\ prep'[i] = prep[i],
         UNCHANGED <<capture, published, linked>>
  PROVE  LifeInv'
<1>1. LifeOK(j)'
  BY SMT DEF LifeInv, LifeOK, LifeOf
<1>2. QED
  BY <1>1, LifeFrame

LEMMA LifeCapture ==
  ASSUME LifeInv, NEW j \in Jobs, NEW c \in Controls, Capture(j, c)
  PROVE  LifeInv'
<1>1. TypeInv'
  BY CaptureType DEF LifeInv
<1>2. job[j] \in JobRow /\ j \in DOMAIN job /\ j \in DOMAIN capture
  BY DEF LifeInv, TypeInv, TypeOK
<1>3. /\ job'[j].state = "created" /\ job'[j].attempt = job[j].attempt
      /\ capture'[j] = "queued"
      /\ \A i \in Jobs \ {j} : job'[i] = job[i] /\ capture'[i] = capture[i]
  BY <1>2, Zenon DEF Capture, JobRow, LifeInv, TypeInv, TypeOK
<1>4. LifeOK(j)'
  BY <1>3, BoundAssumption, SMT DEF LifeInv, LifeOK, LifeOf, Capture
<1>5. QED
  BY <1>1, <1>3, <1>4, LifeFrame DEF Capture

LEMMA LifeClaim ==
  ASSUME LifeInv, NEW j \in Jobs, Claim(j)
  PROVE  LifeInv'
<1>1. TypeInv'
  BY ClaimType DEF LifeInv
<1>2. /\ job'[j] = Started(j) /\ capture'[j] = "processing" /\ prep'[j] = Rebound(j)
      /\ \A i \in Jobs \ {j} : job'[i] = job[i] /\ capture'[i] = capture[i] /\ prep'[i] = prep[i]
  BY Zenon DEF Claim, LifeInv, TypeInv, TypeOK
<1>3. LifeOK(j)'
  BY <1>2, StartedValues, ReboundValues, SMT DEF LifeInv, LifeOK, LifeOf, Claim
<1>4. QED
  BY <1>1, <1>2, <1>3, LifeFrame DEF Claim

\* A lease that ends without a publication.
LEMMA LifeEnd ==
  ASSUME LifeInv, NEW j \in Jobs, Leased(j), TypeInv',
         NEW s \in JobState, NEW c \in CaptureStatus,
         \/ s = "awaiting_retry" /\ c = "queued" /\ job[j].attempt < MaxAttempts
         \/ s \in {"failed", "dead_letter"} /\ c \in {"failed", "inbox", "deleted"},
         job' = [job EXCEPT ![j] = Ended(j, s)],
         capture' = [capture EXCEPT ![j] = c],
         prep' = [prep EXCEPT ![j] = Cleared(j)],
         UNCHANGED <<published, linked>>
  PROVE  LifeInv'
<1>1. /\ job'[j] = Ended(j, s) /\ capture'[j] = c /\ prep'[j] = Cleared(j)
      /\ \A i \in Jobs \ {j} : job'[i] = job[i] /\ capture'[i] = capture[i] /\ prep'[i] = prep[i]
  BY Zenon DEF LifeInv, TypeInv, TypeOK
<1>2. LifeOK(j)'
  BY <1>1, EndedValues, ClearedValues, SMT DEF LifeInv, LifeOK, LifeOf, Leased
<1>3. QED
  BY <1>1, <1>2, LifeFrame

LEMMA LifeRecover ==
  ASSUME LifeInv, NEW j \in Jobs, Recover(j)
  PROVE  LifeInv'
<1>1. TypeInv'
  BY RecoverType DEF LifeInv
<1>2. {"awaiting_retry", "dead_letter"} \subseteq JobState
      /\ {"queued", "failed"} \subseteq CaptureStatus
  BY DEF JobState, CaptureStatus
<1>3. QED
  BY <1>1, <1>2, LifeEnd DEF Recover, Requeue, GiveUp, ReleasePreparation

LEMMA LifeFail ==
  ASSUME LifeInv, NEW j \in Jobs, NEW t, NEW kind, Fail(j, t, kind)
  PROVE  LifeInv'
<1>1. TypeInv' /\ Leased(j)
  BY FailType DEF LifeInv, Fail, LeaseHeld
<1>2. {"awaiting_retry", "dead_letter", "failed"} \subseteq JobState
      /\ {"queued", "failed", "inbox"} \subseteq CaptureStatus
  BY DEF JobState, CaptureStatus
<1>3. QED
  BY <1>1, <1>2, LifeEnd DEF Fail, Requeue, GiveUp, ReleasePreparation

LEMMA LifeExpire ==
  ASSUME LifeInv, NEW j \in Jobs, Expire(j)
  PROVE  LifeInv'
<1>1. TypeInv' /\ job[j] \in JobRow
  BY ExpireType DEF LifeInv, TypeInv, TypeOK
<1>2. /\ job'[j].state = job[j].state /\ job'[j].attempt = job[j].attempt
      /\ \A i \in Jobs \ {j} : job'[i] = job[i]
  BY <1>1, Zenon DEF Expire, JobRow, LifeInv, TypeInv, TypeOK
<1>3. QED
  BY <1>1, <1>2, LifeKept DEF Expire

\* Listing and authorizing touch the page alone.
LEMMA LifePage ==
  ASSUME LifeInv, TypeInv', UNCHANGED <<job, capture, prep, published, linked>>
  PROVE  LifeInv'
  BY Zenon DEF LifeInv, LifeOK

\* A conflict, whoever finds it.
LEMMA LifeConflict ==
  ASSUME LifeInv, NEW j \in Jobs, NEW v, NEW q, TypeInv', SpendReplan(j), VoidPreparation(j, v, q),
         UNCHANGED <<capture, published, linked>>
  PROVE  LifeInv'
<1>1. TypeInv
  BY DEF LifeInv
<1>2. QED
  BY <1>1, SpendReplanValues, VoidValues, LifeKept

LEMMA LifeReserve ==
  ASSUME LifeInv, NEW j \in Jobs, TypeInv', NEW t, NEW m, NEW n, NEW v, NEW r, NEW q,
         Reserve(j, t, m, n, v, r, q), UNCHANGED <<job, capture, published, linked>>
  PROVE  LifeInv'
<1>1. /\ prep'[j].status = "open" /\ \A i \in Jobs \ {j} : prep'[i] = prep[i]
  BY SMT DEF Reserve, LifeInv, TypeInv, TypeOK
<1>2. QED
  BY <1>1, LifeKept

LEMMA LifeAppendReplan ==
  ASSUME LifeInv, NEW j \in Jobs, NEW t \in Nat, NEW n \in Notes, NEW v \in Nat,
         NEW r \in ReservationIds, PrepareAppendReplan(j, t, n, v, r)
  PROVE  LifeInv'
<1>1. TypeInv' /\ TypeInv
  BY PrepareAppendReplanType DEF LifeInv
<1>2. /\ prep'[j].status = "open" /\ \A i \in Jobs \ {j} : prep'[i] = prep[i]
  BY SMT DEF PrepareAppendReplan, LifeInv, TypeInv, TypeOK
<1>3. QED
  BY <1>1, <1>2, SpendReplanValues, LifeKept DEF PrepareAppendReplan

\* A publication.
LEMMA LifeSucceed ==
  ASSUME LifeInv, NEW j \in Jobs, Leased(j), TypeInv', NEW n \in Notes \cup {NoNote},
         NEW c \in {"organized", "needs_review"}, Succeed(j, c, n)
  PROVE  LifeInv'
<1>1. /\ job'[j] = Ended(j, "succeeded") /\ capture'[j] = c /\ prep'[j].status = "completed"
      /\ published'[j] = published[j] + 1
      /\ \A i \in Jobs \ {j} :
           /\ job'[i] = job[i] /\ capture'[i] = capture[i] /\ published'[i] = published[i]
           /\ prep'[i] = prep[i] /\ linked'[i] = linked[i]
  <2>1. prep[j] \in PrepRow /\ prep \in [Jobs -> PrepRow]
    BY DEF LifeInv, TypeInv, TypeOK
  <2>2. prep'[j].status = "completed" /\ \A i \in Jobs \ {j} : prep'[i] = prep[i]
    BY <2>1, Zenon DEF Succeed, PrepRow
  <2>3. QED
    BY <2>2, Zenon DEF Succeed, LifeInv, TypeInv, TypeOK
<1>2. "succeeded" \in JobState
  BY DEF JobState
<1>3. LifeOK(j)'
  BY <1>1, <1>2, EndedValues, SMT DEF LifeInv, LifeOK, LifeOf, Leased
<1>4. QED
  BY <1>1, <1>3, LifeFrame

LEMMA LifeRetry ==
  ASSUME LifeInv, NEW j \in Jobs, Retry(j)
  PROVE  LifeInv'
<1>1. TypeInv' /\ Ended(j, "created") \in JobRow
  BY RetryType, EndedRow DEF LifeInv, TypeInv, TypeOK, JobState
<1>2. /\ job'[j].state = "created" /\ job'[j].attempt = 0
      /\ \A i \in Jobs \ {j} : job'[i] = job[i]
  <2>1. "created" \in JobState
    BY DEF JobState
  <2> DEFINE row == [Ended(j, "created") EXCEPT !.attempt = 0, !.replan = 0, !.retries = @ + 1]
  <2>2. row.state = "created" /\ row.attempt = 0
    BY <1>1, <2>1, EndedValues, Zenon DEF JobRow, LifeInv
  <2>3. job' = [job EXCEPT ![j] = row]
    BY DEF Retry
  <2> HIDE DEF row
  <2>4. QED
    BY <2>2, <2>3, Zenon DEF LifeInv, TypeInv, TypeOK
<1>3. /\ capture'[j] = "queued" /\ prep'[j] = Cleared(j)
      /\ \A i \in Jobs \ {j} : capture'[i] = capture[i] /\ prep'[i] = prep[i]
  BY Zenon DEF Retry, LifeInv, TypeInv, TypeOK
<1>4. LifeOK(j)'
  BY <1>2, <1>3, ClearedValues, BoundAssumption, SMT DEF LifeInv, LifeOK, LifeOf, Retry
<1>5. QED
  BY <1>1, <1>2, <1>3, <1>4, LifeFrame DEF Retry

LEMMA LifeDelete ==
  ASSUME LifeInv, NEW j \in Jobs, Delete(j)
  PROVE  LifeInv'
<1>1. TypeInv' /\ "failed" \in JobState
  BY DeleteType DEF LifeInv, JobState
<1>2. /\ job'[j] = (IF Active(j) THEN Ended(j, "failed") ELSE job[j])
      /\ capture'[j] = "deleted" /\ prep'[j] = Cleared(j)
      /\ \A i \in Jobs \ {j} : /\ job'[i] = job[i] /\ capture'[i] = capture[i]
                               /\ prep'[i] = prep[i] /\ linked'[i] = linked[i]
  BY Zenon DEF Delete, LifeInv, TypeInv, TypeOK
<1>3. CASE Active(j)
  <2>1. LifeOK(j)'
    BY <1>1, <1>2, <1>3, EndedValues, ClearedValues, SMT
    DEF LifeInv, LifeOK, LifeOf, Active, Delete
  <2>2. QED
    BY <1>1, <1>2, <2>1, LifeFrame DEF Delete
<1>4. CASE ~Active(j)
  <2>1. LifeOK(j)'
    BY <1>1, <1>2, <1>4, ClearedValues, SMT DEF LifeInv, LifeOK, LifeOf, Active, Delete
  <2>2. QED
    BY <1>1, <1>2, <2>1, LifeFrame DEF Delete
<1>5. QED
  BY <1>3, <1>4

LEMMA LifePurge ==
  ASSUME LifeInv, NEW n \in Notes, Purge(n)
  PROVE  LifeInv'
<1>1. TypeInv'
  BY PurgeType DEF LifeInv
<1>2. ASSUME NEW i \in Jobs PROVE LifeOK(i)'
  <2>1. CASE i \in Related(n)
    <3>1. ~Active(i) /\ capture'[i] \in {"inbox", capture[i]}
      BY <2>1, Zenon DEF Purge
    <3>2. linked'[i] \in {NoNote, linked[i]}
      BY Zenon DEF Purge
    <3>3. QED
      BY <3>1, <3>2, SMT DEF LifeInv, LifeOK, LifeOf, Active, Purge
  <2>2. CASE i \notin Related(n)
    <3>1. capture'[i] = capture[i] /\ linked'[i] \in {NoNote, linked[i]}
      BY <2>2, Zenon DEF Purge
    <3>2. QED
      BY <3>1, SMT DEF LifeInv, LifeOK, LifeOf, Purge
  <2>3. QED
    BY <2>1, <2>2
<1>3. QED
  BY <1>1, <1>2 DEF LifeInv

LEMMA LifeInit == Init => LifeInv
<1> SUFFICES ASSUME Init PROVE LifeInv
  OBVIOUS
<1>1. TypeInv
  BY InitType
<1>2. ASSUME NEW j \in Jobs PROVE LifeOK(j)
  BY SMT DEF Init, LifeOK, LifeOf, NoPrep
<1>3. QED
  BY <1>1, <1>2 DEF LifeInv

LEMMA LifeCall ==
  ASSUME LifeInv, TypeInv', NEW j \in Jobs, NEW t \in Nat, Call(j, t)
  PROVE  LifeInv'
<1>1. CASE \E S \in Listable(j) : List(j, t, S)
  BY <1>1, LifePage DEF List
<1>2. CASE HeartbeatConflict(j, t)
  BY <1>2, LifeConflict DEF HeartbeatConflict, RecordConflict
<1>3. CASE HeartbeatAuthorize(j, t)
  BY <1>3, LifePage DEF HeartbeatAuthorize
<1>4. CASE \E r \in ReservationIds : PrepareCreate(j, t, r)
  BY <1>4, LifeReserve DEF PrepareCreate
<1>5. CASE \E n \in Notes, r \in ReservationIds : \E v \in {page[j].cand[n].rev} :
             \/ PrepareAppend(j, t, n, v, r)
             \/ PrepareAppendReplan(j, t, n, v, r)
             \/ PrepareAppendReview(j, t, n, v, r)
  <2>1. PICK n \in Notes, r \in ReservationIds : \E v \in {page[j].cand[n].rev} :
             \/ PrepareAppend(j, t, n, v, r)
             \/ PrepareAppendReplan(j, t, n, v, r)
             \/ PrepareAppendReview(j, t, n, v, r)
    BY <1>5
  <2> DEFINE v == page[j].cand[n].rev
  <2>2. v \in Nat
    BY SMT DEF LifeInv, TypeInv, TypeOK, PageRow, Manifest
  <2>3. CASE PrepareAppend(j, t, n, v, r)
    BY <2>3, LifeReserve DEF PrepareAppend
  <2>4. CASE PrepareAppendReplan(j, t, n, v, r)
    BY <2>2, <2>4, LifeAppendReplan
  <2>5. CASE PrepareAppendReview(j, t, n, v, r)
    BY <2>5, LifeReserve DEF PrepareAppendReview
  <2>6. QED
    BY <2>1, <2>3, <2>4, <2>5
<1>6. CASE Commit(j, t)
  <2>1. CASE \E o \in Outcome : CommitRuleBroken(j, t, o)
    BY <2>1, LifeConflict DEF CommitRuleBroken
  <2>2. CASE \E o \in Outcome : CommitConflict(j, t, o)
    BY <2>2, LifeConflict DEF CommitConflict, RecordConflict
  <2>3. CASE \E o \in Outcome : CommitTargetMoved(j, t, o)
    BY <2>3, LifeConflict DEF CommitTargetMoved
  <2>4. CASE CommitCreate(j, t)
    BY <2>4, PublishableOpen, LifeSucceed DEF CommitCreate, LifeInv, LeaseHeld
  <2>5. CASE CommitAppend(j, t)
    BY <2>5, PublishableOpen, LifeSucceed DEF CommitAppend, LifeInv, LeaseHeld
  <2>6. CASE CommitReview(j, t)
    BY <2>6, PublishableOpen, LifeSucceed DEF CommitReview, LifeInv, LeaseHeld
  <2>7. QED
    BY <1>6, <2>1, <2>2, <2>3, <2>4, <2>5, <2>6 DEF Commit
<1>7. CASE \E kind \in Failures : Fail(j, t, kind)
  BY <1>7, LifeFail
<1>8. QED
  BY <1>1, <1>2, <1>3, <1>4, <1>5, <1>6, <1>7 DEF Call

LEMMA LifeStep == LifeInv /\ [Next]_vars => LifeInv'
<1> SUFFICES ASSUME LifeInv, [Next]_vars PROVE LifeInv'
  OBVIOUS
<1>1. TypeInv'
  BY TypeStep DEF LifeInv
<1>2. CASE Owner
  <2>1. CASE \E n \in Notes, s \in OwnerStatuses : OwnerWrite(n, s)
    BY <1>1, <2>1, LifePage DEF OwnerWrite
  <2>2. QED
    BY <1>2, <2>1, LifeCapture, LifeRetry, LifeDelete, LifePurge DEF Owner
<1>3. ASSUME NEW j \in Jobs, Service(j) PROVE LifeInv'
  <2>1. \A t \in 1..job[j].issued : t \in Nat
    BY SMT DEF LifeInv, TypeInv, TypeOK, JobRow
  <2>2. QED
    BY <1>1, <1>3, <2>1, LifeClaim, LifeExpire, LifeRecover, LifeCall DEF Service
<1>4. CASE UNCHANGED vars
  BY <1>1, <1>4, LifePage DEF vars
<1>5. QED
  BY <1>2, <1>3, <1>4 DEF Next

\* A capture is published at most once, over every attempt, expired lease and
\* manual retry, and exactly when its job succeeded.
THEOREM PublishedExactlyOnce == Spec => []ExactlyOnce
<1>1. LifeInv => ExactlyOnce
  BY LifeParts
<1>2. QED
  BY <1>1, LifeInit, LifeStep, PTL DEF Spec

\* A job that waits can always be claimed, a leased one has a capture its
\* holder may read, and a capture shown as failed can be retried.
THEOREM NeverStranded == Spec => []WorkNeverStranded
<1>1. LifeInv => WorkNeverStranded
  BY LifeParts
<1>2. QED
  BY <1>1, LifeInit, LifeStep, PTL DEF Spec

-----------------------------------------------------------------------------
(* Second layer: the lease of a job, its preparation and its page.         *)

Sealable(j) == OpenPrep(j) /\ prep[j].res # NoReservation

LeaseOK(j) ==
  /\ job[j].token = IF Leased(j) THEN job[j].issued ELSE 0
  /\ Leased(j) /\ HasPrep(j) => OpenPrep(j) /\ prep[j].token = job[j].token
  /\ Sealable(j) => Leased(j) /\ prep[j].gen = job[j].replan /\ prep[j].control = control[j]
  /\ Leased(j) /\ PageHeld(j) => page[j].control = control[j]
LeaseInv == LifeInv /\ \A j \in Jobs : LeaseOK(j)

LEMMA LeaseParts ==
  LeaseInv => BurnNeverRefused /\ PreparedAfterLastConflict /\ ControlsPinned
  BY Zenon DEF LeaseInv, LeaseOK, Sealable, BurnNeverRefused, PreparedAfterLastConflict,
               ControlsPinned

LEMMA LeaseFrame ==
  ASSUME LeaseInv, NEW j \in Jobs, LifeInv', LeaseOK(j)',
         \A i \in Jobs \ {j} : job'[i] = job[i] /\ prep'[i] = prep[i] /\ page'[i] = page[i]
                               /\ control'[i] = control[i]
  PROVE  LeaseInv'
<1>1. ASSUME NEW i \in Jobs PROVE LeaseOK(i)'
  <2>1. CASE i = j
    BY <2>1
  <2>2. CASE i # j
    <3>1. /\ job'[i] = job[i] /\ prep'[i] = prep[i] /\ page'[i] = page[i]
          /\ control'[i] = control[i] /\ LeaseOK(i)
      BY <2>2 DEF LeaseInv
    <3>2. QED
      BY <3>1, SMT DEF LeaseOK, Leased, HasPrep, OpenPrep, PageHeld, Sealable
  <2>3. QED
    BY <2>1, <2>2
<1>2. QED
  BY <1>1 DEF LeaseInv

\* What the layers below say of a job whose lease a caller holds.
LEMMA LeaseTypes ==
  ASSUME LeaseInv
  PROVE  /\ TypeInv /\ job \in [Jobs -> JobRow] /\ prep \in [Jobs -> PrepRow]
         /\ page \in [Jobs -> PageRow] /\ control \in [Jobs -> Controls]
         /\ capture \in [Jobs -> CaptureStatus]
  BY DEF LeaseInv, LifeInv, TypeInv, TypeOK

LEMMA LeaseCapture ==
  ASSUME LeaseInv, LifeInv', NEW j \in Jobs, NEW c \in Controls, Capture(j, c)
  PROVE  LeaseInv'
<1>1. job[j] \in JobRow
  BY LeaseTypes
<1>2. /\ job'[j].state = "created" /\ job'[j].token = job[j].token
      /\ \A i \in Jobs \ {j} : job'[i] = job[i] /\ control'[i] = control[i]
  BY <1>1, LeaseTypes, Zenon DEF Capture, JobRow
<1>3. ~Leased(j)
  BY DEF LeaseInv, LifeInv, LifeOK, LifeOf, Leased, Capture
<1>4. LeaseOK(j)'
  BY <1>2, <1>3, SMT DEF LeaseInv, LeaseOK, Leased, Sealable, OpenPrep, HasPrep, PageHeld, Capture
<1>5. QED
  BY <1>2, <1>4, LeaseFrame DEF Capture

LEMMA LeaseClaim ==
  ASSUME LeaseInv, LifeInv', NEW j \in Jobs, Claim(j)
  PROVE  LeaseInv'
<1>1. /\ job'[j] = Started(j) /\ prep'[j] = Rebound(j) /\ page'[j] = NoPage
      /\ \A i \in Jobs \ {j} : job'[i] = job[i] /\ prep'[i] = prep[i] /\ page'[i] = page[i]
  BY LeaseTypes, Zenon DEF Claim
<1>2. ~Leased(j) /\ ~Sealable(j) /\ prep[j].status # "completed" /\ job[j].issued \in Nat
  BY LeaseTypes, SMT DEF LeaseInv, LeaseOK, LifeInv, LifeOK, LifeOf, Leased, Claim, JobRow
<1>3. prep[j].status = "open"
  BY <1>2, LeaseTypes, SMT DEF PrepRow
<1>4. NoPage.token = 0
  BY DEF NoPage
<1>5. LeaseOK(j)'
  BY <1>1, <1>2, <1>3, <1>4, LeaseTypes, StartedValues, ReboundValues, SMT
  DEF LeaseOK, Leased, Sealable, OpenPrep, HasPrep, PageHeld
<1>6. QED
  BY <1>1, <1>5, LeaseFrame DEF Claim

\* A lease that ends, with or without a publication.
LEMMA LeaseEnd ==
  ASSUME LeaseInv, LifeInv', NEW j \in Jobs, NEW s \in JobState, s # "running",
         job' = [job EXCEPT ![j] = Ended(j, s)],
         \A i \in Jobs \ {j} : prep'[i] = prep[i] /\ page'[i] = page[i],
         ~Sealable(j)', UNCHANGED control
  PROVE  LeaseInv'
<1>1. job'[j] = Ended(j, s) /\ \A i \in Jobs \ {j} : job'[i] = job[i]
  BY LeaseTypes, Zenon
<1>2. LeaseOK(j)'
  BY <1>1, LeaseTypes, EndedValues, SMT DEF LeaseOK, Leased, PageHeld
<1>3. QED
  BY <1>1, <1>2, LeaseFrame

LEMMA ClearedUnsealable ==
  ASSUME LeaseInv, NEW j \in Jobs, prep' = [prep EXCEPT ![j] = Cleared(j)]
  PROVE  ~Sealable(j)' /\ \A i \in Jobs \ {j} : prep'[i] = prep[i]
<1>1. prep'[j] = Cleared(j) /\ \A i \in Jobs \ {j} : prep'[i] = prep[i]
  BY LeaseTypes, Zenon
<1>2. QED
  BY <1>1, LeaseTypes, ClearedValues DEF Sealable, OpenPrep, HasPrep

LEMMA LeaseRelease ==
  ASSUME LeaseInv, LifeInv', NEW j \in Jobs,
         \/ Requeue(j) \/ \E s \in {"failed", "dead_letter"}, c \in CaptureStatus : GiveUp(j, s, c),
         ReleasePreparation(j), UNCHANGED <<control, page>>
  PROVE  LeaseInv'
<1>1. {"awaiting_retry", "failed", "dead_letter"} \subseteq JobState \ {"running"}
  BY DEF JobState
<1>2. PICK s \in JobState \ {"running"} : job' = [job EXCEPT ![j] = Ended(j, s)]
  BY <1>1 DEF Requeue, GiveUp
<1>3. ~Sealable(j)' /\ \A i \in Jobs \ {j} : prep'[i] = prep[i]
  BY ClearedUnsealable DEF ReleasePreparation
<1>4. QED
  BY <1>2, <1>3, LeaseEnd

LEMMA LeaseFail ==
  ASSUME LeaseInv, LifeInv', NEW j \in Jobs, NEW t, NEW kind, Fail(j, t, kind)
  PROVE  LeaseInv'
<1>1. {"failed", "inbox"} \subseteq CaptureStatus
  BY DEF CaptureStatus
<1>2. QED
  BY <1>1, LeaseRelease DEF Fail

LEMMA LeaseRecover ==
  ASSUME LeaseInv, LifeInv', NEW j \in Jobs, Recover(j)
  PROVE  LeaseInv'
<1>1. {"failed", "inbox"} \subseteq CaptureStatus
  BY DEF CaptureStatus
<1>2. QED
  BY <1>1, LeaseRelease DEF Recover

LEMMA LeaseExpire ==
  ASSUME LeaseInv, LifeInv', NEW j \in Jobs, Expire(j)
  PROVE  LeaseInv'
<1>1. job[j] \in JobRow
  BY LeaseTypes
<1>2. /\ job'[j].state = job[j].state /\ job'[j].token = job[j].token
      /\ job'[j].issued = job[j].issued /\ job'[j].replan = job[j].replan
      /\ \A i \in Jobs \ {j} : job'[i] = job[i]
  BY <1>1, LeaseTypes, Zenon DEF Expire, JobRow
<1>3. LeaseOK(j)'
  BY <1>2, SMT DEF LeaseInv, LeaseOK, Leased, Sealable, OpenPrep, HasPrep, PageHeld, Expire
<1>4. QED
  BY <1>2, <1>3, LeaseFrame DEF Expire

LEMMA LeaseList ==
  ASSUME LeaseInv, LifeInv', NEW j \in Jobs, NEW t, NEW S, List(j, t, S)
  PROVE  LeaseInv'
<1>1. /\ page'[j].control = control[j]
      /\ \A i \in Jobs \ {j} : page'[i] = page[i]
  BY LeaseTypes, SMT DEF List
<1>2. LeaseOK(j)'
  BY <1>1, SMT DEF LeaseInv, LeaseOK, Leased, Sealable, OpenPrep, HasPrep, PageHeld, List
<1>3. QED
  BY <1>1, <1>2, LeaseFrame DEF List

\* A verdict on the page changes neither its token nor its controls.
LEMMA VerdictValues ==
  ASSUME LeaseInv, NEW j \in Jobs, NEW v, page' = [page EXCEPT ![j].verdict = v]
  PROVE  /\ page'[j].token = page[j].token /\ page'[j].control = page[j].control
         /\ \A i \in Jobs \ {j} : page'[i] = page[i]
<1>1. page[j] \in PageRow
  BY LeaseTypes
<1>2. QED
  BY <1>1, LeaseTypes, Zenon DEF PageRow

LEMMA LeaseAuthorize ==
  ASSUME LeaseInv, LifeInv', NEW j \in Jobs, NEW t, HeartbeatAuthorize(j, t)
  PROVE  LeaseInv'
<1>1. /\ page'[j].token = page[j].token /\ page'[j].control = page[j].control
      /\ \A i \in Jobs \ {j} : page'[i] = page[i]
  BY VerdictValues DEF HeartbeatAuthorize
<1>2. LeaseOK(j)'
  BY <1>1, SMT DEF LeaseInv, LeaseOK, Leased, Sealable, OpenPrep, HasPrep, PageHeld,
                   HeartbeatAuthorize
<1>3. QED
  BY <1>1, <1>2, LeaseFrame DEF HeartbeatAuthorize

LEMMA LeaseConflict ==
  ASSUME LeaseInv, LifeInv', NEW j \in Jobs, NEW v, NEW q, Leased(j), SpendReplan(j),
         VoidPreparation(j, v, q), UNCHANGED control,
         \/ UNCHANGED page
         \/ \E verdict : page' = [page EXCEPT ![j].verdict = verdict]
  PROVE  LeaseInv'
<1>1. /\ page'[j].token = page[j].token /\ page'[j].control = page[j].control
      /\ \A i \in Jobs \ {j} : page'[i] = page[i]
  BY VerdictValues
<1>2. LeaseOK(j)'
  <2>1. ~Sealable(j)'
    BY LeaseTypes, VoidValues, SMT DEF Sealable, OpenPrep, HasPrep
  <2>2. QED
    BY <1>1, <2>1, LeaseTypes, SpendReplanValues, VoidValues, SMT
    DEF LeaseInv, LeaseOK, Leased, OpenPrep, HasPrep, PageHeld
<1>3. QED
  BY <1>1, <1>2, LeaseTypes, SpendReplanValues, VoidValues, LeaseFrame

LEMMA LeaseRecordConflict ==
  ASSUME LeaseInv, LifeInv', NEW j \in Jobs, Leased(j), RecordConflict(j), UNCHANGED control
  PROVE  LeaseInv'
  BY LeaseConflict DEF RecordConflict

LEMMA LeaseReserve ==
  ASSUME LeaseInv, LifeInv', NEW j \in Jobs, NEW t, NEW m, NEW n, NEW v, NEW r, NEW q,
         MayPrepare(j, t), Reserve(j, t, m, n, v, r, q), UNCHANGED <<job, page, control>>
  PROVE  LeaseInv'
<1> DEFINE p == [mode |-> m, token |-> t, gen |-> job[j].replan, note |-> n, rev |-> v,
                 res |-> r, control |-> page[j].control, replanned |-> q, status |-> "open"]
<1>1. prep'[j] = p /\ \A i \in Jobs \ {j} : prep'[i] = prep[i]
  BY LeaseTypes, Zenon DEF Reserve
<1>2. Leased(j) /\ job[j].token = t /\ PageHeld(j)
  BY DEF MayPrepare, LeaseHeld, PageAuthorized
<1>3. /\ p.status = "open" /\ p.token = t /\ p.gen = job[j].replan
      /\ p.control = page[j].control
  OBVIOUS
<1> HIDE DEF p
<1>4. LeaseOK(j)'
  BY <1>1, <1>2, <1>3, SMT DEF LeaseInv, LeaseOK, Leased, Sealable, OpenPrep, HasPrep, PageHeld
<1>5. QED
  BY <1>1, <1>4, LeaseFrame

LEMMA LeaseAppendReplan ==
  ASSUME LeaseInv, LifeInv', NEW j \in Jobs, NEW t, NEW n, NEW v, NEW r,
         PrepareAppendReplan(j, t, n, v, r)
  PROVE  LeaseInv'
<1> DEFINE p == [mode |-> "append", token |-> t, gen |-> 1, note |-> n,
                 rev |-> IF Appendable(n) THEN note[n].rev ELSE v,
                 res |-> NoReservation, control |-> NoControl,
                 replanned |-> [note |-> n, rev |-> v, res |-> r], status |-> "open"]
<1>1. prep' = [prep EXCEPT ![j] = p]
  BY DEF PrepareAppendReplan
<1>2. p.res = NoReservation /\ p.token = t /\ p.status = "open"
  OBVIOUS
<1> HIDE DEF p
<1>3. prep'[j] = p /\ \A i \in Jobs \ {j} : prep'[i] = prep[i]
  BY <1>1, LeaseTypes, Zenon
<1>4. job[j].token = t
  BY DEF PrepareAppendReplan, MayPrepareAppend, MayPrepare, LeaseHeld
<1>5. SpendReplan(j) /\ UNCHANGED <<page, control>>
  BY DEF PrepareAppendReplan
<1>6. LeaseOK(j)'
  BY <1>2, <1>3, <1>4, <1>5, LeaseTypes, SpendReplanValues, SMT
  DEF LeaseInv, LeaseOK, Leased, Sealable, OpenPrep, HasPrep, PageHeld
<1>7. QED
  BY <1>3, <1>5, <1>6, LeaseTypes, SpendReplanValues, LeaseFrame

LEMMA LeaseSucceed ==
  ASSUME LeaseInv, LifeInv', NEW j \in Jobs, NEW c, NEW n, Succeed(j, c, n),
         UNCHANGED <<page, control>>
  PROVE  LeaseInv'
<1>1. prep[j] \in PrepRow /\ "succeeded" \in JobState
  BY LeaseTypes DEF JobState
<1>2. prep'[j].status = "completed" /\ \A i \in Jobs \ {j} : prep'[i] = prep[i]
  BY <1>1, LeaseTypes, Zenon DEF Succeed, PrepRow
<1>3. ~Sealable(j)'
  BY <1>2 DEF Sealable, OpenPrep
<1>4. QED
  BY <1>1, <1>2, <1>3, LeaseEnd DEF Succeed

LEMMA LeaseRetry ==
  ASSUME LeaseInv, LifeInv', NEW j \in Jobs, Retry(j)
  PROVE  LeaseInv'
<1> DEFINE row == [Ended(j, "created") EXCEPT !.attempt = 0, !.replan = 0, !.retries = @ + 1]
<1>1. "created" \in JobState /\ Ended(j, "created") \in JobRow
  BY EndedRow, LeaseTypes DEF JobState
<1>2. row.state = "created" /\ row.token = 0
  BY <1>1, LeaseTypes, EndedValues, Zenon DEF JobRow
<1>3. job' = [job EXCEPT ![j] = row]
  BY DEF Retry
<1> HIDE DEF row
<1>4. /\ job'[j] = row /\ page'[j] = NoPage
      /\ \A i \in Jobs \ {j} : job'[i] = job[i] /\ page'[i] = page[i]
  BY <1>3, LeaseTypes, Zenon DEF Retry
<1>5. ~Sealable(j)' /\ \A i \in Jobs \ {j} : prep'[i] = prep[i]
  BY ClearedUnsealable DEF Retry
<1>6. LeaseOK(j)'
  BY <1>2, <1>4, <1>5, SMT DEF LeaseOK, Leased
<1>7. QED
  BY <1>4, <1>5, <1>6, LeaseFrame DEF Retry

LEMMA LeaseDelete ==
  ASSUME LeaseInv, LifeInv', NEW j \in Jobs, Delete(j)
  PROVE  LeaseInv'
<1>1. ~Sealable(j)' /\ \A i \in Jobs \ {j} : prep'[i] = prep[i] /\ page'[i] = page[i]
  BY ClearedUnsealable, LeaseTypes, Zenon DEF Delete
<1>2. CASE Active(j)
  <2>1. "failed" \in JobState \ {"running"}
    BY DEF JobState
  <2>2. QED
    BY <1>1, <1>2, <2>1, LeaseEnd DEF Delete
<1>3. CASE ~Active(j)
  <2>1. job'[j] = job[j] /\ \A i \in Jobs \ {j} : job'[i] = job[i]
    BY <1>3, LeaseTypes, Zenon DEF Delete
  <2>2. ~Leased(j)
    BY <1>3 DEF Active, Leased
  <2>3. LeaseOK(j)'
    BY <1>1, <2>1, <2>2, SMT DEF LeaseInv, LeaseOK, Leased
  <2>4. QED
    BY <1>1, <2>1, <2>3, LeaseFrame DEF Delete
<1>4. QED
  BY <1>2, <1>3

LEMMA LeasePurge ==
  ASSUME LeaseInv, LifeInv', NEW n \in Notes, Purge(n)
  PROVE  LeaseInv'
<1>1. ASSUME NEW i \in Jobs PROVE LeaseOK(i)'
  <2>1. LeaseOK(i)
    BY DEF LeaseInv
  <2>2. CASE control'[i] = control[i]
    BY <2>1, <2>2, SMT DEF Purge, LeaseOK, Leased, HasPrep, OpenPrep, PageHeld, Sealable
  <2>3. CASE control'[i] # control[i]
    <3>1. i \in Related(n)
      BY <2>3, Zenon DEF Purge, Related
    <3>2. ~Leased(i)
      BY <3>1 DEF Purge, Active, Leased
    <3>3. QED
      BY <2>1, <3>2, SMT DEF Purge, LeaseOK, Leased, HasPrep, OpenPrep, Sealable
  <2>4. QED
    BY <2>2, <2>3
<1>2. QED
  BY <1>1 DEF LeaseInv

\* Steps that touch neither jobs, preparations, pages nor controls.
LEMMA LeaseKept ==
  ASSUME LeaseInv, LifeInv', UNCHANGED <<job, prep, page, control>>
  PROVE  LeaseInv'
<1>1. ASSUME NEW i \in Jobs PROVE LeaseOK(i)'
  <2>1. LeaseOK(i)
    BY DEF LeaseInv
  <2>2. QED
    BY <2>1, SMT DEF LeaseOK, Leased, HasPrep, OpenPrep, PageHeld, Sealable
<1>2. QED
  BY <1>1 DEF LeaseInv

LEMMA LeaseInit == Init => LeaseInv
<1> SUFFICES ASSUME Init PROVE LeaseInv
  OBVIOUS
<1>1. ASSUME NEW j \in Jobs PROVE LeaseOK(j)
  BY SMT DEF Init, LeaseOK, Leased, HasPrep, OpenPrep, PageHeld, Sealable, NoPrep, NoPage
<1>2. QED
  BY <1>1, LifeInit DEF LeaseInv

LEMMA LeaseCommit ==
  ASSUME LeaseInv, LifeInv', NEW j \in Jobs, NEW t, Commit(j, t)
  PROVE  LeaseInv'
<1>1. CASE \E o \in Outcome : CommitRuleBroken(j, t, o)
  BY <1>1, LeaseConflict DEF CommitRuleBroken, MayCommit, LeaseHeld
<1>2. CASE \E o \in Outcome : CommitConflict(j, t, o)
  BY <1>2, LeaseRecordConflict DEF CommitConflict, ReachesHeartbeat, MayCommit, LeaseHeld
<1>3. CASE \E o \in Outcome : CommitTargetMoved(j, t, o)
  BY <1>3, LeaseConflict DEF CommitTargetMoved, PassesHeartbeat, ReachesHeartbeat, MayCommit,
                             LeaseHeld
<1>4. CASE CommitCreate(j, t)
  BY <1>4, LeaseSucceed DEF CommitCreate
<1>5. CASE CommitAppend(j, t)
  BY <1>5, LeaseSucceed DEF CommitAppend
<1>6. CASE CommitReview(j, t)
  BY <1>6, LeaseSucceed DEF CommitReview
<1>7. QED
  BY <1>1, <1>2, <1>3, <1>4, <1>5, <1>6 DEF Commit

LEMMA LeasePrepare ==
  ASSUME LeaseInv, LifeInv', NEW j \in Jobs, NEW t, NEW n, NEW v, NEW r,
         \/ PrepareCreate(j, t, r)
         \/ PrepareAppend(j, t, n, v, r)
         \/ PrepareAppendReplan(j, t, n, v, r)
         \/ PrepareAppendReview(j, t, n, v, r)
  PROVE  LeaseInv'
  BY LeaseReserve, LeaseAppendReplan
  DEF PrepareCreate, PrepareAppend, PrepareAppendReview, MayPrepareAppend

LEMMA LeaseStep == LeaseInv /\ [Next]_vars => LeaseInv'
<1> SUFFICES ASSUME LeaseInv, [Next]_vars PROVE LeaseInv'
  OBVIOUS
<1>1. LifeInv'
  BY LifeStep DEF LeaseInv
<1>2. CASE Owner
  <2>1. CASE \E n \in Notes, s \in OwnerStatuses : OwnerWrite(n, s)
    BY <1>1, <2>1, LeaseKept DEF OwnerWrite
  <2>2. QED
    BY <1>1, <1>2, <2>1, LeaseCapture, LeaseRetry, LeaseDelete, LeasePurge DEF Owner
<1>3. ASSUME NEW j \in Jobs, NEW t, Call(j, t) PROVE LeaseInv'
  <2>1. CASE \E S \in Listable(j) : List(j, t, S)
    BY <1>1, <2>1, LeaseList
  <2>2. CASE HeartbeatConflict(j, t)
    BY <1>1, <2>2, LeaseRecordConflict DEF HeartbeatConflict, LeaseHeld
  <2>3. CASE HeartbeatAuthorize(j, t)
    BY <1>1, <2>3, LeaseAuthorize
  <2>4. CASE \E r \in ReservationIds : PrepareCreate(j, t, r)
    BY <1>1, <2>4, LeasePrepare
  <2>5. CASE \E n \in Notes, r \in ReservationIds : \E v \in {page[j].cand[n].rev} :
               \/ PrepareAppend(j, t, n, v, r)
               \/ PrepareAppendReplan(j, t, n, v, r)
               \/ PrepareAppendReview(j, t, n, v, r)
    BY <1>1, <2>5, LeasePrepare
  <2>6. CASE Commit(j, t)
    BY <1>1, <2>6, LeaseCommit
  <2>7. CASE \E kind \in Failures : Fail(j, t, kind)
    BY <1>1, <2>7, LeaseFail
  <2>8. QED
    BY <1>3, <2>1, <2>2, <2>3, <2>4, <2>5, <2>6, <2>7 DEF Call
<1>4. CASE \E j \in Jobs : Service(j)
  BY <1>1, <1>3, <1>4, LeaseClaim, LeaseExpire, LeaseRecover DEF Service
<1>5. CASE UNCHANGED vars
  BY <1>1, <1>5, LeaseKept DEF vars
<1>6. QED
  BY <1>2, <1>4, <1>5 DEF Next

\* A lease token is current exactly while its job runs, and the open
\* preparation is under it, so burning its reservations is never refused.
THEOREM BurnAccepted == Spec => []BurnNeverRefused
<1>1. LeaseInv => BurnNeverRefused
  BY LeaseParts
<1>2. QED
  BY <1>1, LeaseInit, LeaseStep, PTL DEF Spec

\* A preparation that can be sealed was made after the job's last conflict and
\* under the controls its capture still has.
THEOREM SealedAfterConflict == Spec => []PreparedAfterLastConflict
<1>1. LeaseInv => PreparedAfterLastConflict
  BY LeaseParts
<1>2. QED
  BY <1>1, LeaseInit, LeaseStep, PTL DEF Spec

\* No lease sees its capture's controls change.
THEOREM ControlsStayPinned == Spec => []ControlsPinned
<1>1. LeaseInv => ControlsPinned
  BY LeaseParts
<1>2. QED
  BY <1>1, LeaseInit, LeaseStep, PTL DEF Spec

-----------------------------------------------------------------------------
(* Third layer: reservations.  Held ones and sealable preparations are in  *)
(* one-to-one correspondence.                                              *)

HeldIsSealable ==
  \A r \in ReservationIds : reservation[r] = "held" =>
    \E j \in Jobs : Sealable(j) /\ prep[j].res = r
SealInv == LeaseInv /\ SealedUnderHeld /\ HeldIsSealable /\ ReservationUnshared

LEMMA SealParts == SealInv => NoOrphanReservation
  BY DEF SealInv, LeaseInv, LeaseOK, HeldIsSealable, NoOrphanReservation, Sealable

LEMMA SealTypes ==
  ASSUME SealInv
  PROVE  /\ reservation \in [ReservationIds -> Use] /\ prep \in [Jobs -> PrepRow]
         /\ TypeInv /\ LeaseInv
         /\ \A j \in Jobs : Sealable(j) => prep[j].res \in ReservationIds
<1>1. /\ reservation \in [ReservationIds -> Use] /\ prep \in [Jobs -> PrepRow]
      /\ TypeInv /\ LeaseInv
  BY DEF SealInv, LeaseInv, LifeInv, TypeInv, TypeOK, Use
<1>2. \A j \in Jobs : Sealable(j) => prep[j].res \in ReservationIds
  BY <1>1, SMT DEF Sealable, PrepRow
<1>3. QED
  BY <1>1, <1>2

\* Steps that reserve and burn nothing.
LEMMA SealKept ==
  ASSUME SealInv, LeaseInv', UNCHANGED reservation,
         \A i \in Jobs : Sealable(i)' <=> Sealable(i),
         \A i \in Jobs : Sealable(i) => prep'[i].res = prep[i].res
  PROVE  SealInv'
<1>1. SealedUnderHeld'
  BY DEF SealInv, SealedUnderHeld, Sealable
<1>2. HeldIsSealable'
  BY DEF SealInv, HeldIsSealable
<1>3. ReservationUnshared'
  BY DEF SealInv, ReservationUnshared, Sealable
<1>4. QED
  BY <1>1, <1>2, <1>3 DEF SealInv

\* A job's reservation is burned and its preparation cannot be sealed.
LEMMA SealBurned ==
  ASSUME SealInv, LeaseInv', NEW j \in Jobs, reservation' = Burned(j), ~Sealable(j)',
         \A i \in Jobs \ {j} : prep'[i] = prep[i]
  PROVE  SealInv'
<1>1. \A i \in Jobs \ {j} : (Sealable(i)' <=> Sealable(i)) /\ prep'[i].res = prep[i].res
  BY DEF Sealable, OpenPrep, HasPrep
<1>2. \A r \in ReservationIds :
        reservation'[r] = IF OpenPrep(j) /\ r = prep[j].res THEN "spent" ELSE reservation[r]
  BY Zenon DEF Burned
<1>3. SealedUnderHeld'
  <2> SUFFICES ASSUME NEW i \in Jobs, Sealable(i)'
               PROVE  reservation'[prep'[i].res] = "held"
    BY DEF SealedUnderHeld, Sealable
  <2>1. i # j /\ Sealable(i) /\ prep'[i].res = prep[i].res
    BY <1>1
  <2>2. prep[i].res \in ReservationIds /\ reservation[prep[i].res] = "held"
    BY <2>1, SealTypes DEF SealInv, SealedUnderHeld, Sealable
  <2>3. ~(OpenPrep(j) /\ prep[i].res = prep[j].res)
    BY <2>1 DEF SealInv, ReservationUnshared, Sealable
  <2>4. QED
    BY <1>2, <2>1, <2>2, <2>3
<1>4. HeldIsSealable'
  <2> SUFFICES ASSUME NEW r \in ReservationIds, reservation'[r] = "held"
               PROVE  \E i \in Jobs : Sealable(i)' /\ prep'[i].res = r
    BY DEF HeldIsSealable
  <2>1. reservation[r] = "held" /\ ~(OpenPrep(j) /\ r = prep[j].res)
    BY <1>2
  <2>2. PICK i \in Jobs : Sealable(i) /\ prep[i].res = r
    BY <2>1 DEF SealInv, HeldIsSealable
  <2>3. i # j
    BY <2>1, <2>2 DEF Sealable
  <2>4. QED
    BY <1>1, <2>2, <2>3
<1>5. ReservationUnshared'
  <2> SUFFICES ASSUME NEW i \in Jobs, NEW k \in Jobs, Sealable(i)', Sealable(k)',
                      prep'[i].res = prep'[k].res
               PROVE  i = k
    BY DEF ReservationUnshared, Sealable
  <2>1. Sealable(i) /\ Sealable(k) /\ prep[i].res = prep[k].res
    BY <1>1
  <2>2. QED
    BY <2>1 DEF SealInv, ReservationUnshared, Sealable
<1>6. QED
  BY <1>3, <1>4, <1>5 DEF SealInv

\* A fresh reservation replaces whatever the job held.
LEMMA SealReserved ==
  ASSUME SealInv, LeaseInv', NEW j \in Jobs, NEW t, NEW m, NEW n, NEW v,
         NEW r \in ReservationIds, NEW q, m # "none", Reserve(j, t, m, n, v, r, q)
  PROVE  SealInv'
<1> DEFINE p == [mode |-> m, token |-> t, gen |-> job[j].replan, note |-> n, rev |-> v,
                 res |-> r, control |-> page[j].control, replanned |-> q, status |-> "open"]
<1>1. prep'[j] = p /\ \A i \in Jobs \ {j} : prep'[i] = prep[i]
  BY SealTypes, Zenon DEF Reserve
<1>2. p.mode = m /\ p.res = r /\ p.status = "open" /\ r # NoReservation
  BY NullAssumption
<1> HIDE DEF p
<1>3. prep'[j].res = r /\ \A i \in Jobs \ {j} : (Sealable(i)' <=> Sealable(i))
                                                /\ prep'[i].res = prep[i].res
  BY <1>1, <1>2 DEF Sealable, OpenPrep, HasPrep
<1>4. Sealable(j)'
  BY <1>1, <1>2 DEF Sealable, OpenPrep, HasPrep
<1>5. \A s \in ReservationIds :
        reservation'[s] = IF s = r THEN "held"
                          ELSE IF OpenPrep(j) /\ s = prep[j].res THEN "spent" ELSE reservation[s]
  BY Zenon DEF Reserve, Burned
<1>6. reservation[r] = "free"
  BY DEF Reserve
<1>7. SealedUnderHeld'
  <2> SUFFICES ASSUME NEW i \in Jobs, Sealable(i)'
               PROVE  reservation'[prep'[i].res] = "held"
    BY DEF SealedUnderHeld, Sealable
  <2>1. CASE i = j
    BY <1>3, <1>5, <2>1
  <2>2. CASE i # j
    <3>1. Sealable(i) /\ prep'[i].res = prep[i].res
      BY <1>3, <2>2
    <3>2. prep[i].res \in ReservationIds /\ reservation[prep[i].res] = "held"
      BY <3>1, SealTypes DEF SealInv, SealedUnderHeld, Sealable
    <3>3. ~(OpenPrep(j) /\ prep[i].res = prep[j].res)
      BY <2>2, <3>1 DEF SealInv, ReservationUnshared, Sealable
    <3>4. QED
      BY <1>5, <3>1, <3>2, <3>3
  <2>3. QED
    BY <2>1, <2>2
<1>8. HeldIsSealable'
  <2> SUFFICES ASSUME NEW s \in ReservationIds, reservation'[s] = "held"
               PROVE  \E i \in Jobs : Sealable(i)' /\ prep'[i].res = s
    BY DEF HeldIsSealable
  <2>1. CASE s = r
    BY <1>3, <1>4, <2>1
  <2>2. CASE s # r
    <3>1. reservation[s] = "held" /\ ~(OpenPrep(j) /\ s = prep[j].res)
      BY <1>5, <2>2
    <3>2. PICK i \in Jobs : Sealable(i) /\ prep[i].res = s
      BY <3>1 DEF SealInv, HeldIsSealable
    <3>3. i # j
      BY <3>1, <3>2 DEF Sealable
    <3>4. QED
      BY <1>3, <3>2, <3>3
  <2>3. QED
    BY <2>1, <2>2
<1>9. ReservationUnshared'
  <2> SUFFICES ASSUME NEW i \in Jobs, NEW k \in Jobs, Sealable(i)', Sealable(k)',
                      prep'[i].res = prep'[k].res
               PROVE  i = k
    BY DEF ReservationUnshared, Sealable
  <2>1. \A l \in Jobs \ {j} : Sealable(l)' => prep'[l].res # r
    BY <1>3, <1>6 DEF SealInv, SealedUnderHeld, Sealable
  <2>2. QED
    BY <1>3, <2>1 DEF SealInv, ReservationUnshared, Sealable
<1>10. QED
  BY <1>7, <1>8, <1>9 DEF SealInv

LEMMA SealUntouched ==
  ASSUME SealInv, LeaseInv', UNCHANGED <<prep, reservation>>
  PROVE  SealInv'
  BY SealKept DEF Sealable, OpenPrep, HasPrep

LEMMA SealClaim ==
  ASSUME SealInv, LeaseInv', NEW j \in Jobs, Claim(j)
  PROVE  SealInv'
<1>1. prep'[j] = Rebound(j) /\ \A i \in Jobs \ {j} : prep'[i] = prep[i]
  BY SealTypes, Zenon DEF Claim
<1>2. \A i \in Jobs : (Sealable(i)' <=> Sealable(i)) /\ prep'[i].res = prep[i].res
  BY <1>1, SealTypes, ReboundValues DEF Sealable, OpenPrep, HasPrep
<1>3. QED
  BY <1>2, SealKept DEF Claim

LEMMA SealRelease ==
  ASSUME SealInv, LeaseInv', NEW j \in Jobs, ReleasePreparation(j)
  PROVE  SealInv'
<1>1. ~Sealable(j)' /\ \A i \in Jobs \ {j} : prep'[i] = prep[i]
  BY SealTypes, ClearedUnsealable DEF ReleasePreparation
<1>2. QED
  BY <1>1, SealBurned DEF ReleasePreparation

LEMMA SealVoid ==
  ASSUME SealInv, LeaseInv', NEW j \in Jobs, NEW v, NEW q, VoidPreparation(j, v, q)
  PROVE  SealInv'
<1>1. ~Sealable(j)' /\ \A i \in Jobs \ {j} : prep'[i] = prep[i]
  BY SealTypes, VoidValues DEF Sealable, OpenPrep, HasPrep
<1>2. QED
  BY <1>1, SealTypes, VoidValues, SealBurned

LEMMA SealAppendReplan ==
  ASSUME SealInv, LeaseInv', NEW j \in Jobs, NEW t, NEW n, NEW v, NEW r,
         PrepareAppendReplan(j, t, n, v, r)
  PROVE  SealInv'
<1> DEFINE p == [mode |-> "append", token |-> t, gen |-> 1, note |-> n,
                 rev |-> IF Appendable(n) THEN note[n].rev ELSE v,
                 res |-> NoReservation, control |-> NoControl,
                 replanned |-> [note |-> n, rev |-> v, res |-> r], status |-> "open"]
<1>1. prep' = [prep EXCEPT ![j] = p]
  BY DEF PrepareAppendReplan
<1>2. p.res = NoReservation
  OBVIOUS
<1> HIDE DEF p
<1>3. ~Sealable(j)' /\ \A i \in Jobs \ {j} : prep'[i] = prep[i]
  BY <1>1, <1>2, SealTypes DEF Sealable
<1>4. QED
  BY <1>3, SealBurned DEF PrepareAppendReplan

LEMMA SealPrepare ==
  ASSUME SealInv, LeaseInv', NEW j \in Jobs, NEW t, NEW n, NEW v, NEW r \in ReservationIds,
         \/ PrepareCreate(j, t, r)
         \/ PrepareAppend(j, t, n, v, r)
         \/ PrepareAppendReplan(j, t, n, v, r)
         \/ PrepareAppendReview(j, t, n, v, r)
  PROVE  SealInv'
  BY SealReserved, SealAppendReplan DEF PrepareCreate, PrepareAppend, PrepareAppendReview

LEMMA SealSucceed ==
  ASSUME SealInv, LeaseInv', NEW j \in Jobs, NEW c, NEW n, Succeed(j, c, n)
  PROVE  SealInv'
<1>1. prep[j] \in PrepRow
  BY SealTypes
<1>2. prep'[j].status = "completed" /\ \A i \in Jobs \ {j} : prep'[i] = prep[i]
  BY <1>1, SealTypes, Zenon DEF Succeed, PrepRow
<1>3. ~Sealable(j)'
  BY <1>2 DEF Sealable, OpenPrep
<1>4. QED
  BY <1>2, <1>3, SealBurned DEF Succeed

\* Where no lease runs there is nothing to burn.
LEMMA SealClearedUnleased ==
  ASSUME SealInv, LeaseInv', NEW j \in Jobs, ~Leased(j), UNCHANGED reservation,
         prep' = [prep EXCEPT ![j] = Cleared(j)]
  PROVE  SealInv'
<1>1. ~Sealable(j)' /\ \A i \in Jobs \ {j} : prep'[i] = prep[i]
  BY SealTypes, ClearedUnsealable
<1>2. ~Sealable(j)
  BY DEF SealInv, LeaseInv, LeaseOK
<1>3. QED
  BY <1>1, <1>2, SealKept DEF Sealable, OpenPrep, HasPrep

LEMMA SealDelete ==
  ASSUME SealInv, LeaseInv', NEW j \in Jobs, Delete(j)
  PROVE  SealInv'
<1>1. CASE Leased(j)
  <2>1. ~Sealable(j)' /\ \A i \in Jobs \ {j} : prep'[i] = prep[i]
    BY SealTypes, ClearedUnsealable DEF Delete
  <2>2. QED
    BY <1>1, <2>1, SealBurned DEF Delete
<1>2. CASE ~Leased(j)
  BY <1>2, SealClearedUnleased DEF Delete
<1>3. QED
  BY <1>1, <1>2

LEMMA SealRetry ==
  ASSUME SealInv, LeaseInv', NEW j \in Jobs, Retry(j)
  PROVE  SealInv'
  BY SealClearedUnleased DEF Retry, Leased

LEMMA SealInit == Init => SealInv
<1> SUFFICES ASSUME Init PROVE SealInv
  OBVIOUS
<1>1. SealedUnderHeld /\ HeldIsSealable /\ ReservationUnshared
  BY SMT DEF Init, NoPrep, SealedUnderHeld, HeldIsSealable, ReservationUnshared, OpenPrep, HasPrep
<1>2. QED
  BY <1>1, LeaseInit DEF SealInv

LEMMA SealCommit ==
  ASSUME SealInv, LeaseInv', NEW j \in Jobs, NEW t, Commit(j, t)
  PROVE  SealInv'
<1>1. CASE \E o \in Outcome : CommitRuleBroken(j, t, o)
  BY <1>1, SealVoid DEF CommitRuleBroken
<1>2. CASE \E o \in Outcome : CommitConflict(j, t, o)
  BY <1>2, SealVoid DEF CommitConflict, RecordConflict
<1>3. CASE \E o \in Outcome : CommitTargetMoved(j, t, o)
  BY <1>3, SealVoid DEF CommitTargetMoved
<1>4. CASE CommitCreate(j, t) \/ CommitAppend(j, t) \/ CommitReview(j, t)
  BY <1>4, SealSucceed DEF CommitCreate, CommitAppend, CommitReview
<1>5. QED
  BY <1>1, <1>2, <1>3, <1>4 DEF Commit

LEMMA SealStep == SealInv /\ [Next]_vars => SealInv'
<1> SUFFICES ASSUME SealInv, [Next]_vars PROVE SealInv'
  OBVIOUS
<1>1. LeaseInv'
  BY LeaseStep DEF SealInv
<1>2. CASE Owner
  <2>1. CASE \E j \in Jobs, c \in Controls : Capture(j, c)
    BY <1>1, <2>1, SealUntouched DEF Capture
  <2>2. CASE \E n \in Notes, s \in OwnerStatuses : OwnerWrite(n, s)
    BY <1>1, <2>2, SealUntouched DEF OwnerWrite
  <2>3. CASE \E n \in Notes : Purge(n)
    BY <1>1, <2>3, SealUntouched DEF Purge
  <2>4. QED
    BY <1>1, <1>2, <2>1, <2>2, <2>3, SealRetry, SealDelete DEF Owner
<1>3. ASSUME NEW j \in Jobs, NEW t, Call(j, t) PROVE SealInv'
  <2>1. CASE \E S \in Listable(j) : List(j, t, S)
    BY <1>1, <2>1, SealUntouched DEF List
  <2>2. CASE HeartbeatConflict(j, t)
    BY <1>1, <2>2, SealVoid DEF HeartbeatConflict, RecordConflict
  <2>3. CASE HeartbeatAuthorize(j, t)
    BY <1>1, <2>3, SealUntouched DEF HeartbeatAuthorize
  <2>4. CASE \E r \in ReservationIds : PrepareCreate(j, t, r)
    BY <1>1, <2>4, SealPrepare
  <2>5. CASE \E n \in Notes, r \in ReservationIds : \E v \in {page[j].cand[n].rev} :
               \/ PrepareAppend(j, t, n, v, r)
               \/ PrepareAppendReplan(j, t, n, v, r)
               \/ PrepareAppendReview(j, t, n, v, r)
    BY <1>1, <2>5, SealPrepare
  <2>6. CASE Commit(j, t)
    BY <1>1, <2>6, SealCommit
  <2>7. CASE \E kind \in Failures : Fail(j, t, kind)
    BY <1>1, <2>7, SealRelease DEF Fail
  <2>8. QED
    BY <1>3, <2>1, <2>2, <2>3, <2>4, <2>5, <2>6, <2>7 DEF Call
<1>4. ASSUME NEW j \in Jobs, Service(j) PROVE SealInv'
  <2>1. CASE Expire(j)
    BY <1>1, <2>1, SealUntouched DEF Expire
  <2>2. CASE Recover(j)
    BY <1>1, <2>2, SealRelease DEF Recover
  <2>3. QED
    BY <1>1, <1>3, <1>4, <2>1, <2>2, SealClaim DEF Service
<1>5. CASE UNCHANGED vars
  BY <1>1, <1>5, SealUntouched DEF vars
<1>6. QED
  BY <1>2, <1>4, <1>5 DEF Next

\* No reservation outlives the lease that may seal under it.
THEOREM NoReservationOrphaned == Spec => []NoOrphanReservation
<1>1. SealInv => NoOrphanReservation
  BY SealParts
<1>2. QED
  BY <1>1, SealInit, SealStep, PTL DEF Spec

\* No two jobs hold one reservation.
THEOREM ReservationsUnshared == Spec => []ReservationUnshared
<1>1. SealInv => ReservationUnshared
  BY DEF SealInv
<1>2. QED
  BY <1>1, SealInit, SealStep, PTL DEF Spec

\* The reservations under a lease are its own: nobody else's lease ends on
\* them, and its own end burns them all.
THEOREM ReservationsOwned == Spec => []LeaseOwnsReservations
<1>1. SealInv => LeaseOwnsReservations
  <2> SUFFICES ASSUME SealInv PROVE LeaseOwnsReservations
    OBVIOUS
  <2>1. NoOrphanReservation
    BY SealParts
  <2>2. BurnNeverRefused
    BY LeaseParts DEF SealInv
  <2>3. QED
    BY <2>1, <2>2 DEF SealInv, LeaseOwnsReservations
<1>2. QED
  BY <1>1, SealInit, SealStep, PTL DEF Spec

\* What the invariants above rest on holds of every reachable state.
THEOREM RestsOn == Spec => []Strengthening
<1>1. SealInv => Strengthening
  BY LifeParts DEF SealInv, LeaseInv, Strengthening
<1>2. QED
  BY <1>1, SealInit, SealStep, PTL DEF Spec

-----------------------------------------------------------------------------
(* Fourth layer: where captures are filed.                                 *)

FiledOK(j) ==
  /\ control[j].kind # "none" /\ linked[j] # NoNote /\ capture[j] = "organized"
       => linked[j] = control[j].note
  /\ linked[j] # NoNote => note[linked[j]].status # "absent"
  /\ control[j].kind = "explicit" => note[control[j].note].status # "absent"
FileInv == SealInv /\ \A j \in Jobs : FiledOK(j)

LEMMA FileParts == FileInv => DestinationRespected /\ NoDanglingNote
  BY Zenon DEF FileInv, FiledOK, DestinationRespected, NoDanglingNote

LEMMA FileTypes ==
  ASSUME FileInv
  PROVE  /\ TypeInv /\ LifeInv /\ LeaseInv
         /\ control \in [Jobs -> Controls] /\ capture \in [Jobs -> CaptureStatus]
         /\ note \in [Notes -> NoteRow] /\ linked \in [Jobs -> Notes \cup {NoNote}]
         /\ prep \in [Jobs -> PrepRow]
         /\ \A j \in Jobs : control[j].kind = "explicit" => control[j].note \in Notes
<1>1. /\ TypeInv /\ LifeInv /\ LeaseInv
      /\ control \in [Jobs -> Controls] /\ capture \in [Jobs -> CaptureStatus]
      /\ note \in [Notes -> NoteRow] /\ linked \in [Jobs -> Notes \cup {NoNote}]
      /\ prep \in [Jobs -> PrepRow]
  BY DEF FileInv, SealInv, LeaseInv, LifeInv, TypeInv, TypeOK
<1>2. \A j \in Jobs : control[j].kind = "explicit" => control[j].note \in Notes
  BY <1>1, SMT DEF Controls
<1>3. QED
  BY <1>1, <1>2

\* Steps that file nothing, pin nothing and destroy nothing.
LEMMA FileKept ==
  ASSUME FileInv, SealInv', UNCHANGED control,
         \A i \in Jobs : linked'[i] = linked[i] \/ linked'[i] = NoNote,
         \A i \in Jobs : capture'[i] = "organized" => capture[i] = "organized",
         \A n \in Notes : note[n].status # "absent" => note'[n].status # "absent"
  PROVE  FileInv'
<1>1. ASSUME NEW i \in Jobs PROVE FiledOK(i)'
  <2>1. FiledOK(i) /\ linked[i] \in Notes \cup {NoNote}
    BY FileTypes DEF FileInv
  <2>2. QED
    BY <2>1, FileTypes DEF FiledOK
<1>2. QED
  BY <1>1 DEF FileInv

LEMMA FileRelease ==
  ASSUME FileInv, SealInv', NEW j \in Jobs,
         \/ Requeue(j)
         \/ \E s \in {"failed", "dead_letter"}, c \in {"failed", "inbox"} : GiveUp(j, s, c),
         UNCHANGED <<control, linked, note>>
  PROVE  FileInv'
<1>1. \A i \in Jobs : capture'[i] = "organized" => capture[i] = "organized"
  BY FileTypes, SMT DEF Requeue, GiveUp
<1>2. QED
  BY <1>1, FileKept

LEMMA FileCapture ==
  ASSUME FileInv, SealInv', NEW j \in Jobs, NEW c \in Controls, Capture(j, c)
  PROVE  FileInv'
<1>1. /\ capture'[j] = "queued" /\ control'[j] = c
      /\ \A i \in Jobs \ {j} : capture'[i] = capture[i] /\ control'[i] = control[i]
  BY FileTypes, Zenon DEF Capture
<1>2. linked[j] = NoNote
  BY FileTypes DEF LifeInv, LifeOK, LifeOf, Capture
<1>3. ASSUME NEW i \in Jobs PROVE FiledOK(i)'
  <2>1. CASE i = j
    BY <1>1, <1>2, <2>1 DEF FiledOK, Capture
  <2>2. CASE i # j
    BY <1>1, <2>2 DEF FileInv, FiledOK, Capture
  <2>3. QED
    BY <2>1, <2>2
<1>4. QED
  BY <1>3 DEF FileInv

\* A publication in the note n the owner's controls admit.
LEMMA FileSucceed ==
  ASSUME FileInv, SealInv', NEW j \in Jobs, NEW c \in CaptureStatus,
         NEW n \in Notes \cup {NoNote}, Succeed(j, c, n), UNCHANGED control,
         \A m \in Notes : note[m].status # "absent" => note'[m].status # "absent",
         n # NoNote => note'[n].status # "absent",
         c = "organized" /\ control[j].kind # "none" => n = control[j].note
  PROVE  FileInv'
<1>1. /\ capture'[j] = c /\ linked'[j] = n
      /\ \A i \in Jobs \ {j} : capture'[i] = capture[i] /\ linked'[i] = linked[i]
  BY FileTypes, Zenon DEF Succeed
<1>2. ASSUME NEW i \in Jobs PROVE FiledOK(i)'
  <2>1. FiledOK(i) /\ linked[i] \in Notes \cup {NoNote}
    BY FileTypes DEF FileInv
  <2>2. CASE i = j
    BY <1>1, <2>1, <2>2, FileTypes DEF FiledOK
  <2>3. CASE i # j
    BY <1>1, <2>1, <2>3, FileTypes DEF FiledOK
  <2>4. QED
    BY <2>2, <2>3
<1>3. QED
  BY <1>2 DEF FileInv

\* What a publication other than a Review knows of the owner's controls.
LEMMA FileTarget ==
  ASSUME FileInv, NEW j \in Jobs, NEW t, NEW o, o # "review", Publishable(j, t, o),
         control[j].kind # "none"
  PROVE  prep[j].mode = "append" /\ prep[j].note = control[j].note
<1>1. prep[j].control = control[j]
  BY PublishableOpen, FileTypes DEF LeaseInv, LeaseOK, Sealable
<1>2. control[j].kind \in {"explicit", "rule"}
  BY FileTypes, SMT DEF Controls
<1>3. ~RuleBroken(j)
  BY DEF Publishable, PassesHeartbeat, ReachesHeartbeat
<1>4. CASE control[j].kind = "explicit"
  BY <1>1, <1>4 DEF Publishable
<1>5. CASE control[j].kind = "rule"
  BY <1>1, <1>3, <1>5 DEF RuleBroken
<1>6. QED
  BY <1>2, <1>4, <1>5

LEMMA FileCommit ==
  ASSUME FileInv, SealInv', NEW j \in Jobs, NEW t, Commit(j, t)
  PROVE  FileInv'
<1>1. CASE \E o \in Outcome : \/ CommitRuleBroken(j, t, o)
                              \/ CommitConflict(j, t, o)
                              \/ CommitTargetMoved(j, t, o)
  BY <1>1, FileKept DEF CommitRuleBroken, CommitConflict, CommitTargetMoved
<1>2. CASE CommitCreate(j, t)
  <2>1. Publishable(j, t, "created") /\ prep[j].note \in Notes /\ prep[j].mode = "create"
    BY <1>2, FileTypes, PublishableOpen DEF CommitCreate
  <2>2. control[j].kind = "none"
    BY <2>1, FileTarget
  <2>3. /\ note'[prep[j].note].status = "open"
        /\ \A m \in Notes \ {prep[j].note} : note'[m] = note[m]
    BY <1>2, <2>1, FileTypes, SMT DEF CommitCreate
  <2>4. "organized" \in CaptureStatus
    BY DEF CaptureStatus
  <2>5. \A m \in Notes : note[m].status # "absent" => note'[m].status # "absent"
    BY <2>3
  <2>6. QED
    BY <1>2, <2>1, <2>2, <2>3, <2>4, <2>5, FileSucceed DEF CommitCreate
<1>3. CASE CommitAppend(j, t)
  <2>1. Publishable(j, t, "appended") /\ prep[j].note \in Notes
    BY <1>3, FileTypes, PublishableOpen DEF CommitAppend
  <2>2. control[j].kind # "none" => prep[j].note = control[j].note
    BY <2>1, FileTarget
  <2>3. \A m \in Notes : note'[m].status = note[m].status
    <3>1. note[prep[j].note] \in NoteRow
      BY <2>1, FileTypes
    <3>2. QED
      BY <1>3, <2>1, <3>1, FileTypes, Zenon DEF CommitAppend, NoteRow
  <2>4. note[prep[j].note].status = "open" /\ "organized" \in CaptureStatus
    BY <1>3 DEF CommitAppend, TargetCurrent, Appendable, CaptureStatus
  <2>5. QED
    BY <1>3, <2>1, <2>2, <2>3, <2>4, FileSucceed DEF CommitAppend
<1>4. CASE CommitReview(j, t)
  <2> DEFINE n == IF prep[j].mode = "append" /\ Appendable(prep[j].note)
                  THEN prep[j].note ELSE NoNote
  <2>1. Publishable(j, t, "review") /\ prep[j].note \in Notes
    BY <1>4, FileTypes, PublishableOpen DEF CommitReview
  <2>2. Succeed(j, "needs_review", n) /\ UNCHANGED <<control, page, note>>
    BY <1>4 DEF CommitReview
  <2>3. n \in Notes \cup {NoNote} /\ (n # NoNote => note[n].status # "absent")
        /\ "needs_review" \in CaptureStatus
    BY <2>1 DEF Appendable, CaptureStatus
  <2> HIDE DEF n
  <2>4. QED
    BY <2>2, <2>3, FileSucceed
<1>5. QED
  BY <1>1, <1>2, <1>3, <1>4 DEF Commit

LEMMA FilePurge ==
  ASSUME FileInv, SealInv', NEW n \in Notes, Purge(n)
  PROVE  FileInv'
<1>1. ASSUME NEW i \in Jobs PROVE FiledOK(i)'
  <2>1. FiledOK(i) /\ linked[i] \in Notes \cup {NoNote}
    BY FileTypes DEF FileInv
  <2>2. /\ linked'[i] = (IF linked[i] = n THEN NoNote ELSE linked[i])
        /\ control'[i] = (IF control[i].kind = "explicit" /\ control[i].note = n
                          THEN NoControl ELSE control[i])
        /\ capture'[i] = "organized" => capture[i] = "organized"
    BY Zenon DEF Purge
  <2>3. \A m \in Notes \ {n} : note'[m] = note[m]
    BY FileTypes, Zenon DEF Purge
  <2>4. NoControl.kind = "none"
    BY DEF NoControl
  <2>5. QED
    BY <2>1, <2>2, <2>3, <2>4, FileTypes DEF FiledOK
<1>2. QED
  BY <1>1 DEF FileInv

LEMMA FileOwnerWrite ==
  ASSUME FileInv, SealInv', NEW n \in Notes, NEW s \in OwnerStatuses, OwnerWrite(n, s)
  PROVE  FileInv'
<1>1. s # "absent"
  BY StatusAssumption
<1>2. \A m \in Notes : note[m].status # "absent" => note'[m].status # "absent"
  BY <1>1, FileTypes, SMT DEF OwnerWrite
<1>3. QED
  BY <1>2, FileKept DEF OwnerWrite

LEMMA FileInit == Init => FileInv
<1> SUFFICES ASSUME Init PROVE FileInv
  OBVIOUS
<1>1. \A j \in Jobs : FiledOK(j)
  BY SMT DEF Init, FiledOK, NoControl
<1>2. QED
  BY <1>1, SealInit DEF FileInv

LEMMA FileStep == FileInv /\ [Next]_vars => FileInv'
<1> SUFFICES ASSUME FileInv, [Next]_vars PROVE FileInv'
  OBVIOUS
<1>1. SealInv'
  BY SealStep DEF FileInv
<1>2. ASSUME NEW j \in Jobs, Retry(j) \/ Delete(j) \/ Claim(j) PROVE FileInv'
  <2>1. \A i \in Jobs : capture'[i] = "organized" => capture[i] = "organized"
    BY <1>2, FileTypes, SMT DEF Retry, Delete, Claim
  <2>2. \A i \in Jobs : linked'[i] = linked[i] \/ linked'[i] = NoNote
    BY <1>2, FileTypes, SMT DEF Retry, Delete, Claim
  <2>3. UNCHANGED <<control, note>>
    BY <1>2 DEF Retry, Delete, Claim
  <2>4. QED
    BY <1>1, <2>1, <2>2, <2>3, FileKept
<1>3. CASE Owner
  BY <1>1, <1>2, <1>3, FileCapture, FileOwnerWrite, FilePurge DEF Owner
<1>4. ASSUME NEW j \in Jobs, NEW t, Call(j, t) PROVE FileInv'
  <2>1. CASE \/ \E S \in Listable(j) : List(j, t, S)
             \/ HeartbeatConflict(j, t) \/ HeartbeatAuthorize(j, t)
    BY <1>1, <2>1, FileKept DEF List, HeartbeatConflict, HeartbeatAuthorize
  <2>2. CASE \E r \in ReservationIds : PrepareCreate(j, t, r)
    BY <1>1, <2>2, FileKept DEF PrepareCreate
  <2>3. CASE \E n \in Notes, r \in ReservationIds : \E v \in {page[j].cand[n].rev} :
               \/ PrepareAppend(j, t, n, v, r)
               \/ PrepareAppendReplan(j, t, n, v, r)
               \/ PrepareAppendReview(j, t, n, v, r)
    BY <1>1, <2>3, FileKept DEF PrepareAppend, PrepareAppendReplan, PrepareAppendReview
  <2>4. CASE Commit(j, t)
    BY <1>1, <2>4, FileCommit
  <2>5. CASE \E kind \in Failures : Fail(j, t, kind)
    BY <1>1, <2>5, FileRelease DEF Fail
  <2>6. QED
    BY <1>4, <2>1, <2>2, <2>3, <2>4, <2>5 DEF Call
<1>5. ASSUME NEW j \in Jobs, Service(j) PROVE FileInv'
  <2>1. CASE Expire(j)
    BY <1>1, <2>1, FileKept DEF Expire
  <2>2. CASE Recover(j)
    BY <1>1, <2>2, FileRelease DEF Recover
  <2>3. QED
    BY <1>2, <1>4, <1>5, <2>1, <2>2 DEF Service
<1>6. CASE UNCHANGED vars
  BY <1>1, <1>6, FileKept DEF vars
<1>7. QED
  BY <1>3, <1>5, <1>6 DEF Next

\* A capture whose owner pinned its destination is filed nowhere else.
THEOREM DestinationAlwaysRespected == Spec => []DestinationRespected
<1>1. FileInv => DestinationRespected
  BY FileParts
<1>2. QED
  BY <1>1, FileInit, FileStep, PTL DEF Spec

\* No capture names a note that retention destroyed.
THEOREM NoNoteDangles == Spec => []NoDanglingNote
<1>1. FileInv => NoDanglingNote
  BY FileParts
<1>2. QED
  BY <1>1, FileInit, FileStep, PTL DEF Spec

-----------------------------------------------------------------------------
(* Reservations.                                                           *)

\* A step burns the reservations of one job, or burns them and holds a free one.
Burns(j) == reservation' = Burned(j)
Holds(j) == \E r \in ReservationIds :
  reservation[r] = "free" /\ reservation' = [Burned(j) EXCEPT ![r] = "held"]

LEMMA BurnedForward ==
  ASSUME NEW j \in Jobs, NEW r \in ReservationIds
  PROVE  /\ reservation[r] = "spent" => Burned(j)[r] = "spent"
         /\ reservation[r] = "held" => Burned(j)[r] # "free"
  BY SMT DEF Burned

LEMMA BurnForward ==
  ASSUME NEW j \in Jobs, Burns(j) \/ Holds(j)
  PROVE  ReservationStep
<1>1. CASE Burns(j)
  BY <1>1, BurnedForward DEF Burns, ReservationStep
<1>2. CASE Holds(j)
  <2>1. PICK q \in ReservationIds :
          reservation[q] = "free" /\ reservation' = [Burned(j) EXCEPT ![q] = "held"]
    BY <1>2 DEF Holds
  <2>2. ASSUME NEW r \in ReservationIds, r # q PROVE reservation'[r] = Burned(j)[r]
    BY <2>1, <2>2, Zenon DEF Burned
  <2>3. QED
    BY <2>1, <2>2, BurnedForward DEF ReservationStep
<1>3. QED
  BY <1>1, <1>2

LEMMA CallForward ==
  ASSUME NEW j \in Jobs, NEW t, Call(j, t)
  PROVE  ReservationStep
<1>1. CASE \/ \E S \in Listable(j) : List(j, t, S)
           \/ HeartbeatAuthorize(j, t)
  BY <1>1 DEF List, HeartbeatAuthorize, ReservationStep
<1>2. CASE HeartbeatConflict(j, t)
  BY <1>2, BurnForward DEF HeartbeatConflict, RecordConflict, VoidPreparation, Burns
<1>3. CASE \E r \in ReservationIds : PrepareCreate(j, t, r)
  BY <1>3, BurnForward DEF PrepareCreate, Reserve, Holds
<1>4. CASE \E n \in Notes, r \in ReservationIds : \E v \in {page[j].cand[n].rev} :
             \/ PrepareAppend(j, t, n, v, r)
             \/ PrepareAppendReplan(j, t, n, v, r)
             \/ PrepareAppendReview(j, t, n, v, r)
  BY <1>4, BurnForward
  DEF PrepareAppend, PrepareAppendReplan, PrepareAppendReview, Reserve, Holds, Burns
<1>5. CASE Commit(j, t)
  BY <1>5, BurnForward
  DEF Commit, CommitRuleBroken, CommitConflict, CommitTargetMoved, CommitCreate, CommitAppend,
      CommitReview, RecordConflict, VoidPreparation, Succeed, Burns
<1>6. CASE \E kind \in Failures : Fail(j, t, kind)
  BY <1>6, BurnForward DEF Fail, ReleasePreparation, Burns
<1>7. QED
  BY <1>1, <1>2, <1>3, <1>4, <1>5, <1>6 DEF Call

\* No wrap operation is spent twice: a reservation is free, then held, then
\* spent, and never goes back.
THEOREM ReservationsOnlyAdvance == Spec => ReservationLifecycle
<1>1. [Next]_vars => [ReservationStep]_vars
  <2> SUFFICES ASSUME Next PROVE ReservationStep
    BY DEF vars, ReservationStep
  <2>1. CASE Owner
    <3>1. ASSUME NEW j \in Jobs, Delete(j) PROVE ReservationStep
      BY <3>1, BurnForward DEF Delete, Burns, ReservationStep
    <3>2. QED
      BY <2>1, <3>1 DEF Owner, Capture, Retry, OwnerWrite, Purge, ReservationStep
  <2>2. ASSUME NEW j \in Jobs, Service(j) PROVE ReservationStep
    <3>1. CASE Recover(j)
      BY <3>1, BurnForward DEF Recover, ReleasePreparation, Burns
    <3>2. QED
      BY <2>2, <3>1, CallForward DEF Service, Claim, Expire, ReservationStep
  <2>3. QED
    BY <2>1, <2>2 DEF Next
<1>2. QED
  BY <1>1, PTL DEF Spec, ReservationLifecycle

-----------------------------------------------------------------------------
(* Publications.                                                           *)

LEMMA UnpublishedStep == UNCHANGED published => PublicationStep
  BY DEF PublicationStep

LEMMA SucceedPublishes ==
  ASSUME TypeInv, NEW j \in Jobs, NEW t, NEW o, NEW s, NEW n,
         Publishable(j, t, o), Succeed(j, s, n),
         \A m \in Notes : note'[m] # note[m] =>
           m = prep[j].note /\ (note[m].status = "absent" \/ Appendable(m))
  PROVE  PublicationStep
<1>1. /\ Leased(j) /\ job[j].lease = "live" /\ page[j].verdict = "authorized"
  BY DEF Publishable, PassesHeartbeat, ReachesHeartbeat, MayCommit, LeaseHeld, PageAuthorized
<1>2. \A i \in Jobs \ {j} : published'[i] = published[i]
  BY Zenon DEF Succeed, TypeInv, TypeOK
<1>3. QED
  BY <1>1, <1>2 DEF PublicationStep

LEMMA CommitPublishes ==
  ASSUME TypeInv, NEW j \in Jobs, NEW t, Commit(j, t)
  PROVE  PublicationStep
<1>1. CASE \E o \in Outcome : \/ CommitRuleBroken(j, t, o)
                              \/ CommitConflict(j, t, o)
                              \/ CommitTargetMoved(j, t, o)
  BY <1>1, UnpublishedStep DEF CommitRuleBroken, CommitConflict, CommitTargetMoved
<1>2. CASE CommitCreate(j, t)
  <2>1. \A m \in Notes : note'[m] # note[m] =>
          m = prep[j].note /\ (note[m].status = "absent" \/ Appendable(m))
    BY <1>2, Zenon DEF CommitCreate, TypeInv, TypeOK
  <2>2. QED
    BY <1>2, <2>1, SucceedPublishes DEF CommitCreate
<1>3. CASE CommitAppend(j, t)
  <2>1. \A m \in Notes : note'[m] # note[m] =>
          m = prep[j].note /\ (note[m].status = "absent" \/ Appendable(m))
    BY <1>3, Zenon DEF CommitAppend, TargetCurrent, TypeInv, TypeOK
  <2>2. QED
    BY <1>3, <2>1, SucceedPublishes DEF CommitAppend
<1>4. CASE CommitReview(j, t)
  <2>1. UNCHANGED note
    BY <1>4 DEF CommitReview
  <2>2. QED
    BY <1>4, <2>1, SucceedPublishes DEF CommitReview
<1>5. QED
  BY <1>1, <1>2, <1>3, <1>4 DEF Commit

\* A publication happens under a live lease and an authorized page, and what
\* it writes is an open note or an id nobody has.
THEOREM PublicationsAreLeased == Spec => PublishedUnderLease
<1>1. TypeInv /\ [Next]_vars => [PublicationStep]_vars
  <2> SUFFICES ASSUME TypeInv, Next PROVE PublicationStep
    BY DEF vars, PublicationStep
  <2>1. CASE Owner
    BY <2>1, UnpublishedStep DEF Owner, Capture, Retry, Delete, OwnerWrite, Purge
  <2>2. ASSUME NEW j \in Jobs, NEW t, Call(j, t) PROVE PublicationStep
    <3>1. CASE Commit(j, t)
      BY <3>1, CommitPublishes
    <3>2. CASE ~Commit(j, t)
      BY <2>2, <3>2, UnpublishedStep
      DEF Call, List, HeartbeatConflict, HeartbeatAuthorize, PrepareCreate, PrepareAppend,
          PrepareAppendReplan, PrepareAppendReview, Fail
    <3>3. QED
      BY <3>1, <3>2
  <2>3. ASSUME NEW j \in Jobs, Service(j) PROVE PublicationStep
    BY <2>2, <2>3, UnpublishedStep DEF Service, Claim, Expire, Recover
  <2>4. QED
    BY <2>1, <2>3 DEF Next
<1>2. QED
  BY <1>1, InitType, TypeStep, PTL DEF Spec, PublishedUnderLease

-----------------------------------------------------------------------------
(* The store implements LeasedWork.                                        *)

\* The mapped variables.
Phases == [j \in Jobs |-> Phase(j)]
Tries == [j \in Jobs |-> job[j].attempt]

\* What LeasedWork sees of one job.
PhaseOf(state, status) ==
  IF status = "deleted" THEN "withdrawn"
  ELSE CASE state = "absent" -> "new"
         [] state \in {"created", "awaiting_retry"} -> "waiting"
         [] state = "running" -> "leased"
         [] state = "succeeded" -> "done"
         [] OTHER -> "dead"

LEMMA PhaseIs == \A j \in Jobs : Phase(j) = PhaseOf(job[j].state, capture[j])
  BY Zenon DEF Phase, PhaseOf

\* The steps of LeasedWork on an item, from phase p to q, tries a to b and
\* effects e to f.
WorkMoves(p, a, e, q, b, f) ==
  \/ p = "new" /\ q = "waiting" /\ b = a /\ f = e
  \/ p = "waiting" /\ a < MaxAttempts /\ q = "leased" /\ b = a + 1 /\ f = e
  \/ p = "leased" /\ e = 0 /\ q = "done" /\ b = a /\ f = 1
  \/ p = "leased" /\ a < MaxAttempts /\ q = "waiting" /\ b = a /\ f = e
  \/ p = "leased" /\ q = "dead" /\ b = a /\ f = e
  \/ p = "dead" /\ e = 0 /\ q = "waiting" /\ b = 0 /\ f = e
  \/ p \notin {"new", "withdrawn"} /\ q = "withdrawn" /\ b = a /\ f = e
  \/ q = p /\ b = a /\ f = e

\* The actions of LeasedWork over the mapped variables.
LEMMA WorkActions ==
  ASSUME NEW j \in Jobs
  PROVE  /\ /\ Phases[j] = "new" /\ Phases' = [Phases EXCEPT ![j] = "waiting"]
            /\ Tries' = Tries /\ published' = published
            => Work!WorkStep(j)
         /\ /\ Phases[j] = "waiting" /\ Tries[j] < MaxAttempts
            /\ Phases' = [Phases EXCEPT ![j] = "leased"]
            /\ Tries' = [Tries EXCEPT ![j] = Tries[j] + 1] /\ published' = published
            => Work!WorkStep(j)
         /\ /\ Phases[j] = "leased" /\ published[j] = 0
            /\ Phases' = [Phases EXCEPT ![j] = "done"]
            /\ published' = [published EXCEPT ![j] = 1] /\ Tries' = Tries
            => Work!WorkStep(j)
         /\ /\ Phases[j] = "leased" /\ Tries[j] < MaxAttempts
            /\ Phases' = [Phases EXCEPT ![j] = "waiting"]
            /\ Tries' = Tries /\ published' = published
            => Work!WorkStep(j)
         /\ /\ Phases[j] = "leased" /\ Phases' = [Phases EXCEPT ![j] = "dead"]
            /\ Tries' = Tries /\ published' = published
            => Work!WorkStep(j)
         /\ /\ Phases[j] = "dead" /\ published[j] = 0
            /\ Phases' = [Phases EXCEPT ![j] = "waiting"]
            /\ Tries' = [Tries EXCEPT ![j] = 0] /\ published' = published
            => Work!WorkStep(j)
         /\ /\ Phases[j] \notin {"new", "withdrawn"}
            /\ Phases' = [Phases EXCEPT ![j] = "withdrawn"]
            /\ Tries' = Tries /\ published' = published
            => Work!WorkStep(j)
  BY Zenon DEF Phases, Tries, Work!WorkStep, Work!Submit, Work!Lease, Work!Complete, Work!Release,
               Work!Resubmit, Work!Withdraw

\* A step that leaves every job but j to LeasedWork as it was.
LEMMA WorkFrame ==
  ASSUME TypeInv, TypeInv', NEW j \in Jobs,
         \A i \in Jobs \ {j} : job'[i] = job[i] /\ capture'[i] = capture[i]
                               /\ published'[i] = published[i],
         WorkMoves(Phase(j), job[j].attempt, published[j],
               Phase(j)', job'[j].attempt, published'[j])
  PROVE  [Work!WorkNext]_(Work!workVars)
<1>1. /\ published \in [Jobs -> Nat] /\ published' \in [Jobs -> Nat]
  BY DEF TypeInv, TypeOK
<1>2. \A i \in Jobs \ {j} : Phase(i)' = Phase(i) /\ job'[i].attempt = job[i].attempt
  BY Zenon DEF Phase
<1>3. /\ Phases' = [Phases EXCEPT ![j] = Phase(j)']
      /\ Tries' = [Tries EXCEPT ![j] = job'[j].attempt]
      /\ published' = [published EXCEPT ![j] = published'[j]]
  BY <1>1, <1>2, Zenon DEF Phases, Tries
<1>4. /\ Phases[j] = Phase(j) /\ Tries[j] = job[j].attempt
  BY DEF Phases, Tries
<1>5. /\ Phase(j)' = Phase(j) => Phases' = Phases
      /\ job'[j].attempt = job[j].attempt => Tries' = Tries
  BY <1>2, Zenon DEF Phases, Tries
<1>6. published'[j] = published[j] => published' = published
  BY <1>1, <1>3, SMT
<1>7. CASE Phase(j)' = Phase(j) /\ job'[j].attempt = job[j].attempt
           /\ published'[j] = published[j]
  <2>1. Phases' = Phases /\ Tries' = Tries /\ published' = published
    BY <1>5, <1>6, <1>7
  <2>2. QED
    BY <2>1 DEF Work!workVars, Phases, Tries
<1>8. CASE ~(Phase(j)' = Phase(j) /\ job'[j].attempt = job[j].attempt
             /\ published'[j] = published[j])
  <2>1. Work!WorkStep(j)
    BY <1>3, <1>4, <1>5, <1>6, <1>8, WorkActions, Zenon DEF WorkMoves
  <2>2. QED
    BY <2>1 DEF Work!WorkNext
<1>9. QED
  BY <1>7, <1>8

LEMMA WorkStutter ==
  ASSUME TypeInv, TypeInv',
         \A i \in Jobs : Phase(i)' = Phase(i) /\ job'[i].attempt = job[i].attempt,
         UNCHANGED published
  PROVE  [Work!WorkNext]_(Work!workVars)
<1>1. Phases' = Phases /\ Tries' = Tries
  BY Zenon DEF Phases, Tries
<1>2. QED
  BY <1>1 DEF Work!workVars, Phases, Tries

\* A step that touches no job's state, attempts, capture or publications.
LEMMA WorkQuiet ==
  ASSUME TypeInv, TypeInv', UNCHANGED <<capture, published>>,
         \A i \in Jobs : job'[i].state = job[i].state /\ job'[i].attempt = job[i].attempt
  PROVE  [Work!WorkNext]_(Work!workVars)
<1>1. \A i \in Jobs : Phase(i)' = Phase(i)
  BY Zenon DEF Phase
<1>2. QED
  BY <1>1, WorkStutter

-----------------------------------------------------------------------------
(* A capture that has not arrived is pinned nowhere, so that retention     *)
(* cannot bring it to the inbox.                                           *)

AbsentOK(j) == job[j].state = "absent" => capture[j] = "absent" /\ control[j].kind = "none"
WorkInv == LifeInv /\ \A j \in Jobs : AbsentOK(j)


\* What every step does: a step of LeasedWork or a stutter, and no job that has
\* not arrived gains a capture or a destination.
AbsentKept ==
  \A i \in Jobs : job'[i].state = "absent" =>
    job[i].state = "absent" /\ capture'[i] = capture[i] /\ control'[i] = control[i]
Simulated == [Work!WorkNext]_(Work!workVars) /\ AbsentKept

LEMMA AbsentFrame ==
  ASSUME WorkInv, LifeInv', AbsentKept
  PROVE  WorkInv'
<1>1. ASSUME NEW i \in Jobs PROVE AbsentOK(i)'
  BY DEF WorkInv, AbsentOK, AbsentKept
<1>2. QED
  BY <1>1 DEF WorkInv

\* A step of one job that has arrived.
LEMMA OneJob ==
  ASSUME WorkInv, TypeInv', NEW j \in Jobs, job'[j].state # "absent",
         \A i \in Jobs \ {j} :
           /\ job'[i] = job[i] /\ capture'[i] = capture[i]
           /\ control'[i] = control[i] /\ published'[i] = published[i],
         WorkMoves(PhaseOf(job[j].state, capture[j]), job[j].attempt, published[j],
               PhaseOf(job'[j].state, capture'[j]), job'[j].attempt, published'[j])
  PROVE  Simulated
<1>1. TypeInv
  BY DEF WorkInv, LifeInv
<1>2. Phase(j)' = PhaseOf(job'[j].state, capture'[j])
  BY Zenon DEF Phase, PhaseOf
<1>3. WorkMoves(Phase(j), job[j].attempt, published[j],
            Phase(j)', job'[j].attempt, published'[j])
  BY <1>2, PhaseIs, Zenon
<1>4. [Work!WorkNext]_(Work!workVars)
  BY <1>1, <1>3, WorkFrame
<1>5. AbsentKept
  BY DEF AbsentKept
<1>6. QED
  BY <1>4, <1>5 DEF Simulated

\* A step that changes the progress of no job.
LEMMA QuietStep ==
  ASSUME WorkInv, TypeInv', UNCHANGED <<capture, control, published>>,
         \A i \in Jobs : job'[i].state = job[i].state /\ job'[i].attempt = job[i].attempt
  PROVE  Simulated
  BY WorkQuiet DEF Simulated, AbsentKept, WorkInv, LifeInv

-----------------------------------------------------------------------------
(* One action at a time.                                                   *)

LEMMA CaptureWork ==
  ASSUME WorkInv, TypeInv', NEW j \in Jobs, NEW c \in Controls, Capture(j, c)
  PROVE  Simulated
<1>1. job[j] \in JobRow
  BY DEF WorkInv, LifeInv, TypeInv, TypeOK
<1>2. /\ job'[j].state = "created" /\ job'[j].attempt = job[j].attempt
      /\ capture'[j] = "queued" /\ published'[j] = published[j]
      /\ \A i \in Jobs \ {j} : /\ job'[i] = job[i] /\ capture'[i] = capture[i]
                               /\ control'[i] = control[i] /\ published'[i] = published[i]
  BY <1>1, Zenon DEF Capture, JobRow, WorkInv, LifeInv, TypeInv, TypeOK
<1>3. job[j].state = "absent" /\ capture[j] = "absent"
  BY DEF Capture, WorkInv, LifeInv, LifeOK, LifeOf
<1>4. /\ PhaseOf(job[j].state, capture[j]) = "new"
      /\ PhaseOf(job'[j].state, capture'[j]) = "waiting"
  BY <1>2, <1>3, SMT DEF PhaseOf
<1>5. QED
  BY <1>2, <1>4, OneJob DEF WorkMoves

LEMMA ClaimWork ==
  ASSUME WorkInv, TypeInv', NEW j \in Jobs, Claim(j)
  PROVE  Simulated
<1>1. TypeInv
  BY DEF WorkInv, LifeInv
<1>2. /\ job'[j] = Started(j) /\ capture'[j] = "processing" /\ published'[j] = published[j]
      /\ \A i \in Jobs \ {j} : /\ job'[i] = job[i] /\ capture'[i] = capture[i]
                               /\ control'[i] = control[i] /\ published'[i] = published[i]
  BY <1>1, Zenon DEF Claim, TypeInv, TypeOK
<1>3. job'[j].state = "running" /\ job'[j].attempt = job[j].attempt + 1
  BY <1>1, <1>2, StartedValues
<1>4. /\ PhaseOf(job[j].state, capture[j]) = "waiting"
      /\ PhaseOf(job'[j].state, capture'[j]) = "leased"
  BY <1>2, <1>3, SMT DEF PhaseOf, Claim
<1>5. job[j].attempt < MaxAttempts
  BY DEF Claim
<1>6. QED
  BY <1>2, <1>3, <1>4, <1>5, OneJob DEF WorkMoves

\* A lease that ends without a publication.
LEMMA EndWork ==
  ASSUME WorkInv, TypeInv', NEW j \in Jobs, Leased(j),
         NEW s \in JobState, NEW c \in CaptureStatus,
         \/ s = "awaiting_retry" /\ c = "queued" /\ job[j].attempt < MaxAttempts
         \/ s \in {"failed", "dead_letter"} /\ c \in {"failed", "inbox"},
         job' = [job EXCEPT ![j] = Ended(j, s)],
         capture' = [capture EXCEPT ![j] = c],
         UNCHANGED <<published, control>>
  PROVE  Simulated
<1>1. TypeInv
  BY DEF WorkInv, LifeInv
<1>2. /\ job'[j] = Ended(j, s) /\ capture'[j] = c
      /\ \A i \in Jobs \ {j} : job'[i] = job[i] /\ capture'[i] = capture[i]
  BY <1>1, Zenon DEF TypeInv, TypeOK
<1>3. job'[j].state = s /\ job'[j].attempt = job[j].attempt
  BY <1>1, <1>2, EndedValues
<1>4. job[j].state = "running" /\ capture[j] = "processing"
  BY DEF Leased, WorkInv, LifeInv, LifeOK, LifeOf
<1>5. /\ PhaseOf(job[j].state, capture[j]) = "leased"
      /\ PhaseOf(job'[j].state, capture'[j]) =
           IF s = "awaiting_retry" THEN "waiting" ELSE "dead"
  BY <1>2, <1>3, <1>4, SMT DEF PhaseOf
<1>6. job'[j].state # "absent"
  BY <1>3
<1>7. QED
  BY <1>2, <1>3, <1>5, <1>6, OneJob DEF WorkMoves

LEMMA RecoverWork ==
  ASSUME WorkInv, TypeInv', NEW j \in Jobs, Recover(j)
  PROVE  Simulated
<1>1. {"awaiting_retry", "dead_letter"} \subseteq JobState
      /\ {"queued", "failed"} \subseteq CaptureStatus
  BY DEF JobState, CaptureStatus
<1>2. QED
  BY <1>1, EndWork DEF Recover, Requeue, GiveUp

LEMMA FailWork ==
  ASSUME WorkInv, TypeInv', NEW j \in Jobs, NEW t, NEW kind, Fail(j, t, kind)
  PROVE  Simulated
<1>1. {"awaiting_retry", "dead_letter", "failed"} \subseteq JobState
      /\ {"queued", "failed", "inbox"} \subseteq CaptureStatus
  BY DEF JobState, CaptureStatus
<1>2. Leased(j)
  BY DEF Fail, LeaseHeld
<1>3. QED
  BY <1>1, <1>2, EndWork DEF Fail, Requeue, GiveUp

\* A conflict, whoever finds it.
LEMMA ConflictWork ==
  ASSUME WorkInv, TypeInv', NEW j \in Jobs, SpendReplan(j),
         UNCHANGED <<capture, control, published>>
  PROVE  Simulated
<1>1. TypeInv
  BY DEF WorkInv, LifeInv
<1>2. QED
  BY <1>1, SpendReplanValues, QuietStep

LEMMA ExpireWork ==
  ASSUME WorkInv, TypeInv', NEW j \in Jobs, Expire(j)
  PROVE  Simulated
<1>1. job[j] \in JobRow /\ job \in [Jobs -> JobRow]
  BY DEF WorkInv, LifeInv, TypeInv, TypeOK
<1>2. /\ job'[j].state = job[j].state /\ job'[j].attempt = job[j].attempt
      /\ \A i \in Jobs \ {j} : job'[i] = job[i]
  BY <1>1, Zenon DEF Expire, JobRow
<1>3. QED
  BY <1>2, QuietStep DEF Expire

\* A publication: the one effect.
LEMMA SucceedWork ==
  ASSUME WorkInv, TypeInv', NEW j \in Jobs, Leased(j), NEW n \in Notes \cup {NoNote},
         NEW c \in {"organized", "needs_review"}, Succeed(j, c, n), UNCHANGED control
  PROVE  Simulated
<1>1. TypeInv
  BY DEF WorkInv, LifeInv
<1>2. /\ job'[j] = Ended(j, "succeeded") /\ capture'[j] = c
      /\ published'[j] = published[j] + 1
      /\ \A i \in Jobs \ {j} :
           job'[i] = job[i] /\ capture'[i] = capture[i] /\ published'[i] = published[i]
  BY <1>1, Zenon DEF Succeed, TypeInv, TypeOK
<1>3. job'[j].state = "succeeded" /\ job'[j].attempt = job[j].attempt
  BY <1>1, <1>2, EndedValues DEF JobState
<1>4. job[j].state = "running" /\ capture[j] = "processing" /\ published[j] = 0
  BY DEF Leased, WorkInv, LifeInv, LifeOK, LifeOf
<1>5. /\ PhaseOf(job[j].state, capture[j]) = "leased"
      /\ PhaseOf(job'[j].state, capture'[j]) = "done"
  BY <1>2, <1>3, <1>4, SMT DEF PhaseOf
<1>6. published'[j] = 1
  BY <1>2, <1>4, SMT
<1>7. QED
  BY <1>2, <1>3, <1>4, <1>5, <1>6, OneJob DEF WorkMoves

LEMMA RetryWork ==
  ASSUME WorkInv, TypeInv', NEW j \in Jobs, Retry(j)
  PROVE  Simulated
<1>1. TypeInv /\ "created" \in JobState
  BY DEF WorkInv, LifeInv, JobState
<1>2. /\ job'[j].state = "created" /\ job'[j].attempt = 0
      /\ \A i \in Jobs \ {j} : job'[i] = job[i]
  <2> DEFINE row == [Ended(j, "created") EXCEPT !.attempt = 0, !.replan = 0, !.retries = @ + 1]
  <2>1. Ended(j, "created") \in JobRow
    BY <1>1, EndedRow DEF TypeInv, TypeOK
  <2>2. row.state = "created" /\ row.attempt = 0
    BY <1>1, <2>1, EndedValues, Zenon DEF JobRow
  <2>3. job' = [job EXCEPT ![j] = row]
    BY DEF Retry
  <2> HIDE DEF row
  <2>4. QED
    BY <1>1, <2>2, <2>3, Zenon DEF TypeInv, TypeOK
<1>3. /\ capture'[j] = "queued" /\ published'[j] = published[j]
      /\ \A i \in Jobs \ {j} : /\ capture'[i] = capture[i] /\ control'[i] = control[i]
                               /\ published'[i] = published[i]
  BY <1>1, Zenon DEF Retry, TypeInv, TypeOK
<1>4. /\ job[j].state \in {"failed", "dead_letter"} /\ capture[j] = "failed"
      /\ published[j] = 0
  BY DEF Retry, WorkInv, LifeInv, LifeOK, LifeOf
<1>5. /\ PhaseOf(job[j].state, capture[j]) = "dead"
      /\ PhaseOf(job'[j].state, capture'[j]) = "waiting"
  BY <1>2, <1>3, <1>4, SMT DEF PhaseOf
<1>6. QED
  BY <1>2, <1>3, <1>4, <1>5, OneJob DEF WorkMoves

LEMMA DeleteWork ==
  ASSUME WorkInv, TypeInv', NEW j \in Jobs, Delete(j)
  PROVE  Simulated
<1>1. TypeInv /\ "failed" \in JobState
  BY DEF WorkInv, LifeInv, JobState
<1>2. /\ job'[j] = (IF Active(j) THEN Ended(j, "failed") ELSE job[j])
      /\ capture'[j] = "deleted" /\ published'[j] = published[j]
      /\ \A i \in Jobs \ {j} : /\ job'[i] = job[i] /\ capture'[i] = capture[i]
                               /\ control'[i] = control[i] /\ published'[i] = published[i]
  BY <1>1, Zenon DEF Delete, TypeInv, TypeOK
<1>3. job[j].state # "absent" /\ capture[j] # "deleted"
  BY DEF Delete, WorkInv, AbsentOK
<1>4. job'[j].state # "absent" /\ job'[j].attempt = job[j].attempt
  BY <1>1, <1>2, <1>3, EndedValues, SMT
<1>5. /\ PhaseOf(job[j].state, capture[j]) \notin {"new", "withdrawn"}
      /\ PhaseOf(job'[j].state, capture'[j]) = "withdrawn"
  BY <1>2, <1>3, SMT DEF PhaseOf
<1>6. QED
  BY <1>2, <1>4, <1>5, OneJob DEF WorkMoves

\* Retention brings captures to the inbox, which is no progress of their jobs.
LEMMA PurgeWork ==
  ASSUME WorkInv, TypeInv', NEW n \in Notes, Purge(n)
  PROVE  Simulated
<1>1. ASSUME NEW i \in Jobs
      PROVE  /\ job'[i] = job[i]
             /\ capture'[i] = "deleted" <=> capture[i] = "deleted"
  BY Zenon DEF Purge
<1>2. \A i \in Jobs : Phase(i)' = Phase(i) /\ job'[i].attempt = job[i].attempt
  BY <1>1, Zenon DEF Phase
<1>3. [Work!WorkNext]_(Work!workVars)
  BY <1>2, WorkStutter DEF WorkInv, LifeInv, Purge
<1>4. ASSUME NEW i \in Jobs, job'[i].state = "absent"
      PROVE  /\ job[i].state = "absent" /\ capture'[i] = capture[i]
             /\ control'[i] = control[i]
  <2>1. job[i].state = "absent"
    BY <1>1, <1>4
  <2>2. capture[i] = "absent" /\ control[i].kind = "none" /\ linked[i] = NoNote
    BY <2>1 DEF WorkInv, AbsentOK, LifeInv, LifeOK, LifeOf
  <2>3. i \notin Related(n)
    BY <2>2, NullAssumption DEF Related
  <2>4. QED
    BY <2>1, <2>2, <2>3, Zenon DEF Purge
<1>5. QED
  BY <1>3, <1>4 DEF Simulated, AbsentKept

LEMMA CallWork ==
  ASSUME WorkInv, TypeInv', NEW j \in Jobs, NEW t, Call(j, t)
  PROVE  Simulated
<1>1. TypeInv
  BY DEF WorkInv, LifeInv
<1>2. CASE \/ \E S \in Listable(j) : List(j, t, S)
           \/ HeartbeatAuthorize(j, t)
           \/ \E r \in ReservationIds : PrepareCreate(j, t, r)
           \/ \E n \in Notes, r \in ReservationIds : \E v \in {page[j].cand[n].rev} :
                PrepareAppend(j, t, n, v, r) \/ PrepareAppendReview(j, t, n, v, r)
  BY <1>2, QuietStep
  DEF List, HeartbeatAuthorize, PrepareCreate, PrepareAppend, PrepareAppendReview
<1>3. CASE \/ HeartbeatConflict(j, t)
           \/ \E n \in Notes, r \in ReservationIds : \E v \in {page[j].cand[n].rev} :
                PrepareAppendReplan(j, t, n, v, r)
           \/ \E o \in Outcome : \/ CommitRuleBroken(j, t, o)
                                 \/ CommitConflict(j, t, o)
                                 \/ CommitTargetMoved(j, t, o)
  BY <1>3, ConflictWork
  DEF HeartbeatConflict, RecordConflict, PrepareAppendReplan, CommitRuleBroken, CommitConflict,
      CommitTargetMoved
<1>4. CASE CommitCreate(j, t)
  BY <1>1, <1>4, PublishableOpen, SucceedWork DEF CommitCreate, LeaseHeld
<1>5. CASE CommitAppend(j, t)
  BY <1>1, <1>5, PublishableOpen, SucceedWork DEF CommitAppend, LeaseHeld
<1>6. CASE CommitReview(j, t)
  BY <1>1, <1>6, PublishableOpen, SucceedWork DEF CommitReview, LeaseHeld
<1>7. CASE \E kind \in Failures : Fail(j, t, kind)
  BY <1>7, FailWork
<1>8. QED
  BY <1>2, <1>3, <1>4, <1>5, <1>6, <1>7 DEF Call, Commit

-----------------------------------------------------------------------------
LEMMA WorkInvInit == Init => WorkInv
<1>1. ASSUME Init, NEW j \in Jobs PROVE AbsentOK(j)
  BY <1>1, SMT DEF Init, AbsentOK, NoControl
<1>2. QED
  BY <1>1, LifeInit DEF WorkInv

LEMMA InitMaps == Init => Work!WorkInit
<1> SUFFICES ASSUME Init PROVE Work!WorkInit
  OBVIOUS
<1>1. ASSUME NEW j \in Jobs PROVE Phase(j) = "new" /\ job[j].attempt = 0
  BY SMT DEF Init, Phase
<1>2. published = [j \in Jobs |-> 0]
  BY DEF Init
<1>3. QED
  BY <1>1, <1>2, Zenon DEF Work!WorkInit

LEMMA StepMaps ==
  ASSUME WorkInv, [Next]_vars
  PROVE  [Work!WorkNext]_(Work!workVars) /\ WorkInv'
<1>1. LifeInv' /\ TypeInv' /\ TypeInv
  BY LifeStep DEF WorkInv, LifeInv
<1>2. Simulated
  <2>1. CASE Owner
    <3>1. CASE \E n \in Notes, s \in OwnerStatuses : OwnerWrite(n, s)
      BY <1>1, <3>1, QuietStep DEF OwnerWrite
    <3>2. QED
      BY <1>1, <2>1, <3>1, CaptureWork, RetryWork, DeleteWork, PurgeWork DEF Owner
  <2>2. ASSUME NEW j \in Jobs, Service(j) PROVE Simulated
    BY <1>1, <2>2, ClaimWork, ExpireWork, RecoverWork, CallWork DEF Service
  <2>3. CASE UNCHANGED vars
    BY <1>1, <2>3, QuietStep DEF vars
  <2>4. QED
    BY <2>1, <2>2, <2>3 DEF Next
<1>3. QED
  BY <1>1, <1>2, AbsentFrame DEF Simulated

\* Every behaviour of the store is a behaviour of LeasedWork: one effect, from a
\* lease, within the tries of a life, never after the owner withdrew.
THEOREM StoreImplementsLeasedWork == Spec => ImplementsLeasedWork
<1>1. WorkInv /\ [Next]_vars => [Work!WorkNext]_(Work!workVars) /\ WorkInv'
  BY StepMaps
<1>2. QED
  BY <1>1, WorkInvInit, InitMaps, PTL DEF Spec, ImplementsLeasedWork, Work!WorkSpec
=============================================================================
