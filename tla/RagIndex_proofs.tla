-------------------------- MODULE RagIndex_proofs --------------------------
(***************************************************************************)
(* The retrieval index, for every finite set of notes and every value of   *)
(* the other constants: its types; what hidden notes leave behind, what a  *)
(* proof of a generation is worth, when an index stops being served; and   *)
(* what its rows have behind them: a job for each row and each note that   *)
(* is served, the counters, and the entries a verification has opened.     *)
(***************************************************************************)
EXTENDS RagIndex, FiniteSetTheorems, TLAPS

-----------------------------------------------------------------------------
(* The rows the operations write have the types of their tables.           *)

LEMMA NullRows ==
  /\ NoNote \in NoteType /\ [NoNote EXCEPT !.kind = "purged"] \in NoteType
  /\ NoRow \in RowType /\ NoJob \in JobType /\ Queued \in JobType
  /\ NoProof \in ProofType /\ NoGeneration \in GenType /\ Idle \in VerifierType
<1>1. NoJob \in JobType /\ Queued \in JobType
  BY BoundsAssumption, SMT DEF NoJob, Queued, JobType
<1>2. NoProof \in ProofType
  BY SMT DEF NoProof, ProofType
<1>3. NoGeneration \in GenType
  BY SMT DEF NoGeneration, GenType, GenState
<1>4. QED
  BY <1>1, <1>2, <1>3 DEF NoteType, RowType, VerifierType

LEMMA FinishedRow ==
  ASSUME NEW w \in Work, job \in [Work -> JobType],
         NEW s \in {"queued", "succeeded", "failed"}
  PROVE  /\ Finish(w, s) \in JobType
         /\ Finish(w, s).state = s /\ Finish(w, s).attempt = job[w].attempt
         /\ Finish(w, s) # NoJob
<1>1. job[w] \in JobType
  OBVIOUS
<1>2. Finish(w, s) \in JobType /\ Finish(w, s).state = s
      /\ Finish(w, s).attempt = job[w].attempt
  BY <1>1, Zenon DEF Finish, JobType
<1>3. QED
  BY <1>2, SMT DEF NoJob

\* The notes of a set are finitely many, and so counted by a natural number.
LEMMA NoteCount ==
  ASSUME NEW S \in SUBSET Notes
  PROVE  IsFiniteSet(S) /\ Cardinality(S) \in Nat
<1>1. IsFiniteSet(S)
  BY FS_Subset, NoteIdsAssumption
<1>2. QED
  BY <1>1, FS_CardinalityType

LEMMA BumpedRow ==
  ASSUME NEW g \in Gens, gen \in [Gens -> GenType]
  PROVE  /\ Bump(g) \in GenType
         /\ Bump(g).token = gen[g].token + 1 /\ Bump(g).state = gen[g].state
         /\ Bump(g).expected = gen[g].expected /\ Bump(g).indexed = gen[g].indexed
<1>1. gen[g] \in GenType
  OBVIOUS
<1>2. QED
  BY <1>1, SMT DEF Bump, GenType

LEMMA RecountedRow ==
  ASSUME NEW g \in Gens, gen \in [Gens -> GenType], NEW notes, NEW rows
  PROVE  LET eligible == {m \in Notes : notes[m].kind = "eligible"}
             r == Recounted(g, notes, rows)
         IN  /\ r \in GenType
             /\ r.token = gen[g].token + 1 /\ r.state = gen[g].state
             /\ r.expected = Cardinality(eligible)
             /\ r.indexed = Cardinality({m \in eligible : rows[g][m].rev = notes[m].rev})
<1> DEFINE eligible == {m \in Notes : notes[m].kind = "eligible"}
           e == Cardinality(eligible)
           i == Cardinality({m \in eligible : rows[g][m].rev = notes[m].rev})
           t == gen[g].token + 1
<1>1. gen[g] \in GenType
  OBVIOUS
<1>2. e \in Nat
  BY NoteCount
<1>3. i \in Nat
  BY NoteCount
<1>4. t \in Nat
  BY <1>1, SMT DEF GenType
<1>5. Recounted(g, notes, rows) = [gen[g] EXCEPT !.expected = e, !.indexed = i, !.token = t]
  BY DEF Recounted
<1> HIDE DEF e, i, t
<1>6. /\ Recounted(g, notes, rows) \in GenType
      /\ Recounted(g, notes, rows).token = t /\ Recounted(g, notes, rows).state = gen[g].state
      /\ Recounted(g, notes, rows).expected = e /\ Recounted(g, notes, rows).indexed = i
  BY <1>1, <1>2, <1>3, <1>4, <1>5, Zenon DEF GenType
<1>7. QED
  BY <1>6, Zenon DEF e, i, t

\* Eligible and hidden notes are exactly those with a revision and a key.
LEMMA NoteRow ==
  ASSUME TypeOK, NEW n \in Notes
  PROVE  /\ note[n].kind \in {"absent", "eligible", "hidden", "purged"}
         /\ note[n].kind \in {"eligible", "hidden"} => note[n].rev \in Revisions
<1>1. note[n] \in NoteType
  BY DEF TypeOK
<1>2. CASE note[n] = NoNote \/ note[n] = [NoNote EXCEPT !.kind = "purged"]
  BY <1>2, SMT DEF NoNote
<1>3. CASE note[n] \in [rev : Revisions, kind : {"eligible", "hidden"}, key : Keys]
  BY <1>3, SMT
<1>4. QED
  BY <1>1, <1>2, <1>3 DEF NoteType

LEMMA WrittenNote ==
  ASSUME NEW r \in Revisions, NEW c \in {"eligible", "hidden"}, NEW k \in Keys
  PROVE  [rev |-> r, kind |-> c, key |-> k] \in NoteType
BY DEF NoteType

\* The enqueue and invalidation triggers only write rows of the queue.
LEMMA TriggerTypes ==
  ASSUME job \in [Work -> JobType], NEW n, NEW c, NEW jobs \in [Work -> JobType]
  PROVE  JobsAfter(n, c) \in [Work -> JobType] /\ Enqueued(n, c, jobs) \in [Work -> JobType]
<1>1. \A w \in Work : JobsAfter(n, c)[w] \in JobType
  BY FinishedRow DEF JobsAfter
<1>2. \A w \in Work : Enqueued(n, c, jobs)[w] \in JobType
  BY NullRows DEF Enqueued
<1>3. QED
  BY <1>1, <1>2 DEF JobsAfter, Enqueued

LEMMA RowsAfterType ==
  ASSUME row \in [Gens -> [Notes -> RowType]], NEW n \in Notes, NEW c
  PROVE  RowsAfter(n, c) \in [Gens -> [Notes -> RowType]]
<1>1. \A g \in Gens : RowsAfter(n, c)[g] \in [Notes -> RowType]
  BY NullRows DEF RowsAfter
<1>2. QED
  BY <1>1 DEF RowsAfter

LEMMA AttestationType ==
  ASSUME TypeOK, NEW g \in Gens
  PROVE  /\ Attestation(g) \in SUBSET Entry
         /\ \A n \in Rows(g) : row[g][n] \in [rev : Revisions, key : Keys]
<1>1. \A n \in Rows(g) : n \in Notes /\ row[g][n] \in [rev : Revisions, key : Keys]
  BY DEF Rows, TypeOK, RowType
<1>2. \A n \in Rows(g) : <<n, row[g][n].rev, row[g][n].key>> \in Entry
  BY <1>1, SMT DEF Entry
<1>3. QED
  BY <1>1, <1>2 DEF Attestation

-----------------------------------------------------------------------------
(* Type correctness, one lemma for each group of operations.               *)

LEMMA TypeInit == Init => TypeOK
<1> SUFFICES ASSUME Init PROVE TypeOK
  OBVIOUS
<1>1. key \in [Keys -> {"pending", "active", "retired", "revoked"}]
  BY DEF Init
<1>2. note \in [Notes -> NoteType] /\ gen \in [Gens -> GenType] /\ proof \in [Gens -> ProofType]
  BY NullRows, Zenon DEF Init
<1>3. row \in [Gens -> [Notes -> RowType]] /\ job \in [Work -> JobType]
  BY NullRows, Zenon DEF Init
<1>4. QED
  BY <1>1, <1>2, <1>3, NullRows, Zenon DEF Init, TypeOK

LEMMA OwnerTypes == TypeOK /\ OwnerStep => TypeOK'
<1> SUFFICES ASSUME TypeOK, OwnerStep PROVE TypeOK'
  OBVIOUS
<1> USE DEF TypeOK
<1>1. ASSUME NEW n \in Notes, NEW kind \in {"eligible", "hidden"}, CreateNote(n, kind)
      PROVE  TypeOK'
  <2>1. PICK k \in ActiveKeys :
          LET c == [rev |-> 1, kind |-> kind, key |-> k] IN
          /\ note' = [note EXCEPT ![n] = c]
          /\ job' = Enqueued(n, c, job)
    BY <1>1, Zenon DEF CreateNote
  <2> DEFINE c == [rev |-> 1, kind |-> kind, key |-> k]
  <2>2. c \in NoteType
    BY BoundsAssumption, WrittenNote DEF ActiveKeys, Revisions
  <2>3. note' \in [Notes -> NoteType]
    BY <2>1, <2>2, Zenon
  <2>4. job' \in [Work -> JobType]
    BY <2>1, TriggerTypes
  <2>5. \A g \in Gens : [gen[g] EXCEPT !.expected = @ + 1, !.token = @ + 1] \in GenType
    <3> TAKE g \in Gens
    <3>1. gen[g] \in GenType
      OBVIOUS
    <3>2. gen[g].expected + 1 \in Nat /\ gen[g].token + 1 \in Nat
      BY <3>1, SMT DEF GenType
    <3>3. QED
      BY <3>1, <3>2, Zenon DEF GenType
  <2>6. gen' \in [Gens -> GenType]
    BY <1>1, <2>5, Zenon DEF CreateNote
  <2>7. QED
    BY <1>1, <2>3, <2>4, <2>6, Zenon DEF CreateNote
<1>2. ASSUME NEW n \in Notes, NEW kind \in {"eligible", "hidden"}, WriteNote(n, kind)
      PROVE  TypeOK'
  <2>1. PICK k \in ActiveKeys :
          LET c == [rev |-> note[n].rev + 1, kind |-> kind, key |-> k]
              notes == [note EXCEPT ![n] = c]
          IN /\ note' = notes
             /\ row' = RowsAfter(n, c)
             /\ job' = Enqueued(n, c, JobsAfter(n, c))
             /\ gen' = [g \in Gens |->
                  IF Live(g) THEN Recounted(g, notes, RowsAfter(n, c)) ELSE gen[g]]
    BY <1>2, Zenon DEF WriteNote
  <2> DEFINE c == [rev |-> note[n].rev + 1, kind |-> kind, key |-> k]
  <2>2. note[n].rev + 1 \in Revisions
    BY <1>2, NoteRow, BoundsAssumption, SMT DEF WriteNote, Revisions
  <2>3. c \in NoteType
    BY <2>2, WrittenNote DEF ActiveKeys
  <2>4. note' \in [Notes -> NoteType]
    BY <2>1, <2>3, Zenon
  <2>5. row' \in [Gens -> [Notes -> RowType]]
    BY <2>1, RowsAfterType
  <2>6. JobsAfter(n, c) \in [Work -> JobType]
    BY TriggerTypes
  <2>7. job' \in [Work -> JobType]
    BY <2>1, <2>6, TriggerTypes
  <2>8. \A g \in Gens : Recounted(g, [note EXCEPT ![n] = c], RowsAfter(n, c)) \in GenType
    BY RecountedRow
  <2>9. gen' \in [Gens -> GenType]
    BY <2>1, <2>8, Zenon
  <2>10. QED
    BY <1>2, <2>4, <2>5, <2>7, <2>9, Zenon DEF WriteNote
<1>3. ASSUME NEW n \in Notes, PurgeNote(n)
      PROVE  TypeOK'
  <2>1. note' \in [Notes -> NoteType]
    BY <1>3, NullRows, Zenon DEF PurgeNote
  <2>2. row' \in [Gens -> [Notes -> RowType]]
    <3>1. \A g \in Gens : [row[g] EXCEPT ![n] = NoRow] \in [Notes -> RowType]
      BY NullRows, Zenon
    <3>2. QED
      BY <1>3, <3>1, Zenon DEF PurgeNote
  <2>3. job' \in [Work -> JobType]
    BY <1>3, NullRows, Zenon DEF PurgeNote
  <2>4. \A g \in Gens : Recounted(g, note', row') \in GenType
    BY RecountedRow
  <2>5. gen' \in [Gens -> GenType]
    BY <1>3, <2>4, Zenon DEF PurgeNote
  <2>6. QED
    BY <1>3, <2>1, <2>2, <2>3, <2>5, Zenon DEF PurgeNote
<1>4. ASSUME NEW k \in Keys, RotateKey(k)
      PROVE  TypeOK'
  BY <1>4 DEF RotateKey
<1>5. ASSUME NEW k \in Keys, RevokeKey(k)
      PROVE  TypeOK'
  <2>1. key' \in [Keys -> {"pending", "active", "retired", "revoked"}]
    BY <1>5 DEF RevokeKey
  <2>2. gen' \in [Gens -> GenType]
    BY <1>5, BumpedRow, Zenon DEF RevokeKey
  <2>3. QED
    BY <1>5, <2>1, <2>2, Zenon DEF RevokeKey
<1>6. ASSUME NEW t \in Targets, Deploy(t)
      PROVE  TypeOK'
  BY <1>6, Zenon DEF Deploy
<1>7. QED
  BY <1>1, <1>2, <1>3, <1>4, <1>5, <1>6, Zenon DEF OwnerStep

\* The queue writes one job a step.
LEMMA JobWrite ==
  ASSUME TypeOK, NEW w \in Work, NEW s \in {"queued", "succeeded", "failed"},
         job' = [job EXCEPT ![w] = Finish(w, s)]
  PROVE  job' \in [Work -> JobType]
<1>1. Finish(w, s) \in JobType
  BY FinishedRow DEF TypeOK
<1>2. QED
  BY <1>1, Zenon DEF TypeOK

LEMMA LeaseRow ==
  ASSUME NEW w \in Work, NEW k \in Keys, job \in [Work -> JobType], job[w].attempt < MaxAttempts
  PROVE  [state |-> "leased", attempt |-> job[w].attempt + 1, lease |-> "live", key |-> k] \in JobType
<1>1. job[w] \in JobType
  OBVIOUS
<1>2. job[w].attempt + 1 \in 0 .. MaxAttempts
  BY <1>1, BoundsAssumption, SMT DEF JobType
<1>3. QED
  BY <1>2, SMT DEF JobType

LEMMA QueueTypes == TypeOK /\ QueueStep => TypeOK'
<1> SUFFICES ASSUME TypeOK, NEW w \in Work,
                    \/ ClaimTerminal(w) \/ ClaimLease(w) \/ Expire(w) \/ Recover(w)
                    \/ CommitRefused(w) \/ Commit(w)
                    \/ \E retryable \in BOOLEAN : Fail(w, retryable)
             PROVE  TypeOK'
  BY Zenon DEF QueueStep
<1>1. ASSUME UNCHANGED <<note, key, gen, row, proof, verifier, target>>, job' \in [Work -> JobType]
      PROVE  TypeOK'
  BY <1>1, Zenon DEF TypeOK
<1>2. CASE ClaimTerminal(w) \/ CommitRefused(w)
  BY <1>1, <1>2, JobWrite DEF ClaimTerminal, CommitRefused
<1>3. CASE ClaimLease(w)
  <2>1. PICK k \in ActiveKeys :
          job' = [job EXCEPT ![w] = [state |-> "leased", attempt |-> job[w].attempt + 1,
                                     lease |-> "live", key |-> k]]
    BY <1>3, Zenon DEF ClaimLease
  <2>2. [state |-> "leased", attempt |-> job[w].attempt + 1, lease |-> "live", key |-> k] \in JobType
    BY <1>3, LeaseRow DEF ClaimLease, ActiveKeys, TypeOK
  <2>3. job' \in [Work -> JobType]
    BY <2>1, <2>2, Zenon DEF TypeOK
  <2>4. QED
    BY <1>1, <1>3, <2>3 DEF ClaimLease
<1>4. CASE Expire(w)
  <2>1. job[w] \in JobType
    BY DEF TypeOK
  <2>2. [job[w] EXCEPT !.lease = "expired"] \in JobType
    BY <2>1, Zenon DEF JobType
  <2>3. job' \in [Work -> JobType]
    BY <1>4, <2>2, Zenon DEF Expire, TypeOK
  <2>4. QED
    BY <1>1, <1>4, <2>3 DEF Expire
<1>5. CASE Recover(w)
  <2>1. job' = [job EXCEPT ![w] = Finish(w, "queued")] \/ job' = [job EXCEPT ![w] = Finish(w, "failed")]
    BY <1>5, Zenon DEF Recover
  <2>2. QED
    BY <1>1, <1>5, <2>1, JobWrite DEF Recover
<1>6. CASE \E retryable \in BOOLEAN : Fail(w, retryable)
  <2>1. job' = [job EXCEPT ![w] = Finish(w, "queued")] \/ job' = [job EXCEPT ![w] = Finish(w, "failed")]
    BY <1>6, Zenon DEF Fail
  <2>2. QED
    BY <1>1, <1>6, <2>1, JobWrite DEF Fail
<1>7. CASE Commit(w)
  <2>1. job' \in [Work -> JobType]
    BY <1>7, JobWrite DEF Commit
  <2>2. w.gen \in Gens /\ w.note \in Notes /\ w.rev \in Revisions
    BY DEF Work
  <2>3. [rev |-> w.rev, key |-> job[w].key] \in RowType
    BY <1>7, <2>2, SMT DEF Commit, ActiveKeys, RowType
  <2>4. [row[w.gen] EXCEPT ![w.note] = [rev |-> w.rev, key |-> job[w].key]] \in [Notes -> RowType]
    BY <2>2, <2>3, Zenon DEF TypeOK
  <2>5. row' \in [Gens -> [Notes -> RowType]]
    BY <1>7, <2>4, Zenon DEF Commit, TypeOK
  <2> DEFINE covered == Cardinality(Covered(w.gen) \cup {w.note})
             i == IF covered < gen[w.gen].expected THEN covered ELSE gen[w.gen].expected
  <2>6. gen[w.gen] \in GenType /\ Bump(w.gen) \in GenType
    BY <2>2, BumpedRow DEF TypeOK
  <2>7. covered \in Nat
    BY <2>2, NoteCount DEF Covered, Current, Eligible
  <2>8. i \in Nat
    BY <2>6, <2>7, SMT DEF GenType
  <2>9. gen' = [gen EXCEPT ![w.gen] = [Bump(w.gen) EXCEPT !.indexed = i]]
    BY <1>7, Zenon DEF Commit
  <2> HIDE DEF i, covered
  <2>10. [Bump(w.gen) EXCEPT !.indexed = i] \in GenType
    BY <2>6, <2>8, Zenon DEF GenType
  <2>11. gen' \in [Gens -> GenType]
    BY <2>9, <2>10, Zenon DEF TypeOK
  <2>12. QED
    BY <1>7, <2>1, <2>5, <2>11, Zenon DEF Commit, TypeOK
<1>8. QED
  BY <1>2, <1>3, <1>4, <1>5, <1>6, <1>7

LEMMA UnreadRow ==
  ASSUME NEW g \in Gens, NEW t \in Nat
  PROVE  Unread(g, t) \in VerifierType /\ Unread(g, t) # Idle
<1>1. Unread(g, t) \in
        [gen : Gens, token : Nat, cursor : Notes \cup {0}, opened : SUBSET Entry,
         digest : {"none", "attested"}, rows : SUBSET Entry]
  BY SMT DEF Unread
<1>2. Unread(g, t).gen # Idle.gen
  BY NoIdsAssumption, SMT DEF Idle, Unread
<1>3. QED
  BY <1>1, <1>2, Zenon DEF VerifierType

LEMMA ControlTypes == TypeOK /\ ControlStep => TypeOK'
<1> SUFFICES ASSUME TypeOK, NEW g \in Gens,
                    \/ \E t \in Targets : Ensure(g, t)
                    \/ \E after \in Notes \cup {0}, last \in Notes \cup {0} : Seed(g, after, last)
                    \/ FailGeneration(g) \/ Activate(g) \/ StartVerification(g)
             PROVE  TypeOK'
  BY Zenon DEF ControlStep
<1>1. Cardinality(Eligible) \in Nat /\ Cardinality(Covered(g)) \in Nat
  BY NoteCount DEF Eligible, Covered, Current
<1>2. gen[g] \in GenType /\ Bump(g) \in GenType /\ Bump(g).state = gen[g].state
  BY BumpedRow DEF TypeOK
<1>3. ASSUME NEW t \in Targets, Ensure(g, t) PROVE TypeOK'
  <2>1. [state |-> "building", target |-> t, expected |-> Cardinality(Eligible), indexed |-> 0,
         token |-> 0] \in GenType
    BY <1>1, SMT DEF GenType, GenState
  <2>2. QED
    BY <1>3, <2>1, Zenon DEF Ensure, TypeOK
<1>4. ASSUME NEW after \in Notes \cup {0}, NEW last \in Notes \cup {0}, Seed(g, after, last)
      PROVE  TypeOK'
  <2>1. job' \in [Work -> JobType]
    BY <1>4, NullRows, Zenon DEF Seed, TypeOK
  <2>2. [Bump(g) EXCEPT !.expected = Cardinality(Eligible)] \in GenType
    BY <1>1, <1>2, Zenon DEF GenType
  <2>3. gen' \in [Gens -> GenType]
    BY <1>4, <2>2, Zenon DEF Seed, TypeOK
  <2>4. QED
    BY <1>4, <2>1, <2>3, Zenon DEF Seed, TypeOK
<1>5. CASE FailGeneration(g)
  <2>1. "failed" \in GenState
    BY DEF GenState
  <2>2. [Bump(g) EXCEPT !.state = "failed"] \in GenType
    BY <1>2, <2>1, Zenon DEF GenType
  <2>3. gen' \in [Gens -> GenType] /\ proof' \in [Gens -> ProofType]
    BY <1>5, <2>2, NullRows, Zenon DEF FailGeneration, TypeOK
  <2>4. QED
    BY <1>5, <2>3, Zenon DEF FailGeneration, TypeOK
<1>6. CASE Activate(g)
  <2>1. "active" \in GenState /\ "retired" \in GenState
    BY DEF GenState
  <2>2. [Bump(g) EXCEPT !.state = "active", !.indexed = Cardinality(Covered(g))] \in GenType
    BY <1>1, <1>2, <2>1, Zenon DEF GenType
  <2>3. \A h \in Gens : [Bump(h) EXCEPT !.state = "retired"] \in GenType
    BY <2>1, BumpedRow, Zenon DEF GenType, TypeOK
  <2>4. gen' \in [Gens -> GenType]
    BY <1>6, <2>2, <2>3, Zenon DEF Activate, TypeOK
  <2>5. gen[g].token + 1 \in Nat \cup {-1}
    BY <1>2, SMT DEF GenType
  <2>6. proof[g] \in ProofType
    BY DEF TypeOK
  <2>7. [proof[g] EXCEPT !.token = gen[g].token + 1] \in ProofType
    BY <2>5, <2>6, Zenon DEF ProofType
  <2>8. proof' \in [Gens -> ProofType]
    BY <1>6, <2>7, Zenon DEF Activate, TypeOK
  <2>9. QED
    BY <1>6, <2>4, <2>8, Zenon DEF Activate, TypeOK
<1>7. CASE StartVerification(g)
  <2>1. gen[g].token \in Nat
    BY <1>2, SMT DEF GenType
  <2>2. verifier' = Unread(g, gen[g].token)
    BY <1>7, Zenon DEF StartVerification
  <2>3. verifier' \in VerifierType
    BY <2>1, <2>2, UnreadRow, Zenon
  <2>4. QED
    BY <1>7, <2>3, Zenon DEF StartVerification, TypeOK
<1>8. QED
  BY <1>3, <1>4, <1>5, <1>6, <1>7

\* A verification in flight has a generation and a token.
LEMMA VerifierRow ==
  ASSUME TypeOK, verifier # Idle
  PROVE  verifier \in [gen : Gens, token : Nat, cursor : Notes \cup {0}, opened : SUBSET Entry,
                       digest : {"none", "attested"}, rows : SUBSET Entry]
BY DEF TypeOK, VerifierType

\* The entries a page adds, and the verifier after it.
PageEntries(last) ==
  {<<n, row[verifier.gen][n].rev, row[verifier.gen][n].key>> :
     n \in {m \in Rest(verifier.gen) : m <= last}}

LEMMA ReadVerifier ==
  ASSUME TypeOK, NEW last \in Notes \cup {0}, ReadPage(last)
  PROVE  LET g == verifier.gen
             page == {m \in Rest(g) : m <= last}
         IN  /\ g \in Gens /\ PageEntries(last) \subseteq Attestation(g)
             /\ verifier' \in VerifierType
             /\ verifier' # Idle
             /\ verifier'.gen = g /\ verifier'.token = verifier.token
             /\ verifier'.cursor = (IF page = {} THEN verifier.cursor ELSE last)
             /\ verifier'.opened = verifier.opened \cup PageEntries(last)
             /\ verifier'.digest = (IF page = Rest(g) THEN "attested" ELSE "none")
             /\ verifier'.rows = (IF page = Rest(g) THEN Attestation(g) ELSE verifier.rows)
<1> DEFINE V == [gen : Gens, token : Nat, cursor : Notes \cup {0}, opened : SUBSET Entry,
                 digest : {"none", "attested"}, rows : SUBSET Entry]
           g == verifier.gen
           page == {m \in Rest(g) : m <= last}
           c == IF page = {} THEN verifier.cursor ELSE last
           o == verifier.opened \cup PageEntries(last)
           d == IF page = Rest(g) THEN "attested" ELSE "none"
           r == IF page = Rest(g) THEN Attestation(g) ELSE verifier.rows
<1>1. verifier \in V
  BY VerifierRow DEF ReadPage
<1>2. g \in Gens /\ verifier.opened \in SUBSET Entry /\ verifier.rows \in SUBSET Entry
      /\ verifier.cursor \in Notes \cup {0}
  BY <1>1, SMT
<1>3. PageEntries(last) \subseteq Attestation(g)
  BY Zenon DEF PageEntries, Attestation, Rest
<1>4. Attestation(g) \in SUBSET Entry
  BY <1>2, AttestationType
<1>5. c \in Notes \cup {0} /\ o \in SUBSET Entry /\ d \in {"none", "attested"} /\ r \in SUBSET Entry
  BY <1>2, <1>3, <1>4, Zenon
<1>6. verifier' = [verifier EXCEPT !.cursor = c, !.opened = o, !.digest = d, !.rows = r]
  BY Zenon DEF ReadPage, PageEntries
<1> HIDE DEF c, o, d, r
<1>7. /\ verifier' \in V
      /\ verifier'.gen = g /\ verifier'.token = verifier.token /\ verifier'.cursor = c
      /\ verifier'.opened = o /\ verifier'.digest = d /\ verifier'.rows = r
  BY <1>1, <1>5, <1>6, Zenon
<1>8. verifier' # Idle
  <2>1. Idle.gen = NoGen
    BY SMT DEF Idle, Unread
  <2>2. QED
    BY <1>7, <1>2, <2>1, NoIdsAssumption, Zenon
<1>9. QED
  BY <1>2, <1>3, <1>7, <1>8, Zenon DEF VerifierType, c, o, d, r

LEMMA VerifierTypes == TypeOK /\ VerifierStep => TypeOK'
<1> SUFFICES ASSUME TypeOK, VerifierStep PROVE TypeOK'
  OBVIOUS
<1>1. ASSUME NEW last \in Notes \cup {0}, ReadPage(last) PROVE TypeOK'
  <2>1. verifier' \in VerifierType
    BY <1>1, ReadVerifier
  <2>2. QED
    BY <1>1, <2>1, Zenon DEF ReadPage, TypeOK
<1>2. CASE Attest
  <2>1. verifier # Idle
    BY <1>2, SMT DEF Attest, Idle, Unread
  <2>2. verifier.gen \in Gens /\ verifier.token \in Nat /\ verifier.rows \in SUBSET Entry
    BY <2>1, VerifierRow, SMT
  <2>3. [token |-> verifier.token, rows |-> verifier.rows] \in ProofType
    BY <2>2, SMT DEF ProofType
  <2>4. proof' \in [Gens -> ProofType]
    BY <1>2, <2>3, Zenon DEF Attest, TypeOK
  <2>5. QED
    BY <1>2, <2>4, NullRows, Zenon DEF Attest, TypeOK
<1>3. CASE AbandonVerification
  BY <1>3, NullRows, Zenon DEF AbandonVerification, TypeOK
<1>4. QED
  BY <1>1, <1>2, <1>3 DEF VerifierStep

\* Every step keeps the types, a stutter too.
LEMMA TypeStep == TypeOK /\ [Next]_vars => TypeOK'
<1>1. TypeOK /\ UNCHANGED vars => TypeOK'
  BY Zenon DEF TypeOK, vars
<1>2. QED
  BY <1>1, OwnerTypes, QueueTypes, ControlTypes, VerifierTypes, Zenon DEF Next

\* The columns of the index's tables keep to their constraints: no job is tried
\* more often than allowed, no row has a revision without a key.
THEOREM TypeCorrect == Spec => []TypeOK
BY TypeInit, TypeStep, PTL DEF Spec

-----------------------------------------------------------------------------
(* Hidden notes and pending work.  Neither claim is inductive alone: a note *)
(* becomes eligible again with the work and rows it has left, and work      *)
(* writes rows.                                                            *)

QueueInv == TypeOK /\ HiddenNeverIndexed /\ PendingIsCurrent

LEMMA QueueInit == Init => QueueInv
<1> SUFFICES ASSUME Init PROVE QueueInv
  OBVIOUS
<1>1. TypeOK
  BY TypeInit
<1>2. \A w \in Work : ~Pending(w)
  BY SMT DEF Init, Pending, NoJob
<1>3. \A g \in Gens, n \in Notes : row[g][n] = NoRow
  BY Zenon DEF Init
<1>4. QED
  BY <1>1, <1>2, <1>3 DEF QueueInv, HiddenNeverIndexed, PendingIsCurrent

LEMMA QueuedRow ==
  Queued.state = "queued" /\ Queued.attempt = 0 /\ Queued # NoJob /\ NoJob.state = "none"
<1>1. Queued.state = "queued" /\ Queued.attempt = 0 /\ NoJob.state = "none"
  BY SMT DEF Queued, NoJob
<1>2. QED
  BY <1>1, Zenon

\* What the triggers of a note write leave of its queue.
LEMMA TriggeredJobs ==
  ASSUME NEW n, NEW c, NEW jobs, NEW w \in Work
  PROVE  \/ /\ c.kind = "eligible" /\ w.note = n /\ w.rev = c.rev /\ Live(w.gen)
            /\ Enqueued(n, c, jobs)[w] = Queued
         \/ Enqueued(n, c, jobs)[w] = jobs[w]
BY Zenon DEF Enqueued

LEMMA InvalidatedJobs ==
  ASSUME TypeOK, NEW n, NEW c, NEW w \in Work
  PROVE  \/ JobsAfter(n, c)[w] = job[w] /\ (Pending(w) /\ w.note = n => c.kind = "eligible" /\ w.rev = c.rev)
         \/ JobsAfter(n, c)[w].state = "failed" /\ JobsAfter(n, c)[w] # NoJob
<1>1. Finish(w, "failed").state = "failed" /\ Finish(w, "failed") # NoJob
  BY FinishedRow DEF TypeOK
<1>2. QED
  BY <1>1, Zenon DEF JobsAfter

\* Both claims, from what is pending and which rows are left.
LEMMA QueueFrom ==
  ASSUME \A w \in Work : Pending(w)' => /\ note'[w.note].rev = w.rev /\ note'[w.note].kind = "eligible"
                                        /\ job'[w].state = "queued" => job'[w].attempt < MaxAttempts,
         \A g \in Gens, m \in Notes : note'[m].kind = "eligible" \/ row'[g][m] = NoRow
  PROVE  HiddenNeverIndexed' /\ PendingIsCurrent'
<1>1. ASSUME NEW m \in Notes, note'[m].kind # "eligible", NEW w \in Work, w.note = m
      PROVE  ~Pending(w)'
  BY <1>1
<1>2. HiddenNeverIndexed'
  BY <1>1 DEF HiddenNeverIndexed
<1>3. QED
  BY <1>2 DEF PendingIsCurrent

\* A step of the queue that starts no work and writes no row.
LEMMA QueueKept ==
  ASSUME QueueInv, note' = note, row' = row,
         \A w \in Work : Pending(w)' => /\ Pending(w)
                                        /\ job'[w].state = "queued" => job'[w].attempt < MaxAttempts
  PROVE  HiddenNeverIndexed' /\ PendingIsCurrent'
BY Zenon DEF QueueInv, HiddenNeverIndexed, PendingIsCurrent

\* The same for a step that writes the job w only.
LEMMA JobKept ==
  ASSUME QueueInv, note' = note, row' = row, NEW w \in Work, NEW j,
         job' = [job EXCEPT ![w] = j],
         j.state \in {"queued", "leased"} => Pending(w),
         j.state = "queued" => j.attempt < MaxAttempts
  PROVE  HiddenNeverIndexed' /\ PendingIsCurrent'
<1>1. job'[w] = j /\ \A v \in Work \ {w} : job'[v] = job[v]
  BY Zenon DEF QueueInv, TypeOK
<1>2. ASSUME NEW v \in Work, Pending(v)'
      PROVE  Pending(v) /\ (job'[v].state = "queued" => job'[v].attempt < MaxAttempts)
  <2>1. CASE v = w
    BY <1>1, <1>2, <2>1, Zenon DEF Pending
  <2>2. CASE v # w
    BY <1>1, <1>2, <2>2, Zenon DEF Pending, QueueInv, PendingIsCurrent
  <2>3. QED
    BY <2>1, <2>2
<1>3. QED
  BY <1>2, QueueKept

\* The job w ends in state s, or waits again with attempts left.
LEMMA FinishKept ==
  ASSUME QueueInv, note' = note, row' = row, NEW w \in Work, Pending(w),
         NEW s \in {"queued", "succeeded", "failed"},
         job' = [job EXCEPT ![w] = Finish(w, s)],
         s = "queued" => job[w].attempt < MaxAttempts
  PROVE  HiddenNeverIndexed' /\ PendingIsCurrent'
<1>1. Finish(w, s).state = s /\ Finish(w, s).attempt = job[w].attempt
  BY FinishedRow DEF QueueInv, TypeOK
<1>2. QED
  BY <1>1, JobKept

LEMMA OwnerQueue == QueueInv /\ OwnerStep => HiddenNeverIndexed' /\ PendingIsCurrent'
<1> SUFFICES ASSUME QueueInv, OwnerStep PROVE HiddenNeverIndexed' /\ PendingIsCurrent'
  OBVIOUS
<1> USE DEF QueueInv
<1>0. \A g \in Gens, n \in Notes : row[g] \in [Notes -> RowType] /\ [row[g] EXCEPT ![n] = NoRow][n] = NoRow
  BY Zenon DEF TypeOK
<1>1. ASSUME NEW n \in Notes, NEW kind \in {"eligible", "hidden"}, CreateNote(n, kind)
      PROVE  HiddenNeverIndexed' /\ PendingIsCurrent'
  <2>1. PICK k \in ActiveKeys :
          LET c == [rev |-> 1, kind |-> kind, key |-> k] IN
          /\ note' = [note EXCEPT ![n] = c]
          /\ job' = Enqueued(n, c, job)
    BY <1>1, Zenon DEF CreateNote
  <2> DEFINE c == [rev |-> 1, kind |-> kind, key |-> k]
  <2>2. c.kind = kind /\ c.rev = 1
    OBVIOUS
  <2> HIDE DEF c
  <2>3. note'[n] = c /\ \A m \in Notes \ {n} : note'[m] = note[m]
    BY <2>1, Zenon DEF TypeOK, c
  <2>4. row' = row /\ \A w \in Work : w.note = n => ~Pending(w)
    BY <1>1, Zenon DEF CreateNote, HiddenNeverIndexed
  <2>5. \A g \in Gens : row'[g][n] = NoRow
    BY <1>1, <2>4, Zenon DEF CreateNote, HiddenNeverIndexed
  <2>6. ASSUME NEW w \in Work, Pending(w)'
        PROVE  /\ note'[w.note].rev = w.rev /\ note'[w.note].kind = "eligible"
               /\ job'[w].state = "queued" => job'[w].attempt < MaxAttempts
    <3>1. w.note \in Notes
      BY DEF Work
    <3>2. CASE job'[w] = job[w]
      BY <2>3, <2>4, <2>6, <3>1, <3>2, Zenon DEF Pending, HiddenNeverIndexed, PendingIsCurrent
    <3>3. CASE c.kind = "eligible" /\ w.note = n /\ w.rev = c.rev /\ job'[w] = Queued
      BY <2>3, <3>3, QueuedRow, BoundsAssumption, SMT
    <3>4. job' = Enqueued(n, c, job)
      BY <2>1, Zenon DEF c
    <3>5. QED
      BY <3>2, <3>3, <3>4, TriggeredJobs
  <2>7. \A g \in Gens, m \in Notes : note'[m].kind = "eligible" \/ row'[g][m] = NoRow
    BY <2>3, <2>4, <2>5, Zenon DEF HiddenNeverIndexed
  <2>8. QED
    BY <2>6, <2>7, QueueFrom
<1>2. ASSUME NEW n \in Notes, NEW kind \in {"eligible", "hidden"}, WriteNote(n, kind)
      PROVE  HiddenNeverIndexed' /\ PendingIsCurrent'
  <2>1. PICK k \in ActiveKeys :
          LET c == [rev |-> note[n].rev + 1, kind |-> kind, key |-> k] IN
          /\ note' = [note EXCEPT ![n] = c]
          /\ row' = RowsAfter(n, c)
          /\ job' = Enqueued(n, c, JobsAfter(n, c))
    BY <1>2, Zenon DEF WriteNote
  <2> DEFINE c == [rev |-> note[n].rev + 1, kind |-> kind, key |-> k]
  <2>2. c.kind = kind /\ c.rev = note[n].rev + 1
    OBVIOUS
  <2>0. /\ note' = [note EXCEPT ![n] = c]
        /\ row' = RowsAfter(n, c)
        /\ job' = Enqueued(n, c, JobsAfter(n, c))
    BY <2>1, Zenon
  <2> HIDE DEF c
  <2>3. note'[n] = c /\ \A m \in Notes \ {n} : note'[m] = note[m]
    BY <2>0, Zenon DEF TypeOK
  <2>4. \A g \in Gens : /\ c.kind # "eligible" => row'[g][n] = NoRow
                        /\ \A m \in Notes \ {n} : row'[g][m] = row[g][m]
    BY <1>0, <2>0, Zenon DEF RowsAfter
  <2>5. ASSUME NEW w \in Work, Pending(w)'
        PROVE  /\ note'[w.note].rev = w.rev /\ note'[w.note].kind = "eligible"
               /\ job'[w].state = "queued" => job'[w].attempt < MaxAttempts
    <3>1. w.note \in Notes
      BY DEF Work
    <3>2. CASE job'[w] = JobsAfter(n, c)[w]
      <4>1. /\ job'[w] = job[w] /\ Pending(w)
            /\ w.note = n => c.kind = "eligible" /\ w.rev = c.rev
        BY <2>5, <3>2, InvalidatedJobs, SMT DEF Pending
      <4>2. QED
        BY <2>3, <3>1, <4>1, Zenon DEF HiddenNeverIndexed, PendingIsCurrent
    <3>3. CASE c.kind = "eligible" /\ w.note = n /\ w.rev = c.rev /\ job'[w] = Queued
      BY <2>3, <3>3, QueuedRow, BoundsAssumption, SMT
    <3>4. QED
      BY <2>0, <3>2, <3>3, TriggeredJobs
  <2>6. \A g \in Gens, m \in Notes : note'[m].kind = "eligible" \/ row'[g][m] = NoRow
    BY <2>3, <2>4, Zenon DEF HiddenNeverIndexed
  <2>7. QED
    BY <2>5, <2>6, QueueFrom
<1>3. ASSUME NEW n \in Notes, PurgeNote(n)
      PROVE  HiddenNeverIndexed' /\ PendingIsCurrent'
  <2>1. \A m \in Notes \ {n} : note'[m] = note[m]
    BY <1>3, Zenon DEF PurgeNote, TypeOK
  <2>2. \A g \in Gens : row'[g][n] = NoRow /\ \A m \in Notes \ {n} : row'[g][m] = row[g][m]
    BY <1>0, <1>3, Zenon DEF PurgeNote
  <2>3. \A w \in Work : IF w.note = n THEN job'[w] = NoJob ELSE job'[w] = job[w]
    BY <1>3, Zenon DEF PurgeNote
  <2>4. \A w \in Work : Pending(w)' => w.note # n /\ Pending(w) /\ job'[w] = job[w]
    BY <2>3, QueuedRow, SMT DEF Pending
  <2>5. \A w \in Work : w.note \in Notes
    BY DEF Work
  <2>6. \A w \in Work : Pending(w)' => note'[w.note] = note[w.note] /\ note[w.note].kind = "eligible"
    BY <2>1, <2>4, <2>5, Zenon DEF HiddenNeverIndexed
  <2>7. \A g \in Gens, m \in Notes : note'[m].kind = "eligible" \/ row'[g][m] = NoRow
    BY <2>1, <2>2, Zenon DEF HiddenNeverIndexed
  <2>8. QED
    BY <2>4, <2>6, <2>7, QueueFrom, Zenon DEF PendingIsCurrent
<1>4. ASSUME job' = job, note' = note, row' = row
      PROVE  HiddenNeverIndexed' /\ PendingIsCurrent'
  BY <1>4, QueueKept, Zenon DEF PendingIsCurrent, Pending
<1>5. QED
  BY <1>1, <1>2, <1>3, <1>4 DEF OwnerStep, RotateKey, RevokeKey, Deploy

LEMMA WorkQueue == QueueInv /\ QueueStep => HiddenNeverIndexed' /\ PendingIsCurrent'
<1> SUFFICES ASSUME QueueInv, NEW w \in Work,
                    \/ ClaimTerminal(w) \/ ClaimLease(w) \/ Expire(w) \/ Recover(w)
                    \/ CommitRefused(w) \/ Commit(w)
                    \/ \E retryable \in BOOLEAN : Fail(w, retryable)
             PROVE  HiddenNeverIndexed' /\ PendingIsCurrent'
  BY Zenon DEF QueueStep
<1> USE DEF QueueInv
<1>1. CASE ClaimTerminal(w) \/ CommitRefused(w)
  BY <1>1, FinishKept DEF ClaimTerminal, CommitRefused, LeaseHeld, Pending
<1>2. CASE ClaimLease(w)
  <2>1. PICK k \in ActiveKeys :
          job' = [job EXCEPT ![w] = [state |-> "leased", attempt |-> job[w].attempt + 1,
                                     lease |-> "live", key |-> k]]
    BY <1>2, Zenon DEF ClaimLease
  <2>2. QED
    BY <1>2, <2>1, JobKept DEF ClaimLease, Pending
<1>3. CASE Expire(w)
  <2>1. job[w] \in JobType
    BY DEF TypeOK
  <2>2. [job[w] EXCEPT !.lease = "expired"].state = "leased"
    BY <1>3, <2>1, SMT DEF Expire, JobType
  <2>3. job' = [job EXCEPT ![w] = [job[w] EXCEPT !.lease = "expired"]]
    BY <1>3, Zenon DEF Expire
  <2>4. QED
    BY <1>3, <2>2, <2>3, JobKept DEF Expire, Pending
<1>4. CASE Recover(w)
  <2>1. \/ job' = [job EXCEPT ![w] = Finish(w, "queued")] /\ job[w].attempt < MaxAttempts
        \/ job' = [job EXCEPT ![w] = Finish(w, "failed")]
    BY <1>4, Zenon DEF Recover
  <2>2. QED
    BY <1>4, <2>1, FinishKept DEF Recover, Pending
<1>5. CASE \E retryable \in BOOLEAN : Fail(w, retryable)
  <2>1. \/ job' = [job EXCEPT ![w] = Finish(w, "queued")] /\ job[w].attempt < MaxAttempts
        \/ job' = [job EXCEPT ![w] = Finish(w, "failed")]
    BY <1>5, Zenon DEF Fail
  <2>2. QED
    BY <1>5, <2>1, FinishKept DEF Fail, LeaseHeld, Pending
<1>6. CASE Commit(w)
  <2>1. w.gen \in Gens /\ w.note \in Notes /\ note[w.note].kind = "eligible" /\ note' = note
    BY <1>6 DEF Commit, Workable, Work
  <2>2. \A g \in Gens, m \in Notes : row'[g][m] = row[g][m] \/ m = w.note
    BY <1>6, <2>1, SMT DEF Commit, TypeOK
  <2>3. Finish(w, "succeeded").state = "succeeded"
    BY FinishedRow DEF TypeOK
  <2>4. \A v \in Work : Pending(v)' => Pending(v) /\ job'[v] = job[v]
    BY <1>6, <2>3, SMT DEF Commit, Pending, TypeOK
  <2>5. \A v \in Work : v.note \in Notes
    BY DEF Work
  <2>6. \A v \in Work : Pending(v)' => note[v.note].kind = "eligible"
    BY <2>4, <2>5, Zenon DEF HiddenNeverIndexed
  <2>7. \A g \in Gens, m \in Notes : note'[m].kind = "eligible" \/ row'[g][m] = NoRow
    BY <2>1, <2>2, Zenon DEF HiddenNeverIndexed
  <2>8. QED
    BY <2>1, <2>4, <2>6, <2>7, QueueFrom, Zenon DEF PendingIsCurrent
<1>7. QED
  BY <1>1, <1>2, <1>3, <1>4, <1>5, <1>6

LEMMA ControlQueue == QueueInv /\ ControlStep => HiddenNeverIndexed' /\ PendingIsCurrent'
<1> SUFFICES ASSUME QueueInv, NEW g \in Gens,
                    \/ \E t \in Targets : Ensure(g, t)
                    \/ \E after \in Notes \cup {0}, last \in Notes \cup {0} : Seed(g, after, last)
                    \/ FailGeneration(g) \/ Activate(g) \/ StartVerification(g)
             PROVE  HiddenNeverIndexed' /\ PendingIsCurrent'
  BY Zenon DEF ControlStep
<1>1. CASE UNCHANGED <<note, row, job>>
  BY <1>1, QueueKept, Zenon DEF QueueInv, PendingIsCurrent, Pending
<1>2. ASSUME NEW after \in Notes \cup {0}, NEW last \in Notes \cup {0}, Seed(g, after, last)
      PROVE  HiddenNeverIndexed' /\ PendingIsCurrent'
  <2>1. note' = note /\ row' = row
    BY <1>2 DEF Seed
  <2>2. ASSUME NEW w \in Work, Pending(w)'
        PROVE  /\ note'[w.note].rev = w.rev /\ note'[w.note].kind = "eligible"
               /\ job'[w].state = "queued" => job'[w].attempt < MaxAttempts
    <3>1. \/ job'[w] = job[w]
          \/ job'[w] = Queued /\ w.rev = note[w.note].rev /\ w.note \in Eligible
      BY <1>2, Zenon DEF Seed, Missing
    <3>2. CASE job'[w] = job[w]
      <4>1. Pending(w) /\ w.note \in Notes
        BY <2>2, <3>2, Zenon DEF Pending, Work
      <4>2. QED
        BY <2>1, <3>2, <4>1 DEF QueueInv, HiddenNeverIndexed, PendingIsCurrent
    <3>3. CASE job'[w] = Queued /\ w.rev = note[w.note].rev /\ w.note \in Eligible
      BY <2>1, <3>3, QueuedRow, BoundsAssumption, SMT DEF Eligible
    <3>4. QED
      BY <3>1, <3>2, <3>3
  <2>3. \A h \in Gens, m \in Notes : note'[m].kind = "eligible" \/ row'[h][m] = NoRow
    BY <2>1 DEF QueueInv, HiddenNeverIndexed
  <2>4. QED
    BY <2>2, <2>3, QueueFrom
<1>3. QED
  BY <1>1, <1>2 DEF Ensure, FailGeneration, Activate, StartVerification

LEMMA QueueStepInv == QueueInv /\ [Next]_vars => QueueInv'
<1> SUFFICES ASSUME QueueInv, [Next]_vars PROVE QueueInv'
  OBVIOUS
<1>1. TypeOK'
  BY TypeStep DEF QueueInv
<1>2. CASE UNCHANGED <<note, row, job>>
  BY <1>1, <1>2, QueueKept, Zenon DEF QueueInv, PendingIsCurrent, Pending
<1>3. CASE VerifierStep
  BY <1>2, <1>3 DEF VerifierStep, ReadPage, Attest, AbandonVerification
<1>4. CASE UNCHANGED vars
  BY <1>2, <1>4 DEF vars
<1>5. CASE OwnerStep \/ QueueStep \/ ControlStep
  BY <1>1, <1>5, OwnerQueue, WorkQueue, ControlQueue DEF QueueInv
<1>6. QED
  BY <1>3, <1>4, <1>5 DEF Next

\* A private or trashed note has no row in any generation and no work that
\* could write one, in whatever order writes, leases and commits happen.
THEOREM HiddenSafe == Spec => []HiddenNeverIndexed
<1>1. QueueInv => HiddenNeverIndexed
  BY DEF QueueInv
<1>2. QED
  BY <1>1, QueueInit, QueueStepInv, PTL DEF Spec

\* Pending work is for the present revision, and waiting work can be claimed.
THEOREM PendingSafe == Spec => []PendingIsCurrent
<1>1. QueueInv => PendingIsCurrent
  BY DEF QueueInv
<1>2. QED
  BY <1>1, QueueInit, QueueStepInv, PTL DEF Spec

-----------------------------------------------------------------------------
(* What a proof of a generation is worth.  A token that passed a proof never *)
(* comes back: tokens only grow, and a new generation has no proof.         *)

ProofsBehind ==
  \A g \in Gens : /\ proof[g].token <= gen[g].token
                  /\ gen[g].state = "none" => proof[g] = NoProof
ProofInv == QueueInv /\ ProofsBehind /\ VerifiedMeansCovered

\* The note n matters to the generations as before.
SameNote(n) == \/ note'[n] = note[n]
               \/ note[n].kind # "eligible" /\ note'[n].kind # "eligible"

\* Nothing that a proof of g speaks of has changed.
Untouched(g) ==
  /\ gen'[g] = gen[g] /\ row'[g] = row[g]
  /\ \A n \in Notes : SameNote(n)
  /\ \A n \in Rows(g) : Usable(row[g][n].key) => Usable(row[g][n].key)'
  /\ \A w \in Work : w.gen = g /\ Pending(w)' => Pending(w)

LEMMA TokenType ==
  ASSUME TypeOK, NEW g \in Gens
  PROVE  gen[g].token \in Nat /\ proof[g].token \in Nat \cup {-1}
<1>1. gen[g] \in GenType /\ proof[g] \in ProofType
  BY DEF TypeOK
<1>2. QED
  BY <1>1, SMT DEF GenType, ProofType

LEMMA EligibleKept ==
  ASSUME \A n \in Notes : SameNote(n)
  PROVE  Eligible' = Eligible /\ \A n \in Eligible : note'[n] = note[n]
BY Zenon DEF Eligible, SameNote

\* A complete generation that is left alone stays complete.
LEMMA CompleteKept ==
  ASSUME NEW g \in Gens, Complete(g), row'[g] = row[g],
         \A n \in Notes : SameNote(n),
         \A n \in Rows(g) : Usable(row[g][n].key) => Usable(row[g][n].key)',
         \A w \in Work : w.gen = g /\ Pending(w)' => Pending(w),
         gen'[g].expected = gen[g].expected,
         gen'[g].indexed = Cardinality(Eligible)
  PROVE  Complete(g)' /\ Attestation(g)' = Attestation(g)
<1>1. Eligible' = Eligible /\ \A n \in Eligible : note'[n] = note[n]
  BY EligibleKept
<1>2. Rows(g)' = Rows(g) /\ Attestation(g)' = Attestation(g)
  BY Zenon DEF Rows, Attestation
<1>3. \A n \in Eligible : row'[g][n].rev = note'[n].rev /\ Usable(row[g][n].key)'
  BY <1>1, Zenon DEF Complete, Covered, Current
<1>4. Covered(g)' = Eligible'
  BY <1>1, <1>3, Zenon DEF Covered, Current
<1>5. \A w \in Work : w.gen = g => ~Pending(w)'
  BY Zenon DEF Complete
<1>6. QED
  BY <1>1, <1>2, <1>4, <1>5, Zenon DEF Complete

\* All that is claimed of the proof of g.
ProofGood(g) ==
  /\ Attested(g) => Complete(g) /\ proof[g].rows = Attestation(g)
  /\ proof[g].token <= gen[g].token
  /\ gen[g].state = "none" => proof[g] = NoProof

\* A step leaves the proof of g true that leaves g alone, or moves its token
\* on, or finds g not live.
Harmless(g) ==
  /\ proof'[g] = proof[g]
  /\ \/ Untouched(g)
     \/ gen'[g] = gen[g] /\ ~Live(g)
     \/ /\ gen'[g].token = gen[g].token + 1
        /\ gen'[g].state = "none" => gen[g].state = "none"

LEMMA ProofKept ==
  ASSUME ProofInv, NEW g \in Gens, Harmless(g)
  PROVE  ProofGood(g)'
<1>1. gen[g].token \in Nat /\ proof[g].token \in Nat \cup {-1}
  BY TokenType DEF ProofInv, QueueInv
<1>2. ProofGood(g)
  BY DEF ProofInv, ProofsBehind, VerifiedMeansCovered, ProofGood
<1>3. CASE Untouched(g)
  <2>1. Attested(g)' => Attested(g)
    BY <1>3, Zenon DEF Untouched, Attested, Live, Harmless
  <2>2. Complete(g) => Complete(g)' /\ Attestation(g)' = Attestation(g)
    BY <1>3, CompleteKept, Zenon DEF Untouched, Complete
  <2>3. QED
    BY <1>2, <1>3, <2>1, <2>2, Zenon DEF Untouched, ProofGood, Harmless
<1>4. CASE gen'[g] = gen[g] /\ ~Live(g)
  <2>1. ~Attested(g)'
    BY <1>4, Zenon DEF Attested, Live
  <2>2. QED
    BY <1>2, <1>4, <2>1, Zenon DEF ProofGood, Harmless
<1>5. CASE /\ gen'[g].token = gen[g].token + 1
           /\ gen'[g].state = "none" => gen[g].state = "none"
  BY <1>1, <1>2, <1>5, SMT DEF Attested, ProofGood, Harmless
<1>6. QED
  BY <1>3, <1>4, <1>5 DEF Harmless

LEMMA ProofInit == Init => ProofInv
<1> SUFFICES ASSUME Init PROVE ProofInv
  OBVIOUS
<1>1. QueueInv
  BY QueueInit
<1>2. ASSUME NEW g \in Gens
      PROVE  gen[g].token = 0 /\ proof[g].token = -1 /\ proof[g] = NoProof
  <2>1. gen[g] = NoGeneration /\ proof[g] = NoProof
    BY Zenon DEF Init
  <2>2. QED
    BY <2>1, SMT DEF NoGeneration, NoProof
<1>3. ProofsBehind
  BY <1>2, SMT DEF ProofsBehind
<1>4. VerifiedMeansCovered
  BY <1>2, SMT DEF VerifiedMeansCovered, Attested
<1>5. QED
  BY <1>1, <1>3, <1>4 DEF ProofInv

LEMMA OwnerProof == ProofInv /\ OwnerStep => \A g \in Gens : ProofGood(g)'
<1> SUFFICES ASSUME ProofInv, OwnerStep, NEW g \in Gens PROVE Harmless(g)
  BY ProofKept
<1>0. TypeOK /\ HiddenNeverIndexed /\ gen[g] \in GenType
  BY DEF ProofInv, QueueInv, TypeOK
<1>1. ASSUME NEW n \in Notes, NEW kind \in {"eligible", "hidden"}, CreateNote(n, kind)
      PROVE  Harmless(g)
  <2>1. PICK k \in ActiveKeys :
          LET c == [rev |-> 1, kind |-> kind, key |-> k] IN
          /\ note' = [note EXCEPT ![n] = c]
          /\ job' = Enqueued(n, c, job)
    BY <1>1, Zenon DEF CreateNote
  <2> DEFINE c == [rev |-> 1, kind |-> kind, key |-> k]
  <2>2. c.kind = kind /\ note' = [note EXCEPT ![n] = c] /\ job' = Enqueued(n, c, job)
    BY <2>1
  <2> HIDE DEF c
  <2>3. /\ proof' = proof /\ row' = row /\ key' = key /\ note[n].kind = "absent"
        /\ gen'[g] = IF kind = "eligible" /\ Live(g)
                     THEN [gen[g] EXCEPT !.expected = @ + 1, !.token = @ + 1] ELSE gen[g]
    BY <1>1, Zenon DEF CreateNote
  <2>4. CASE kind = "eligible" /\ Live(g)
    <3>1. gen[g] \in GenType /\ gen'[g] = [gen[g] EXCEPT !.expected = @ + 1, !.token = @ + 1]
      BY <1>0, <2>3, <2>4, Zenon DEF TypeOK
    <3>2. gen'[g].token = gen[g].token + 1 /\ gen'[g].state = gen[g].state
      BY <3>1, Zenon DEF GenType
    <3>3. QED
      BY <2>3, <3>2, Zenon DEF Harmless
  <2>5. CASE ~Live(g)
    BY <2>3, <2>5, Zenon DEF Harmless
  <2>6. CASE kind = "hidden"
    <3>1. gen'[g] = gen[g] /\ c.kind = "hidden" /\ c.kind # "eligible"
      BY <2>2, <2>3, <2>6, SMT
    <3>2. \A w \in Work : job'[w] = job[w]
      BY <2>2, <3>1 DEF Enqueued
    <3>3. \A m \in Notes : note'[m] = note[m] \/ (m = n /\ note'[m] = c)
      BY <1>0, <2>2, Zenon DEF TypeOK
    <3>4. note[n].kind # "eligible"
      BY <2>3
    <3>5. \A m \in Notes : SameNote(m)
      BY <3>1, <3>3, <3>4, Zenon DEF SameNote
    <3>6. QED
      BY <2>3, <3>1, <3>2, <3>5, Zenon DEF Harmless, Untouched, Usable, Pending
  <2>7. QED
    BY <2>4, <2>5, <2>6
<1>2. ASSUME NEW n \in Notes, NEW kind \in {"eligible", "hidden"}, WriteNote(n, kind)
      PROVE  Harmless(g)
  <2>1. PICK notes, rows : gen'[g] = IF Live(g) THEN Recounted(g, notes, rows) ELSE gen[g]
    BY <1>2, Zenon DEF WriteNote
  <2>2. Live(g) => gen'[g].token = gen[g].token + 1 /\ gen'[g].state = gen[g].state
    BY <1>0, <2>1, Zenon DEF Recounted, GenType
  <2>3. QED
    BY <1>2, <2>1, <2>2, Zenon DEF Harmless, WriteNote
<1>3. ASSUME NEW n \in Notes, PurgeNote(n)
      PROVE  Harmless(g)
  <2>1. /\ proof' = proof /\ key' = key
        /\ note[n].kind = "hidden" /\ note' = [note EXCEPT ![n] = [NoNote EXCEPT !.kind = "purged"]]
        /\ row'[g] = [row[g] EXCEPT ![n] = NoRow]
    BY <1>3, Zenon DEF PurgeNote
  <2>2. CASE gen'[g] = Recounted(g, note', row')
    <3>1. gen'[g].token = gen[g].token + 1 /\ gen'[g].state = gen[g].state
      BY <1>0, <2>2, Zenon DEF Recounted, GenType
    <3>2. QED
      BY <2>1, <3>1, Zenon DEF Harmless
  <2>3. CASE gen'[g] = gen[g]
    <3>1. row[g][n] = NoRow /\ row[g] \in [Notes -> RowType]
      BY <1>0, <2>1, SMT DEF HiddenNeverIndexed, TypeOK
    <3>2. row'[g] = row[g]
      BY <2>1, <3>1, SMT
    <3>3. \A m \in Notes : SameNote(m)
      <4>1. note'[n].kind = "purged" /\ \A m \in Notes \ {n} : note'[m] = note[m]
        BY <1>0, <2>1, SMT DEF TypeOK, NoNote
      <4>2. QED
        BY <2>1, <4>1, SMT DEF SameNote
    <3>4. \A w \in Work : job'[w] = NoJob \/ job'[w] = job[w]
      BY <1>3, Zenon DEF PurgeNote
    <3>5. \A w \in Work : Pending(w)' => Pending(w)
      BY <3>4, QueuedRow, SMT DEF Pending
    <3>6. QED
      BY <2>1, <2>3, <3>2, <3>3, <3>5, Zenon DEF Harmless, Untouched, Usable
  <2>4. gen'[g] = Recounted(g, note', row') \/ gen'[g] = gen[g]
    BY <1>3, Zenon DEF PurgeNote
  <2>5. QED
    BY <2>2, <2>3, <2>4
<1>4. ASSUME NEW k \in Keys, RotateKey(k)
      PROVE  Harmless(g)
  <2>1. \A i \in Keys : Usable(i) => Usable(i)'
    BY <1>4, SMT DEF RotateKey, Usable
  <2>2. QED
    BY <1>4, <2>1, Zenon DEF RotateKey, Harmless, Untouched, SameNote, Pending, Usable
<1>5. ASSUME NEW k \in Keys, RevokeKey(k)
      PROVE  Harmless(g)
  <2>1. \A i \in Keys : i # k /\ Usable(i) => Usable(i)'
    BY <1>0, <1>5, SMT DEF RevokeKey, Usable, TypeOK
  <2>2. /\ UNCHANGED <<note, row, job, proof, verifier, target>>
        /\ gen'[g] = IF Live(g) /\ \E n \in Rows(g) : row[g][n].key = k THEN Bump(g) ELSE gen[g]
    BY <1>5, Zenon DEF RevokeKey
  <2>3. CASE Live(g) /\ \E n \in Rows(g) : row[g][n].key = k
    <3>1. gen'[g].token = gen[g].token + 1 /\ gen'[g].state = gen[g].state
      BY <1>0, <2>2, <2>3, BumpedRow DEF TypeOK
    <3>2. QED
      BY <2>2, <3>1, Zenon DEF Harmless
  <2>4. CASE ~Live(g)
    BY <2>2, <2>4, Zenon DEF Harmless
  <2>5. CASE \A n \in Rows(g) : row[g][n].key # k
    <3>1. gen'[g] = gen[g]
      BY <2>2, <2>5, Zenon
    <3>2. \A n \in Rows(g) : Usable(row[g][n].key) => Usable(row[g][n].key)'
      BY <2>1, <2>2, <2>5, Zenon DEF Usable
    <3>3. QED
      BY <2>2, <3>1, <3>2, Zenon DEF Harmless, Untouched, SameNote, Pending
  <2>6. QED
    BY <2>3, <2>4, <2>5
<1>6. ASSUME NEW t \in Targets, Deploy(t)
      PROVE  Harmless(g)
  BY <1>6, Zenon DEF Deploy, Harmless, Untouched, SameNote, Pending, Usable
<1>7. QED
  BY <1>1, <1>2, <1>3, <1>4, <1>5, <1>6, Zenon DEF OwnerStep

\* The jobs a queue step leaves pending were pending.
LEMMA QueueShrinks ==
  ASSUME TypeOK, QueueStep
  PROVE  \A w \in Work : Pending(w)' => Pending(w)
<1> SUFFICES ASSUME NEW w \in Work,
                    \/ ClaimTerminal(w) \/ ClaimLease(w) \/ Expire(w) \/ Recover(w)
                    \/ CommitRefused(w) \/ Commit(w)
                    \/ \E retryable \in BOOLEAN : Fail(w, retryable)
             PROVE  \A v \in Work : Pending(v)' => Pending(v)
  BY Zenon DEF QueueStep
<1>1. Pending(w)
  BY Zenon DEF ClaimTerminal, ClaimLease, Expire, Recover, CommitRefused, Commit, Fail,
               LeaseHeld, Pending
<1>2. \A v \in Work \ {w} : job'[v] = job[v]
  <2>1. ClaimTerminal(w) \/ Recover(w) \/ CommitRefused(w) \/ Commit(w)
        \/ (\E retryable \in BOOLEAN : Fail(w, retryable)) => \E s : job' = [job EXCEPT ![w] = s]
    BY Zenon DEF ClaimTerminal, Recover, CommitRefused, Commit, Fail
  <2>2. ClaimLease(w) \/ Expire(w) => \E s : job' = [job EXCEPT ![w] = s]
    BY Zenon DEF ClaimLease, Expire
  <2>3. \E s : job' = [job EXCEPT ![w] = s]
    BY <2>1, <2>2
  <2>4. QED
    BY <2>3, Zenon DEF TypeOK
<1>3. QED
  BY <1>1, <1>2, Zenon DEF Pending

LEMMA QueueProof == ProofInv /\ QueueStep => \A g \in Gens : ProofGood(g)'
<1> SUFFICES ASSUME ProofInv, QueueStep, NEW g \in Gens PROVE Harmless(g)
  BY ProofKept
<1>0. TypeOK /\ \A w \in Work : Pending(w)' => Pending(w)
  BY QueueShrinks DEF ProofInv, QueueInv
<1>1. note' = note /\ key' = key /\ proof' = proof
  BY Zenon DEF QueueStep, ClaimTerminal, ClaimLease, Expire, Recover, CommitRefused, Commit, Fail
<1>2. CASE gen'[g] = gen[g] /\ row'[g] = row[g]
  BY <1>0, <1>1, <1>2, Zenon DEF Harmless, Untouched, SameNote, Usable
<1>3. ASSUME NEW w \in Work, Commit(w) PROVE Harmless(g)
  <2> DEFINE covered == Cardinality(Covered(w.gen) \cup {w.note})
             i == IF covered < gen[w.gen].expected THEN covered ELSE gen[w.gen].expected
  <2>1. /\ gen' = [gen EXCEPT ![w.gen] = [Bump(w.gen) EXCEPT !.indexed = i]]
        /\ row' = [row EXCEPT ![w.gen][w.note] = [rev |-> w.rev, key |-> job[w].key]]
        /\ w.gen \in Gens
    BY <1>3, Zenon DEF Commit, Work
  <2> HIDE DEF i, covered
  <2>2. CASE g # w.gen
    BY <1>0, <1>2, <2>1, <2>2, Zenon DEF TypeOK
  <2>3. CASE g = w.gen
    <3>1. gen'[g] = [Bump(g) EXCEPT !.indexed = i]
      BY <1>0, <2>1, <2>3, Zenon DEF TypeOK
    <3>2. Bump(g) \in GenType /\ Bump(g).token = gen[g].token + 1 /\ Bump(g).state = gen[g].state
      BY <1>0, BumpedRow DEF TypeOK
    <3>3. gen'[g].token = gen[g].token + 1 /\ gen'[g].state = gen[g].state
      BY <3>1, <3>2, Zenon DEF GenType
    <3>4. QED
      BY <1>1, <3>3, Zenon DEF Harmless
  <2>4. QED
    BY <2>2, <2>3
<1>4. QED
  BY <1>2, <1>3, Zenon DEF QueueStep, ClaimTerminal, ClaimLease, Expire, Recover, CommitRefused, Fail

LEMMA ControlProof == ProofInv /\ ControlStep => \A g \in Gens : ProofGood(g)'
<1> SUFFICES ASSUME ProofInv, NEW g \in Gens,
                    \/ \E t \in Targets : Ensure(g, t)
                    \/ \E after \in Notes \cup {0}, last \in Notes \cup {0} : Seed(g, after, last)
                    \/ FailGeneration(g) \/ Activate(g) \/ StartVerification(g),
                    NEW h \in Gens
             PROVE  ProofGood(h)'
  BY Zenon DEF ControlStep
<1>0. /\ TypeOK /\ gen[g] \in GenType /\ gen[h] \in GenType /\ ProofGood(h)
      /\ Bump(g) \in GenType /\ Bump(g).token = gen[g].token + 1 /\ Bump(g).state = gen[g].state
      /\ Bump(h) \in GenType /\ Bump(h).token = gen[h].token + 1 /\ Bump(h).state = gen[h].state
  BY BumpedRow DEF ProofInv, QueueInv, TypeOK, ProofsBehind, VerifiedMeansCovered, ProofGood
<1>1. ASSUME note' = note, key' = key, row' = row, gen'[h] = gen[h], proof'[h] = proof[h],
             \A w \in Work : w.gen = h => job'[w] = job[w]
      PROVE  ProofGood(h)'
  <2>1. Harmless(h)
    BY <1>1, Zenon DEF Harmless, Untouched, SameNote, Usable, Pending
  <2>2. QED
    BY <2>1, ProofKept
<1>2. ASSUME NEW t \in Targets, Ensure(g, t) PROVE ProofGood(h)'
  <2>1. CASE h = g
    <3>1. proof[g] = NoProof /\ proof'[g] = NoProof
      BY <1>2, SMT DEF Ensure, ProofInv, ProofsBehind
    <3>2. gen'[g].token = 0 /\ gen'[g].state = "building"
      BY <1>0, <1>2, SMT DEF Ensure, TypeOK
    <3>3. NoProof.token = -1
      BY SMT DEF NoProof
    <3>4. QED
      BY <2>1, <3>1, <3>2, <3>3, SMT DEF ProofGood, Attested
  <2>2. CASE h # g
    BY <1>0, <1>1, <1>2, <2>2, Zenon DEF Ensure, TypeOK
  <2>3. QED
    BY <2>1, <2>2
<1>3. ASSUME NEW after \in Notes \cup {0}, NEW last \in Notes \cup {0}, Seed(g, after, last)
      PROVE  ProofGood(h)'
  <2>1. gen' = [gen EXCEPT ![g] = [Bump(g) EXCEPT !.expected = Cardinality(Eligible)]]
        /\ proof' = proof
    BY <1>3, Zenon DEF Seed
  <2>2. CASE h = g
    <3>1. gen'[g] = [Bump(g) EXCEPT !.expected = Cardinality(Eligible)]
      BY <1>0, <2>1, Zenon DEF TypeOK
    <3>2. gen'[g].token = gen[g].token + 1 /\ gen'[g].state = gen[g].state
      BY <1>0, <3>1, Zenon DEF GenType
    <3>3. Harmless(g)
      BY <2>1, <3>2, Zenon DEF Harmless
    <3>4. QED
      BY <2>2, <3>3, ProofKept
  <2>3. CASE h # g
    <3>1. gen'[h] = gen[h]
      BY <1>0, <2>1, <2>3, Zenon DEF TypeOK
    <3>2. \A w \in Work : w.gen = h => job'[w] = job[w]
      BY <1>3, <2>3, Zenon DEF Seed
    <3>3. QED
      BY <1>1, <1>3, <3>1, <3>2 DEF Seed
  <2>4. QED
    BY <2>2, <2>3
<1>4. CASE FailGeneration(g)
  <2>1. CASE h = g
    <3>1. gen'[g] = [Bump(g) EXCEPT !.state = "failed"] /\ proof'[g] = NoProof
      BY <1>0, <1>4, Zenon DEF FailGeneration, TypeOK
    <3>2. gen'[g].state = "failed" /\ gen'[g].token = gen[g].token + 1
      BY <1>0, <3>1, Zenon DEF GenType
    <3>3. gen[g].token \in Nat /\ NoProof.token = -1
      BY <1>0, SMT DEF GenType, NoProof
    <3>4. QED
      BY <2>1, <3>1, <3>2, <3>3, SMT DEF ProofGood, Attested, Live
  <2>2. CASE h # g
    BY <1>0, <1>1, <1>4, <2>2, Zenon DEF FailGeneration, TypeOK
  <2>3. QED
    BY <2>1, <2>2
<1>5. CASE Activate(g)
  <2>1. UNCHANGED <<note, key, row, job>> /\ Complete(g) /\ proof[g].rows = Attestation(g)
    BY <1>5 DEF Activate
  <2>2. CASE h = g
    <3>1. gen'[g] = [Bump(g) EXCEPT !.state = "active", !.indexed = Cardinality(Covered(g))]
      BY <1>5, Zenon DEF Activate
    <3>2. /\ gen'[g].state = "active" /\ gen'[g].token = gen[g].token + 1
          /\ gen'[g].indexed = Cardinality(Covered(g)) /\ gen'[g].expected = gen[g].expected
      BY <1>0, <3>1, BumpedRow, Zenon DEF GenType, TypeOK
    <3>3. Complete(g)' /\ Attestation(g)' = Attestation(g)
      BY <2>1, <3>2, CompleteKept, Zenon DEF SameNote, Usable, Pending, Complete
    <3>4. proof[g] \in ProofType /\ proof'[g] = [proof[g] EXCEPT !.token = gen[g].token + 1]
      BY <1>0, <1>5, Zenon DEF Activate, TypeOK
    <3>5. proof'[g].token = gen[g].token + 1 /\ proof'[g].rows = proof[g].rows
      BY <3>4, Zenon DEF ProofType
    <3>6. gen[g].token \in Nat
      BY <1>0, SMT DEF GenType
    <3>7. QED
      BY <2>1, <2>2, <3>2, <3>3, <3>5, <3>6, SMT DEF ProofGood
  <2>3. CASE h # g
    <3>1. proof'[h] = proof[h]
      BY <1>0, <1>5, <2>3, Zenon DEF Activate, TypeOK
    <3>2. CASE gen[h].state = "active"
      <4>1. gen'[h] = [Bump(h) EXCEPT !.state = "retired"]
        BY <1>5, <2>3, <3>2, Zenon DEF Activate
      <4>2. gen'[h].token = gen[h].token + 1 /\ gen'[h].state = "retired"
        BY <1>0, <4>1, Zenon DEF GenType
      <4>3. Harmless(h)
        BY <3>1, <4>2, SMT DEF Harmless
      <4>4. QED
        BY <4>3, ProofKept
    <3>3. CASE gen[h].state # "active"
      <4>1. gen'[h] = gen[h]
        BY <1>5, <2>3, <3>3, Zenon DEF Activate
      <4>2. QED
        BY <1>1, <2>1, <3>1, <4>1
    <3>4. QED
      BY <3>2, <3>3
  <2>4. QED
    BY <2>2, <2>3
<1>6. CASE StartVerification(g)
  BY <1>1, <1>6 DEF StartVerification
<1>7. QED
  BY <1>2, <1>3, <1>4, <1>5, <1>6

LEMMA VerifierProof == ProofInv /\ VerifierStep => \A g \in Gens : ProofGood(g)'
<1> SUFFICES ASSUME ProofInv, VerifierStep, NEW g \in Gens PROVE ProofGood(g)'
  OBVIOUS
<1>0. TypeOK /\ ProofGood(g)
  BY DEF ProofInv, QueueInv, ProofsBehind, VerifiedMeansCovered, ProofGood
<1>1. UNCHANGED <<note, key, gen, row, job>>
  BY Zenon DEF VerifierStep, ReadPage, Attest, AbandonVerification
<1>2. CASE proof'[g] = proof[g]
  <2>1. Harmless(g)
    BY <1>1, <1>2, Zenon DEF Harmless, Untouched, SameNote, Usable, Pending
  <2>2. QED
    BY <2>1, ProofKept
<1>3. CASE Attest /\ g = verifier.gen
  <2>1. /\ proof'[g] = [token |-> verifier.token, rows |-> verifier.rows]
        /\ Live(g) /\ gen[g].token = verifier.token
        /\ Complete(g) /\ verifier.rows = Attestation(g)
    BY <1>0, <1>3, Zenon DEF Attest, TypeOK
  <2>2. Complete(g)' /\ Attestation(g)' = Attestation(g)
    BY <1>1, <2>1, CompleteKept, Zenon DEF SameNote, Usable, Pending, Complete
  <2>3. gen'[g] = gen[g] /\ gen[g].state # "none" /\ gen[g].token \in Nat
    BY <1>0, <1>1, <2>1, TokenType, SMT DEF Live
  <2>4. QED
    BY <2>1, <2>2, <2>3, SMT DEF ProofGood
<1>4. QED
  <2>1. proof' = proof \/ (Attest /\ proof' = [proof EXCEPT ![verifier.gen] =
                                              [token |-> verifier.token, rows |-> verifier.rows]])
    BY Zenon DEF VerifierStep, ReadPage, Attest, AbandonVerification
  <2>2. QED
    BY <1>0, <1>2, <1>3, <2>1, Zenon DEF TypeOK

LEMMA ProofStepInv == ProofInv /\ [Next]_vars => ProofInv'
<1> SUFFICES ASSUME ProofInv, [Next]_vars PROVE ProofInv'
  OBVIOUS
<1>1. QueueInv'
  BY QueueStepInv DEF ProofInv
<1>2. CASE UNCHANGED vars
  <2>1. \A g \in Gens : Harmless(g)
    BY <1>2, Zenon DEF vars, Harmless, Untouched, SameNote, Usable, Pending
  <2>2. \A g \in Gens : ProofGood(g)'
    BY <2>1, ProofKept
  <2>3. QED
    BY <1>1, <2>2 DEF ProofInv, ProofGood, ProofsBehind, VerifiedMeansCovered
<1>3. CASE Next
  <2>1. \A g \in Gens : ProofGood(g)'
    BY <1>3, OwnerProof, QueueProof, ControlProof, VerifierProof DEF Next
  <2>2. QED
    BY <1>1, <2>1 DEF ProofInv, ProofGood, ProofsBehind, VerifiedMeansCovered
<1>4. QED
  BY <1>2, <1>3

\* Search and the organizer read a true index: a proof under a generation's
\* present token says what the notes, keys and rows are now.
THEOREM ProofsAreTrue == Spec => []VerifiedMeansCovered
<1>1. ProofInv => VerifiedMeansCovered
  BY DEF ProofInv
<1>2. QED
  BY <1>1, ProofInit, ProofStepInv, PTL DEF Spec

-----------------------------------------------------------------------------
(* When a generation stops being served.                                   *)

LEMMA ServedUntilSwitch == TypeOK /\ [Next]_vars => SwitchStep
<1> SUFFICES ASSUME TypeOK, [Next]_vars, NEW g \in Gens,
                    gen[g].state = "active", gen'[g].state # "active"
             PROVE  \E h \in Gens : gen'[h].state = "active" /\ Attested(h)
  BY Zenon DEF SwitchStep
<1>0. gen[g] \in GenType /\ Bump(g) \in GenType /\ Bump(g).state = gen[g].state
  BY BumpedRow DEF TypeOK
<1>1. ASSUME NEW h \in Gens, Activate(h)
      PROVE  gen'[h].state = "active" /\ Attested(h)
  <2>1. Bump(h) \in GenType
    BY BumpedRow DEF TypeOK
  <2>2. gen'[h] = [Bump(h) EXCEPT !.state = "active", !.indexed = Cardinality(Covered(h))]
    BY <1>1, Zenon DEF Activate
  <2>3. gen'[h].state = "active"
    BY <2>1, <2>2, Zenon DEF GenType
  <2>4. QED
    BY <1>1, <2>3 DEF Activate, Attested, Live
<1>2. CASE OwnerStep
  <2>1. ASSUME NEW n \in Notes, NEW kind \in {"eligible", "hidden"}, CreateNote(n, kind)
        PROVE  gen'[g].state = gen[g].state
    <3>1. gen'[g] = [gen[g] EXCEPT !.expected = @ + 1, !.token = @ + 1] \/ gen'[g] = gen[g]
      BY <2>1, Zenon DEF CreateNote
    <3>2. QED
      BY <1>0, <3>1, Zenon DEF GenType
  <2>2. ASSUME NEW n \in Notes, NEW kind \in {"eligible", "hidden"},
               WriteNote(n, kind) \/ PurgeNote(n)
        PROVE  gen'[g].state = gen[g].state
    <3>1. CASE WriteNote(n, kind)
      <4>1. PICK notes, rows : gen'[g] = IF Live(g) THEN Recounted(g, notes, rows) ELSE gen[g]
        BY <3>1, Zenon DEF WriteNote
      <4>2. QED
        BY <1>0, <4>1, Zenon DEF Recounted, GenType
    <3>2. CASE PurgeNote(n)
      <4>1. gen'[g] = Recounted(g, note', row') \/ gen'[g] = gen[g]
        BY <3>2, Zenon DEF PurgeNote
      <4>2. QED
        BY <1>0, <4>1, Zenon DEF Recounted, GenType
    <3>3. QED
      BY <2>2, <3>1, <3>2
  <2>3. ASSUME NEW k \in Keys, RotateKey(k) \/ RevokeKey(k)
        PROVE  gen'[g].state = gen[g].state
    <3>1. gen'[g] = Bump(g) \/ gen'[g] = gen[g]
      BY <2>3, Zenon DEF RotateKey, RevokeKey
    <3>2. QED
      BY <1>0, <3>1
  <2>4. ASSUME NEW t \in Targets, Deploy(t)
        PROVE  gen'[g].state = gen[g].state
    BY <2>4 DEF Deploy
  <2>5. QED
    BY <1>2, <2>1, <2>2, <2>3, <2>4, Zenon DEF OwnerStep
<1>3. CASE QueueStep
  <2>1. ASSUME NEW w \in Work, Commit(w) PROVE gen'[g].state = gen[g].state
    <3> DEFINE covered == Cardinality(Covered(w.gen) \cup {w.note})
               i == IF covered < gen[w.gen].expected THEN covered ELSE gen[w.gen].expected
    <3>1. gen' = [gen EXCEPT ![w.gen] = [Bump(w.gen) EXCEPT !.indexed = i]]
      BY <2>1, Zenon DEF Commit
    <3> HIDE DEF covered, i
    <3>2. gen'[g] = gen[g] \/ gen'[g] = [Bump(g) EXCEPT !.indexed = i]
      BY <3>1, Zenon DEF TypeOK
    <3>3. QED
      BY <1>0, <3>2, Zenon DEF GenType
  <2>2. QED
    BY <1>3, <2>1, Zenon DEF QueueStep, ClaimTerminal, ClaimLease, Expire, Recover, CommitRefused, Fail
<1>4. CASE ControlStep
  <2>1. PICK h \in Gens :
          \/ \E t \in Targets : Ensure(h, t)
          \/ \E after \in Notes \cup {0}, last \in Notes \cup {0} : Seed(h, after, last)
          \/ FailGeneration(h) \/ Activate(h) \/ StartVerification(h)
    BY <1>4, Zenon DEF ControlStep
  <2>2. CASE \E t \in Targets : Ensure(h, t)
    BY <2>2, SMT DEF Ensure, TypeOK
  <2>3. CASE \E after \in Notes \cup {0}, last \in Notes \cup {0} : Seed(h, after, last)
    <3>1. h # g /\ gen' = [gen EXCEPT ![h] = [Bump(h) EXCEPT !.expected = Cardinality(Eligible)]]
      BY <2>3, SMT DEF Seed
    <3>2. QED
      BY <3>1, Zenon DEF TypeOK
  <2>4. CASE FailGeneration(h)
    <3>1. h # g /\ gen' = [gen EXCEPT ![h] = [Bump(h) EXCEPT !.state = "failed"]]
      BY <2>4, SMT DEF FailGeneration
    <3>2. QED
      BY <3>1, Zenon DEF TypeOK
  <2>5. CASE Activate(h)
    BY <1>1, <2>5
  <2>6. CASE StartVerification(h)
    BY <2>6 DEF StartVerification
  <2>7. QED
    BY <2>1, <2>2, <2>3, <2>4, <2>5, <2>6
<1>5. CASE VerifierStep \/ UNCHANGED vars
  BY <1>5 DEF VerifierStep, ReadPage, Attest, AbandonVerification, vars
<1>6. QED
  BY <1>2, <1>3, <1>4, <1>5 DEF Next

\* An index that is served is served until the step that activates its
\* verified successor: no failure, write or revocation takes it away.
THEOREM ServedIndexStays == Spec => SwitchIsAtomic
<1>1. TypeOK /\ [Next]_vars => [SwitchStep]_vars
  BY ServedUntilSwitch
<1>2. QED
  BY <1>1, TypeCorrect, PTL DEF Spec, SwitchIsAtomic

-----------------------------------------------------------------------------
(* Every row was written by a job that is still there; a served generation  *)
(* has a job for every eligible note; rows are under keys that have been    *)
(* active; a generation that was never built has no rows.                   *)

RowsWorked == \A w \in Work : row[w.gen][w.note].rev = w.rev => job[w] # NoJob
ServedWorked ==
  \A w \in Work :
    gen[w.gen].state = "active" /\ note[w.note].kind = "eligible" /\ note[w.note].rev = w.rev
      => job[w] # NoJob
RowsKeyed == \A g \in Gens : \A n \in Rows(g) : key[row[g][n].key] # "pending"
UnbuiltEmpty == \A g \in Gens : gen[g].state = "none" => \A n \in Notes : row[g][n] = NoRow
RowInv == QueueInv /\ RowsWorked /\ ServedWorked /\ RowsKeyed /\ UnbuiltEmpty

\* What nearly every step leaves of a job and of a row.
JobStays(w) == job[w] # NoJob => job'[w] # NoJob
RowStays(g, n) == row'[g][n] = row[g][n] \/ row'[g][n] = NoRow

LEMMA RowsFrom ==
  ASSUME RowInv, TypeOK',
         \A w \in Work : \/ JobStays(w)
                         \/ row'[w.gen][w.note] = NoRow /\ note'[w.note].kind # "eligible",
         \A w \in Work : \/ RowStays(w.gen, w.note)
                         \/ row'[w.gen][w.note].rev # w.rev
                         \/ job'[w] # NoJob,
         \A w \in Work : \/ gen'[w.gen].state # "active"
                         \/ gen[w.gen].state = "active" /\ note'[w.note] = note[w.note]
                         \/ note'[w.note].kind # "eligible"
                         \/ note'[w.note].rev # w.rev
                         \/ job'[w] # NoJob,
         \A g \in Gens, n \in Notes : \/ RowStays(g, n)
                                      \/ gen'[g].state # "none" /\ key'[row'[g][n].key] # "pending",
         \A k \in Keys : key[k] # "pending" => key'[k] # "pending",
         \A g \in Gens : gen'[g].state = "none" => gen[g].state = "none"
  PROVE  RowsWorked' /\ ServedWorked' /\ RowsKeyed' /\ UnbuiltEmpty'
<1>0. NoRow.rev = 0
  BY SMT DEF NoRow
<1>1. RowsWorked'
  <2> SUFFICES ASSUME NEW w \in Work, row'[w.gen][w.note].rev = w.rev PROVE job'[w] # NoJob
    BY DEF RowsWorked
  <2>1. w.rev # 0
    BY SMT DEF Work, Revisions
  <2>2. row'[w.gen][w.note] # NoRow
    BY <1>0, <2>1
  <2>3. CASE row'[w.gen][w.note] = row[w.gen][w.note]
    BY <2>2, <2>3, Zenon DEF RowInv, RowsWorked, JobStays
  <2>4. QED
    BY <2>2, <2>3, Zenon DEF RowStays
<1>2. ServedWorked'
  <2> SUFFICES ASSUME NEW w \in Work, gen'[w.gen].state = "active",
                      note'[w.note].kind = "eligible", note'[w.note].rev = w.rev
               PROVE  job'[w] # NoJob
    BY DEF ServedWorked
  <2>1. CASE gen[w.gen].state = "active" /\ note'[w.note] = note[w.note]
    BY <2>1, Zenon DEF RowInv, ServedWorked, JobStays
  <2>2. QED
    BY <2>1
<1>3. RowsKeyed'
  <2> SUFFICES ASSUME NEW g \in Gens, NEW n \in Notes, row'[g][n] # NoRow
               PROVE  key'[row'[g][n].key] # "pending"
    BY Zenon DEF RowsKeyed, Rows
  <2>1. CASE row'[g][n] = row[g][n]
    <3>1. n \in Rows(g) /\ row[g][n].key \in Keys
      BY <2>1, AttestationType DEF Rows, RowInv, QueueInv
    <3>2. QED
      BY <2>1, <3>1 DEF RowInv, RowsKeyed
  <2>2. QED
    BY <2>1, Zenon DEF RowStays
<1>4. UnbuiltEmpty'
  BY Zenon DEF RowInv, UnbuiltEmpty, RowStays
<1>5. QED
  BY <1>1, <1>2, <1>3, <1>4

LEMMA RowInit == Init => RowInv
<1> SUFFICES ASSUME Init PROVE RowInv
  OBVIOUS
<1>1. QueueInv
  BY QueueInit
<1>2. /\ \A g \in Gens : gen[g].state = "none"
      /\ \A g \in Gens, n \in Notes : row[g][n] = NoRow
  BY SMT DEF Init, NoGeneration
<1>3. \A w \in Work : w.gen \in Gens /\ w.note \in Notes /\ w.rev # 0
  BY SMT DEF Work, Revisions
<1>4. NoRow.rev = 0
  BY SMT DEF NoRow
<1>5. RowsWorked /\ ServedWorked
  BY <1>2, <1>3, <1>4, SMT DEF RowsWorked, ServedWorked
<1>6. QED
  BY <1>1, <1>2, <1>5, Zenon DEF RowInv, RowsKeyed, Rows, UnbuiltEmpty

LEMMA RowCut ==
  ASSUME RowInv, NEW g \in Gens, NEW n \in Notes,
         row'[g] = row[g] \/ row'[g] = [row[g] EXCEPT ![n] = NoRow]
  PROVE  /\ \A m \in Notes : RowStays(g, m)
         /\ row'[g] = [row[g] EXCEPT ![n] = NoRow] => row'[g][n] = NoRow
<1>1. row[g] \in [Notes -> RowType]
  BY DEF RowInv, QueueInv, TypeOK
<1>2. ASSUME row'[g] = [row[g] EXCEPT ![n] = NoRow]
      PROVE  row'[g][n] = NoRow /\ \A m \in Notes \ {n} : row'[g][m] = row[g][m]
  BY <1>1, <1>2, Zenon
<1>3. QED
  BY <1>2, Zenon DEF RowStays

\* A generation that is not built stays so until it is ensured, and a key
\* never waits again.
LEMMA OwnerRows == RowInv /\ OwnerStep => RowsWorked' /\ ServedWorked' /\ RowsKeyed' /\ UnbuiltEmpty'
<1> SUFFICES ASSUME RowInv, OwnerStep
             PROVE  RowsWorked' /\ ServedWorked' /\ RowsKeyed' /\ UnbuiltEmpty'
  OBVIOUS
<1>0. /\ TypeOK /\ TypeOK' /\ HiddenNeverIndexed
      /\ \A g \in Gens : gen[g] \in GenType
      /\ \A w \in Work : w.gen \in Gens /\ w.note \in Notes
  BY OwnerTypes DEF RowInv, QueueInv, TypeOK, Work
<1>1. ASSUME NEW n \in Notes, NEW kind \in {"eligible", "hidden"}, CreateNote(n, kind)
      PROVE  RowsWorked' /\ ServedWorked' /\ RowsKeyed' /\ UnbuiltEmpty'
  <2>1. PICK k \in ActiveKeys :
          LET c == [rev |-> 1, kind |-> kind, key |-> k] IN
          /\ note' = [note EXCEPT ![n] = c]
          /\ job' = Enqueued(n, c, job)
    BY <1>1, Zenon DEF CreateNote
  <2> DEFINE c == [rev |-> 1, kind |-> kind, key |-> k]
  <2>2. note' = [note EXCEPT ![n] = c] /\ job' = Enqueued(n, c, job)
    BY <2>1
  <2> HIDE DEF c
  <2>3. /\ row' = row /\ key' = key
        /\ \A g \in Gens : gen'[g].state = gen[g].state
    <3>1. row' = row /\ key' = key
      BY <1>1 DEF CreateNote
    <3>2. \A g \in Gens : \/ gen'[g] = [gen[g] EXCEPT !.expected = @ + 1, !.token = @ + 1]
                          \/ gen'[g] = gen[g]
      BY <1>1, Zenon DEF CreateNote
    <3>3. QED
      BY <1>0, <3>1, <3>2, Zenon DEF GenType
  <2>4. \A w \in Work : JobStays(w)
    BY <2>2, QueuedRow DEF Enqueued, JobStays
  <2>5. ASSUME NEW w \in Work, gen'[w.gen].state = "active", note'[w.note].kind = "eligible",
               note'[w.note].rev = w.rev
        PROVE  \/ gen[w.gen].state = "active" /\ note'[w.note] = note[w.note]
               \/ job'[w] # NoJob
    <3>1. gen[w.gen].state = "active" /\ Live(w.gen)
      BY <1>0, <2>3, <2>5 DEF Live
    <3>2. CASE w.note # n
      BY <1>0, <2>2, <3>1, <3>2, Zenon DEF TypeOK
    <3>3. CASE w.note = n
      <4>1. c.kind = "eligible" /\ w.rev = c.rev
        BY <1>0, <2>2, <2>5, <3>3, Zenon DEF TypeOK
      <4>2. job'[w] = IF job[w] = NoJob THEN Queued ELSE job[w]
        BY <2>2, <3>1, <3>3, <4>1 DEF Enqueued
      <4>3. QED
        BY <4>2, QueuedRow
    <3>4. QED
      BY <3>2, <3>3
  <2>6. QED
    BY <1>0, <2>3, <2>4, <2>5, RowsFrom DEF RowStays
<1>2. ASSUME NEW n \in Notes, NEW kind \in {"eligible", "hidden"}, WriteNote(n, kind)
      PROVE  RowsWorked' /\ ServedWorked' /\ RowsKeyed' /\ UnbuiltEmpty'
  <2>1. PICK k \in ActiveKeys :
          LET c == [rev |-> note[n].rev + 1, kind |-> kind, key |-> k]
              notes == [note EXCEPT ![n] = c]
          IN /\ note' = notes
             /\ row' = RowsAfter(n, c)
             /\ job' = Enqueued(n, c, JobsAfter(n, c))
             /\ gen' = [g \in Gens |->
                  IF Live(g) THEN Recounted(g, notes, RowsAfter(n, c)) ELSE gen[g]]
    BY <1>2, Zenon DEF WriteNote
  <2> DEFINE c == [rev |-> note[n].rev + 1, kind |-> kind, key |-> k]
  <2>2. /\ note' = [note EXCEPT ![n] = c] /\ row' = RowsAfter(n, c)
        /\ job' = Enqueued(n, c, JobsAfter(n, c))
        /\ gen' = [g \in Gens |->
             IF Live(g) THEN Recounted(g, [note EXCEPT ![n] = c], RowsAfter(n, c)) ELSE gen[g]]
    BY <2>1
  <2> HIDE DEF c
  <2>3. key' = key /\ \A g \in Gens : gen'[g].state = gen[g].state
    <3>1. \A g \in Gens : \/ gen'[g] = Recounted(g, [note EXCEPT ![n] = c], RowsAfter(n, c))
                          \/ gen'[g] = gen[g]
      BY <2>2, Zenon
    <3>2. QED
      BY <1>0, <1>2, <3>1, Zenon DEF WriteNote, Recounted, GenType
  <2>4. \A g \in Gens, m \in Notes : RowStays(g, m)
    <3>1. \A g \in Gens : row'[g] = row[g] \/ row'[g] = [row[g] EXCEPT ![n] = NoRow]
      BY <2>2, Zenon DEF RowsAfter
    <3>2. QED
      BY <3>1, RowCut
  <2>5. \A w \in Work : JobStays(w)
    <3>1. \A w \in Work : job[w] # NoJob => JobsAfter(n, c)[w] # NoJob
      BY <1>0, InvalidatedJobs, Zenon
    <3>2. QED
      BY <2>2, <3>1, QueuedRow DEF Enqueued, JobStays
  <2>6. ASSUME NEW w \in Work, gen'[w.gen].state = "active", note'[w.note].kind = "eligible",
               note'[w.note].rev = w.rev
        PROVE  \/ gen[w.gen].state = "active" /\ note'[w.note] = note[w.note]
               \/ job'[w] # NoJob
    <3>1. gen[w.gen].state = "active" /\ Live(w.gen)
      BY <1>0, <2>3, <2>6 DEF Live
    <3>2. CASE w.note # n
      BY <1>0, <2>2, <3>1, <3>2, Zenon DEF TypeOK
    <3>3. CASE w.note = n
      <4>1. c.kind = "eligible" /\ w.rev = c.rev
        BY <1>0, <2>2, <2>6, <3>3, Zenon DEF TypeOK
      <4>2. job'[w] = IF JobsAfter(n, c)[w] = NoJob THEN Queued ELSE JobsAfter(n, c)[w]
        BY <2>2, <3>1, <3>3, <4>1 DEF Enqueued
      <4>3. QED
        BY <4>2, QueuedRow
    <3>4. QED
      BY <3>2, <3>3
  <2>7. QED
    BY <1>0, <2>3, <2>4, <2>5, <2>6, RowsFrom
<1>3. ASSUME NEW n \in Notes, PurgeNote(n)
      PROVE  RowsWorked' /\ ServedWorked' /\ RowsKeyed' /\ UnbuiltEmpty'
  <2>1. key' = key /\ \A g \in Gens : gen'[g].state = gen[g].state
    <3>1. \A g \in Gens : gen'[g] = Recounted(g, note', row') \/ gen'[g] = gen[g]
      BY <1>3, Zenon DEF PurgeNote
    <3>2. QED
      BY <1>0, <1>3, <3>1, Zenon DEF PurgeNote, Recounted, GenType
  <2>2. /\ \A m \in Notes \ {n} : note'[m] = note[m]
        /\ note'[n].kind = "purged"
    <3>1. note' = [note EXCEPT ![n] = [NoNote EXCEPT !.kind = "purged"]]
      BY <1>3, Zenon DEF PurgeNote
    <3>2. [NoNote EXCEPT !.kind = "purged"].kind = "purged"
      BY SMT DEF NoNote
    <3>3. QED
      BY <1>0, <3>1, <3>2, Zenon DEF TypeOK
  <2>3. \A g \in Gens : row'[g] = [row[g] EXCEPT ![n] = NoRow]
    BY <1>3, Zenon DEF PurgeNote
  <2>4. \A g \in Gens : row'[g][n] = NoRow /\ \A m \in Notes : RowStays(g, m)
    BY <2>3, RowCut
  <2>5. \A w \in Work : w.note # n => job'[w] = job[w]
    BY <1>3, Zenon DEF PurgeNote
  <2>6. \A w \in Work : \/ JobStays(w)
                        \/ row'[w.gen][w.note] = NoRow /\ note'[w.note].kind # "eligible"
    BY <1>0, <2>2, <2>4, <2>5, SMT DEF JobStays
  <2>7. QED
    BY <1>0, <2>1, <2>2, <2>4, <2>6, RowsFrom
<1>4. ASSUME UNCHANGED <<note, row, job>>, \A g \in Gens : gen'[g].state = gen[g].state,
             \A i \in Keys : key[i] # "pending" => key'[i] # "pending"
      PROVE  RowsWorked' /\ ServedWorked' /\ RowsKeyed' /\ UnbuiltEmpty'
  BY <1>0, <1>4, RowsFrom DEF RowStays, JobStays
<1>5. ASSUME NEW k \in Keys, RotateKey(k)
      PROVE  RowsWorked' /\ ServedWorked' /\ RowsKeyed' /\ UnbuiltEmpty'
  <2>1. \A i \in Keys : key[i] # "pending" => key'[i] # "pending"
    BY <1>5, SMT DEF RotateKey
  <2>2. QED
    BY <1>4, <1>5, <2>1 DEF RotateKey
<1>6. ASSUME NEW k \in Keys, RevokeKey(k)
      PROVE  RowsWorked' /\ ServedWorked' /\ RowsKeyed' /\ UnbuiltEmpty'
  <2>1. \A i \in Keys : key[i] # "pending" => key'[i] # "pending"
    BY <1>0, <1>6, SMT DEF RevokeKey, TypeOK
  <2>2. \A g \in Gens : gen'[g] = Bump(g) \/ gen'[g] = gen[g]
    BY <1>6, Zenon DEF RevokeKey
  <2>3. \A g \in Gens : Bump(g).state = gen[g].state
    BY <1>0, BumpedRow DEF TypeOK
  <2>4. UNCHANGED <<note, row, job>>
    BY <1>6 DEF RevokeKey
  <2>5. QED
    BY <1>4, <2>1, <2>2, <2>3, <2>4
<1>7. ASSUME NEW t \in Targets, Deploy(t)
      PROVE  RowsWorked' /\ ServedWorked' /\ RowsKeyed' /\ UnbuiltEmpty'
  BY <1>4, <1>7 DEF Deploy
<1>8. QED
  BY <1>1, <1>2, <1>3, <1>5, <1>6, <1>7, Zenon DEF OwnerStep

LEMMA QueueRows == RowInv /\ QueueStep => RowsWorked' /\ ServedWorked' /\ RowsKeyed' /\ UnbuiltEmpty'
<1> SUFFICES ASSUME RowInv, NEW w \in Work,
                    \/ ClaimTerminal(w) \/ ClaimLease(w) \/ Expire(w) \/ Recover(w)
                    \/ CommitRefused(w) \/ Commit(w)
                    \/ \E retryable \in BOOLEAN : Fail(w, retryable)
             PROVE  RowsWorked' /\ ServedWorked' /\ RowsKeyed' /\ UnbuiltEmpty'
  BY Zenon DEF QueueStep
<1>0. /\ TypeOK /\ TypeOK'
      /\ \A g \in Gens : gen[g] \in GenType
      /\ w.gen \in Gens /\ w.note \in Notes /\ w.rev \in Revisions
  BY QueueTypes, Zenon DEF RowInv, QueueInv, TypeOK, Work, QueueStep
<1>1. note' = note /\ key' = key
  BY Zenon DEF ClaimTerminal, ClaimLease, Expire, Recover, CommitRefused, Commit, Fail
<1>2. /\ job'[w] # NoJob
      /\ \A v \in Work \ {w} : job'[v] = job[v]
  <2>1. ASSUME NEW j, job' = [job EXCEPT ![w] = j], j # NoJob
        PROVE  job'[w] # NoJob /\ \A v \in Work \ {w} : job'[v] = job[v]
    BY <1>0, <2>1, Zenon DEF TypeOK
  <2>2. \A s \in {"queued", "succeeded", "failed"} : Finish(w, s) # NoJob
    BY <1>0, FinishedRow DEF TypeOK
  <2>3. CASE ClaimTerminal(w) \/ CommitRefused(w) \/ Commit(w)
    BY <2>1, <2>2, <2>3 DEF ClaimTerminal, CommitRefused, Commit
  <2>4. CASE Recover(w) \/ \E retryable \in BOOLEAN : Fail(w, retryable)
    <3>1. job' = [job EXCEPT ![w] = Finish(w, "queued")] \/ job' = [job EXCEPT ![w] = Finish(w, "failed")]
      BY <2>4, Zenon DEF Recover, Fail
    <3>2. QED
      BY <2>1, <2>2, <3>1
  <2>5. CASE ClaimLease(w)
    <3>1. PICK k \in ActiveKeys :
            job' = [job EXCEPT ![w] = [state |-> "leased", attempt |-> job[w].attempt + 1,
                                       lease |-> "live", key |-> k]]
      BY <2>5, Zenon DEF ClaimLease
    <3>2. [state |-> "leased", attempt |-> job[w].attempt + 1, lease |-> "live", key |-> k] # NoJob
      BY SMT DEF NoJob
    <3>3. QED
      BY <2>1, <3>1, <3>2
  <2>6. CASE Expire(w)
    <3>1. job[w] \in JobType /\ job' = [job EXCEPT ![w] = [job[w] EXCEPT !.lease = "expired"]]
      BY <1>0, <2>6, Zenon DEF Expire, TypeOK
    <3>2. [job[w] EXCEPT !.lease = "expired"].lease = "expired"
      BY <3>1, Zenon DEF JobType
    <3>3. NoJob.lease = "none"
      BY SMT DEF NoJob
    <3>4. QED
      BY <2>1, <3>1, <3>2, <3>3
  <2>7. QED
    BY <2>3, <2>4, <2>5, <2>6
<1>3. \A v \in Work : JobStays(v)
  BY <1>2, SMT DEF JobStays
<1>4. CASE gen' = gen /\ row' = row
  BY <1>0, <1>1, <1>3, <1>4, RowsFrom DEF RowStays
<1>5. CASE Commit(w)
  <2> DEFINE covered == Cardinality(Covered(w.gen) \cup {w.note})
             i == IF covered < gen[w.gen].expected THEN covered ELSE gen[w.gen].expected
  <2>1. /\ gen' = [gen EXCEPT ![w.gen] = [Bump(w.gen) EXCEPT !.indexed = i]]
        /\ row' = [row EXCEPT ![w.gen][w.note] = [rev |-> w.rev, key |-> job[w].key]]
        /\ job[w].key \in ActiveKeys /\ Live(w.gen)
    BY <1>5, Zenon DEF Commit, Workable
  <2> HIDE DEF covered, i
  <2>2. \A g \in Gens : gen'[g] = gen[g] \/ gen'[g] = [Bump(g) EXCEPT !.indexed = i]
    BY <1>0, <2>1, Zenon DEF TypeOK
  <2>3. \A g \in Gens : Bump(g) \in GenType /\ Bump(g).state = gen[g].state
    BY <1>0, BumpedRow DEF TypeOK
  <2>4. \A g \in Gens : gen'[g].state = gen[g].state
    BY <2>2, <2>3, Zenon DEF GenType
  <2>5. \A g \in Gens, n \in Notes :
          IF g = w.gen /\ n = w.note THEN row'[g][n] = [rev |-> w.rev, key |-> job[w].key]
                                   ELSE row'[g][n] = row[g][n]
    BY <1>0, <2>1, SMT DEF TypeOK
  <2>6. ASSUME NEW v \in Work
        PROVE  RowStays(v.gen, v.note) \/ row'[v.gen][v.note].rev # v.rev \/ job'[v] # NoJob
    <3>1. v.gen \in Gens /\ v.note \in Notes
      BY DEF Work
    <3>2. CASE v.gen = w.gen /\ v.note = w.note /\ v.rev = w.rev
      <4>1. v = w
        BY <3>2, SMT DEF Work
      <4>2. QED
        BY <1>2, <4>1
    <3>3. CASE v.gen = w.gen /\ v.note = w.note /\ v.rev # w.rev
      <4>1. row'[v.gen][v.note] = [rev |-> w.rev, key |-> job[w].key]
        BY <2>5, <3>1, <3>3
      <4>2. QED
        BY <3>3, <4>1
    <3>4. CASE ~(v.gen = w.gen /\ v.note = w.note)
      BY <2>5, <3>1, <3>4 DEF RowStays
    <3>5. QED
      BY <3>2, <3>3, <3>4
  <2>7. \A g \in Gens, n \in Notes : \/ RowStays(g, n)
                                     \/ gen'[g].state # "none" /\ key'[row'[g][n].key] # "pending"
    <3> SUFFICES ASSUME NEW g \in Gens, NEW n \in Notes, g = w.gen /\ n = w.note
                 PROVE  gen'[g].state # "none" /\ key'[row'[g][n].key] # "pending"
      BY <2>5, Zenon DEF RowStays
    <3>1. row'[g][n].key = job[w].key
      BY <2>5
    <3>2. QED
      BY <1>1, <2>1, <2>4, <3>1, SMT DEF Live, ActiveKeys
  <2>8. \A v \in Work : gen'[v.gen].state = gen[v.gen].state
    BY <2>4 DEF Work
  <2>9. QED
    BY <1>0, <1>1, <1>3, <2>4, <2>6, <2>7, <2>8, RowsFrom
<1>6. QED
  BY <1>4, <1>5, Zenon DEF ClaimTerminal, ClaimLease, Expire, Recover, CommitRefused, Fail

LEMMA ControlRows == RowInv /\ ControlStep => RowsWorked' /\ ServedWorked' /\ RowsKeyed' /\ UnbuiltEmpty'
<1> SUFFICES ASSUME RowInv, NEW g \in Gens,
                    \/ \E t \in Targets : Ensure(g, t)
                    \/ \E after \in Notes \cup {0}, last \in Notes \cup {0} : Seed(g, after, last)
                    \/ FailGeneration(g) \/ Activate(g) \/ StartVerification(g)
             PROVE  RowsWorked' /\ ServedWorked' /\ RowsKeyed' /\ UnbuiltEmpty'
  BY Zenon DEF ControlStep
<1>0. /\ TypeOK /\ TypeOK'
      /\ \A h \in Gens : gen[h] \in GenType /\ Bump(h) \in GenType /\ Bump(h).state = gen[h].state
      /\ \A w \in Work : w.gen \in Gens /\ w.note \in Notes
  BY ControlTypes, BumpedRow, Zenon DEF RowInv, QueueInv, TypeOK, Work, ControlStep
<1>1. note' = note /\ key' = key /\ row' = row
  BY Zenon DEF Ensure, Seed, FailGeneration, Activate, StartVerification
<1>2. ASSUME \A w \in Work : JobStays(w),
             \A h \in Gens : gen'[h].state = "none" => gen[h].state = "none",
             \A h \in Gens : gen'[h].state = "active" => gen[h].state = "active"
      PROVE  RowsWorked' /\ ServedWorked' /\ RowsKeyed' /\ UnbuiltEmpty'
  BY <1>0, <1>1, <1>2, RowsFrom DEF RowStays
<1>3. ASSUME NEW t \in Targets, Ensure(g, t)
      PROVE  RowsWorked' /\ ServedWorked' /\ RowsKeyed' /\ UnbuiltEmpty'
  <2>1. \A h \in Gens : gen'[h] = gen[h] \/ gen'[h].state = "building"
    BY <1>0, <1>3, SMT DEF Ensure, TypeOK
  <2>2. job' = job
    BY <1>3 DEF Ensure
  <2>3. QED
    BY <1>2, <2>1, <2>2 DEF JobStays
<1>4. ASSUME NEW after \in Notes \cup {0}, NEW last \in Notes \cup {0}, Seed(g, after, last)
      PROVE  RowsWorked' /\ ServedWorked' /\ RowsKeyed' /\ UnbuiltEmpty'
  <2>1. \A h \in Gens : gen'[h] = gen[h] \/ gen'[h] = [Bump(h) EXCEPT !.expected = Cardinality(Eligible)]
    BY <1>0, <1>4, Zenon DEF Seed, TypeOK
  <2>2. \A h \in Gens : gen'[h].state = gen[h].state
    BY <1>0, <2>1, Zenon DEF GenType
  <2>3. \A w \in Work : job'[w] = Queued \/ job'[w] = job[w]
    BY <1>4, Zenon DEF Seed
  <2>4. QED
    BY <1>2, <2>2, <2>3, QueuedRow DEF JobStays
<1>5. CASE FailGeneration(g)
  <2>1. \A h \in Gens : gen'[h] = gen[h] \/ gen'[h] = [Bump(h) EXCEPT !.state = "failed"]
    BY <1>0, <1>5, Zenon DEF FailGeneration, TypeOK
  <2>2. \A h \in Gens : gen'[h] = gen[h] \/ gen'[h].state = "failed"
    BY <1>0, <2>1, Zenon DEF GenType
  <2>3. job' = job
    BY <1>5 DEF FailGeneration
  <2>4. QED
    BY <1>2, <2>2, <2>3 DEF JobStays
<1>6. CASE Activate(g)
  <2>1. \A h \in Gens \ {g} : gen'[h] = gen[h] \/ gen'[h] = [Bump(h) EXCEPT !.state = "retired"]
    BY <1>6, Zenon DEF Activate
  <2>2. \A h \in Gens \ {g} : gen'[h] = gen[h] \/ gen'[h].state = "retired"
    BY <1>0, <2>1, Zenon DEF GenType
  <2>3. gen[g].state = "building" /\ job' = job
    BY <1>6 DEF Activate
  <2>4. gen'[g].state = "active"
    <3>1. gen'[g] = [Bump(g) EXCEPT !.state = "active", !.indexed = Cardinality(Covered(g))]
      BY <1>6, Zenon DEF Activate
    <3>2. QED
      BY <1>0, <3>1, Zenon DEF GenType
  <2>5. ASSUME NEW w \in Work, w.gen = g, note[w.note].kind = "eligible", note[w.note].rev = w.rev
        PROVE  job[w] # NoJob
    <3>1. w.note \in Covered(g)
      BY <1>0, <1>6, <2>5, Zenon DEF Activate, Complete, Eligible
    <3>2. row[g][w.note].rev = w.rev
      BY <2>5, <3>1 DEF Covered, Current
    <3>3. QED
      BY <2>5, <3>2 DEF RowInv, RowsWorked
  <2>6. \A w \in Work : \/ gen'[w.gen].state # "active"
                        \/ gen[w.gen].state = "active" /\ note'[w.note] = note[w.note]
                        \/ note'[w.note].kind # "eligible"
                        \/ note'[w.note].rev # w.rev
                        \/ job'[w] # NoJob
    BY <1>0, <1>1, <2>2, <2>3, <2>5, SMT
  <2>7. \A h \in Gens : gen'[h].state = "none" => gen[h].state = "none"
    BY <2>2, <2>4
  <2>8. QED
    BY <1>0, <1>1, <2>3, <2>6, <2>7, RowsFrom DEF RowStays, JobStays
<1>7. CASE StartVerification(g)
  BY <1>2, <1>7 DEF StartVerification, JobStays
<1>8. QED
  BY <1>3, <1>4, <1>5, <1>6, <1>7

LEMMA RowStepInv == RowInv /\ [Next]_vars => RowInv'
<1> SUFFICES ASSUME RowInv, [Next]_vars PROVE RowInv'
  OBVIOUS
<1>1. QueueInv'
  BY QueueStepInv DEF RowInv
<1>2. CASE OwnerStep \/ QueueStep \/ ControlStep
  BY <1>1, <1>2, OwnerRows, QueueRows, ControlRows DEF RowInv
<1>3. CASE VerifierStep \/ UNCHANGED vars
  <2>1. UNCHANGED <<note, key, gen, row, job>>
    BY <1>3, Zenon DEF VerifierStep, ReadPage, Attest, AbandonVerification, vars
  <2>2. QED
    BY <1>1, <2>1, Zenon DEF RowInv, RowsWorked, ServedWorked, RowsKeyed, UnbuiltEmpty, Rows
<1>4. QED
  BY <1>2, <1>3 DEF Next

\* A note an active generation does not cover is not forgotten: the job for
\* its present revision is in the queue or known to have ended.
THEOREM NoGap == Spec => []NoSilentGap
<1>1. RowInv => NoSilentGap
  <2> SUFFICES ASSUME RowInv, NEW g \in Gens, gen[g].state = "active", NEW n \in Eligible
               PROVE  \E w \in Work : w.gen = g /\ w.note = n /\ w.rev = note[n].rev /\ job[w] # NoJob
    BY Zenon DEF NoSilentGap
  <2>1. n \in Notes /\ note[n].kind = "eligible" /\ note[n].rev \in Revisions
    BY NoteRow DEF Eligible, RowInv, QueueInv
  <2> DEFINE w == [gen |-> g, note |-> n, rev |-> note[n].rev]
  <2>2. w \in Work /\ w.gen = g /\ w.note = n /\ w.rev = note[n].rev
    BY <2>1 DEF Work
  <2>3. job[w] # NoJob
    BY <2>1, <2>2 DEF RowInv, ServedWorked
  <2> HIDE DEF w
  <2>4. QED
    BY <2>2, <2>3
<1>2. QED
  BY <1>1, RowInit, RowStepInv, PTL DEF Spec

-----------------------------------------------------------------------------
(* What a verification has opened: as long as the token it was given is the *)
(* generation's and the generation is live, exactly the rows up to its       *)
(* cursor, because every change of a live generation's rows moves the token. *)

RowsUpTo(g, c) == {<<n, row[g][n].rev, row[g][n].key>> : n \in {m \in Rows(g) : m <= c}}
OpenedToCursor ==
  verifier # Idle =>
    LET g == verifier.gen IN
    /\ gen[g].state # "none" /\ verifier.token <= gen[g].token
    /\ Live(g) /\ gen[g].token = verifier.token =>
         /\ verifier.opened = RowsUpTo(g, verifier.cursor)
         /\ verifier.digest = "attested" => \A n \in Rows(g) : n <= verifier.cursor
VerifierInv == QueueInv /\ OpenedToCursor

\* How a step treats a generation that has been built.
Tracked(g) ==
  \/ gen'[g].token = gen[g].token + 1 /\ gen'[g].state # "none"
  \/ gen'[g] = gen[g] /\ (row'[g] = row[g] \/ ~Live(g))

LEMMA OwnerTracks ==
  ASSUME QueueInv, OwnerStep, NEW g \in Gens, gen[g].state # "none"
  PROVE  Tracked(g)
<1>0. gen[g] \in GenType /\ Bump(g).token = gen[g].token + 1 /\ Bump(g).state = gen[g].state
  BY BumpedRow DEF QueueInv, TypeOK
<1>1. ASSUME NEW n \in Notes, NEW kind \in {"eligible", "hidden"}, CreateNote(n, kind)
      PROVE  Tracked(g)
  <2>1. row' = row /\ \/ gen'[g] = [gen[g] EXCEPT !.expected = @ + 1, !.token = @ + 1]
                      \/ gen'[g] = gen[g]
    BY <1>1, Zenon DEF CreateNote
  <2>2. CASE gen'[g] = [gen[g] EXCEPT !.expected = @ + 1, !.token = @ + 1]
    <3>1. gen'[g].token = gen[g].token + 1 /\ gen'[g].state = gen[g].state
      BY <1>0, <2>2, Zenon DEF GenType
    <3>2. QED
      BY <3>1 DEF Tracked
  <2>3. QED
    BY <2>1, <2>2 DEF Tracked
<1>2. ASSUME NEW n \in Notes, NEW kind \in {"eligible", "hidden"}, WriteNote(n, kind)
      PROVE  Tracked(g)
  <2>1. PICK notes, rows : gen'[g] = IF Live(g) THEN Recounted(g, notes, rows) ELSE gen[g]
    BY <1>2, Zenon DEF WriteNote
  <2>2. CASE Live(g)
    <3>1. gen'[g].token = gen[g].token + 1 /\ gen'[g].state = gen[g].state
      BY <1>0, <2>1, <2>2, Zenon DEF Recounted, GenType
    <3>2. QED
      BY <3>1 DEF Tracked
  <2>3. CASE ~Live(g)
    BY <2>1, <2>3 DEF Tracked
  <2>4. QED
    BY <2>2, <2>3
<1>3. ASSUME NEW n \in Notes, PurgeNote(n)
      PROVE  Tracked(g)
  <2>1. gen'[g] = Recounted(g, note', row') \/ gen'[g] = gen[g]
    BY <1>3, Zenon DEF PurgeNote
  <2>2. CASE gen'[g] = Recounted(g, note', row')
    <3>1. gen'[g].token = gen[g].token + 1 /\ gen'[g].state = gen[g].state
      BY <1>0, <2>2, Zenon DEF Recounted, GenType
    <3>2. QED
      BY <3>1 DEF Tracked
  <2>3. CASE gen'[g] = gen[g]
    <3>1. row[g][n] = NoRow /\ row[g] \in [Notes -> RowType]
      BY <1>3, SMT DEF PurgeNote, QueueInv, HiddenNeverIndexed, TypeOK
    <3>2. row'[g] = [row[g] EXCEPT ![n] = NoRow]
      BY <1>3, Zenon DEF PurgeNote
    <3>3. row'[g] = row[g]
      BY <3>1, <3>2, SMT
    <3>4. QED
      BY <2>3, <3>3 DEF Tracked
  <2>4. QED
    BY <2>1, <2>2, <2>3
<1>4. ASSUME NEW k \in Keys, RotateKey(k) \/ RevokeKey(k)
      PROVE  Tracked(g)
  <2>1. row' = row /\ (gen'[g] = Bump(g) \/ gen'[g] = gen[g])
    BY <1>4, Zenon DEF RotateKey, RevokeKey
  <2>2. QED
    BY <1>0, <2>1 DEF Tracked
<1>5. ASSUME NEW t \in Targets, Deploy(t)
      PROVE  Tracked(g)
  BY <1>5 DEF Deploy, Tracked
<1>6. QED
  BY <1>1, <1>2, <1>3, <1>4, <1>5, Zenon DEF OwnerStep

LEMMA QueueTracks ==
  ASSUME QueueInv, QueueStep, NEW g \in Gens, gen[g].state # "none"
  PROVE  Tracked(g)
<1>1. CASE gen' = gen /\ row' = row
  BY <1>1 DEF Tracked
<1>2. ASSUME NEW w \in Work, Commit(w) PROVE Tracked(g)
  <2> DEFINE covered == Cardinality(Covered(w.gen) \cup {w.note})
             i == IF covered < gen[w.gen].expected THEN covered ELSE gen[w.gen].expected
  <2>1. /\ gen' = [gen EXCEPT ![w.gen] = [Bump(w.gen) EXCEPT !.indexed = i]]
        /\ row' = [row EXCEPT ![w.gen][w.note] = [rev |-> w.rev, key |-> job[w].key]]
        /\ w.gen \in Gens
    BY <1>2, Zenon DEF Commit, Work
  <2> HIDE DEF i, covered
  <2>2. CASE g # w.gen
    <3>1. gen'[g] = gen[g] /\ row'[g] = row[g]
      BY <2>1, <2>2, Zenon DEF QueueInv, TypeOK
    <3>2. QED
      BY <3>1 DEF Tracked
  <2>3. CASE g = w.gen
    <3>1. gen'[g] = [Bump(g) EXCEPT !.indexed = i]
      BY <2>1, <2>3, Zenon DEF QueueInv, TypeOK
    <3>2. Bump(g) \in GenType /\ Bump(g).token = gen[g].token + 1 /\ Bump(g).state = gen[g].state
      BY BumpedRow DEF QueueInv, TypeOK
    <3>3. gen'[g].token = gen[g].token + 1 /\ gen'[g].state = gen[g].state
      BY <3>1, <3>2, Zenon DEF GenType
    <3>4. QED
      BY <3>3 DEF Tracked
  <2>4. QED
    BY <2>2, <2>3
<1>3. QED
  BY <1>1, <1>2, Zenon DEF QueueStep, ClaimTerminal, ClaimLease, Expire, Recover, CommitRefused, Fail

LEMMA ControlTracks ==
  ASSUME QueueInv, ControlStep, NEW h \in Gens, gen[h].state # "none"
  PROVE  Tracked(h)
<1> SUFFICES ASSUME NEW g \in Gens,
                    \/ \E t \in Targets : Ensure(g, t)
                    \/ \E after \in Notes \cup {0}, last \in Notes \cup {0} : Seed(g, after, last)
                    \/ FailGeneration(g) \/ Activate(g) \/ StartVerification(g)
             PROVE  Tracked(h)
  BY Zenon DEF ControlStep
<1>0. /\ TypeOK /\ Bump(h) \in GenType
      /\ Bump(h).token = gen[h].token + 1 /\ Bump(h).state = gen[h].state
  BY BumpedRow DEF QueueInv, TypeOK
<1>1. row' = row
  BY Zenon DEF Ensure, Seed, FailGeneration, Activate, StartVerification
<1>2. \/ gen'[h] = gen[h]
      \/ gen'[h] = [Bump(h) EXCEPT !.expected = Cardinality(Eligible)]
      \/ gen'[h] = [Bump(h) EXCEPT !.state = "failed"]
      \/ gen'[h] = [Bump(h) EXCEPT !.state = "active", !.indexed = Cardinality(Covered(h))]
      \/ gen'[h] = [Bump(h) EXCEPT !.state = "retired"]
  <2>1. CASE \E t \in Targets : Ensure(g, t)
    BY <1>0, <2>1, Zenon DEF Ensure, TypeOK
  <2>2. CASE \E after \in Notes \cup {0}, last \in Notes \cup {0} : Seed(g, after, last)
    <3>1. gen' = [gen EXCEPT ![g] = [Bump(g) EXCEPT !.expected = Cardinality(Eligible)]]
      BY <2>2, Zenon DEF Seed
    <3>2. QED
      BY <1>0, <3>1, Zenon DEF TypeOK
  <2>3. CASE FailGeneration(g) \/ Activate(g) \/ StartVerification(g)
    BY <1>0, <2>3, Zenon DEF FailGeneration, Activate, StartVerification, TypeOK
  <2>4. QED
    BY <2>1, <2>2, <2>3
<1>3. gen'[h] = gen[h] \/ (gen'[h].token = gen[h].token + 1 /\ gen'[h].state # "none")
  <2>1. \/ gen'[h] = gen[h]
        \/ /\ gen'[h].token = gen[h].token + 1
           /\ gen'[h].state = gen[h].state \/ gen'[h].state \in {"failed", "active", "retired"}
    BY <1>0, <1>2, Zenon DEF GenType
  <2>2. QED
    BY <2>1
<1>4. QED
  BY <1>1, <1>3 DEF Tracked

\* A step that is not the verifier's keeps what the verifier knows, or makes
\* its token stale.
LEMMA VerifierKept ==
  ASSUME VerifierInv, verifier' = verifier,
         \A g \in Gens : gen[g].state # "none" => Tracked(g)
  PROVE  OpenedToCursor'
<1> SUFFICES ASSUME verifier # Idle
             PROVE  LET g == verifier.gen IN
                    /\ gen'[g].state # "none" /\ verifier.token <= gen'[g].token
                    /\ Live(g)' /\ gen'[g].token = verifier.token =>
                         /\ verifier.opened = RowsUpTo(g, verifier.cursor)'
                         /\ verifier.digest = "attested" => \A n \in Rows(g)' : n <= verifier.cursor
  BY Zenon DEF OpenedToCursor
<1> DEFINE g == verifier.gen
<1>1. g \in Gens /\ verifier.token \in Nat
  BY VerifierRow, SMT DEF VerifierInv, QueueInv
<1>2. /\ gen[g].state # "none" /\ verifier.token <= gen[g].token
      /\ Live(g) /\ gen[g].token = verifier.token =>
           /\ verifier.opened = RowsUpTo(g, verifier.cursor)
           /\ verifier.digest = "attested" => \A n \in Rows(g) : n <= verifier.cursor
  BY Zenon DEF VerifierInv, OpenedToCursor
<1>3. gen[g].token \in Nat
  BY <1>1, TokenType DEF VerifierInv, QueueInv
<1>4. CASE gen'[g].token = gen[g].token + 1 /\ gen'[g].state # "none"
  BY <1>1, <1>2, <1>3, <1>4, SMT
<1>5. CASE gen'[g] = gen[g] /\ ~Live(g)
  BY <1>2, <1>5, Zenon DEF Live
<1>6. CASE gen'[g] = gen[g] /\ row'[g] = row[g]
  <2>1. Rows(g)' = Rows(g) /\ RowsUpTo(g, verifier.cursor)' = RowsUpTo(g, verifier.cursor)
    BY <1>6, Zenon DEF Rows, RowsUpTo
  <2>2. Live(g)' <=> Live(g)
    BY <1>6 DEF Live
  <2>3. QED
    BY <1>2, <1>6, <2>1, <2>2, Zenon
<1>7. QED
  BY <1>1, <1>2, <1>4, <1>5, <1>6, Zenon DEF Tracked

LEMMA StartOpened ==
  ASSUME QueueInv, NEW g \in Gens, StartVerification(g)
  PROVE  OpenedToCursor'
<1>1. gen[g].token \in Nat
  BY TokenType DEF QueueInv
<1>2. verifier' = Unread(g, gen[g].token) /\ gen' = gen /\ row' = row /\ gen[g].state = "building"
  BY Zenon DEF StartVerification
<1>3. /\ verifier'.gen = g /\ verifier'.token = gen[g].token
      /\ verifier'.cursor = 0 /\ verifier'.opened = {} /\ verifier'.digest = "none"
  BY <1>2, SMT DEF Unread
<1>4. RowsUpTo(g, 0)' = {}
  <2>1. \A n \in Notes : ~(n <= 0)
    BY NoteIdsAssumption, SMT
  <2>2. QED
    BY <2>1 DEF RowsUpTo, Rows
<1>5. QED
  BY <1>1, <1>2, <1>3, <1>4, SMT DEF OpenedToCursor

LEMMA ReadOpened ==
  ASSUME VerifierInv, NEW last \in Notes \cup {0}, ReadPage(last)
  PROVE  OpenedToCursor'
<1> DEFINE g == verifier.gen
           page == {m \in Rest(g) : m <= last}
           c == verifier.cursor
           d == IF page = {} THEN c ELSE last
<1>1. /\ g \in Gens /\ verifier'.gen = g /\ verifier'.token = verifier.token
      /\ verifier'.cursor = d
      /\ verifier'.opened = verifier.opened \cup PageEntries(last)
      /\ verifier'.digest = (IF page = Rest(g) THEN "attested" ELSE "none")
  BY ReadVerifier, Zenon DEF VerifierInv, QueueInv
<1>2. /\ verifier # Idle /\ gen[g].state = "building" /\ gen[g].token = verifier.token
      /\ gen' = gen /\ row' = row
  BY Zenon DEF ReadPage
<1>3. verifier.opened = RowsUpTo(g, c)
  BY <1>2, Zenon DEF VerifierInv, OpenedToCursor, Live
<1>4. c \in Nat /\ last \in Nat /\ \A n \in Rows(g) : n \in Nat
  <2>1. c \in Notes \cup {0}
    BY <1>2, VerifierRow, SMT DEF VerifierInv, QueueInv
  <2>2. \A n \in Rows(g) : n \in Notes
    BY DEF Rows
  <2>3. \A n \in Notes \cup {0} : n \in Nat
    BY NoteIdsAssumption, SMT
  <2>4. QED
    BY <2>1, <2>2, <2>3, Zenon
<1>5. \A n \in Rows(g) : n <= d <=> n <= c \/ n \in page
  BY <1>4, SMT DEF Rest
<1>6. RowsUpTo(g, d) = RowsUpTo(g, c) \cup PageEntries(last)
  <2>1. {m \in Rows(g) : m <= d} = {m \in Rows(g) : m <= c} \cup page
    BY <1>5, Zenon DEF Rest
  <2> HIDE DEF d
  <2>2. QED
    BY <2>1, Zenon DEF RowsUpTo, PageEntries
<1>7. page = Rest(g) => \A n \in Rows(g) : n <= d
  <2> SUFFICES ASSUME page = Rest(g), NEW n \in Rows(g) PROVE n <= c \/ n \in page
    BY <1>5
  <2>1. CASE n > c
    BY <2>1 DEF Rest
  <2>2. QED
    BY <1>4, <2>1, SMT
<1> HIDE DEF d, page, c
<1>8. PICK h \in Gens : h = g
  BY <1>1, Zenon
<1>9. PICK e : e = d
  OBVIOUS
<1>10. Rows(h)' = Rows(h) /\ RowsUpTo(h, e)' = RowsUpTo(h, e)
  BY <1>2, Zenon DEF Rows, RowsUpTo
<1>11. gen[h].token \in Nat
  BY TokenType DEF VerifierInv, QueueInv
<1>12. /\ gen'[h].state # "none" /\ verifier'.token <= gen'[h].token
       /\ verifier'.opened = RowsUpTo(h, e)'
       /\ verifier'.digest = "attested" => \A n \in Rows(h)' : n <= e
  BY <1>1, <1>2, <1>3, <1>6, <1>7, <1>8, <1>9, <1>10, <1>11, SMT
<1>13. verifier'.gen = h /\ verifier'.cursor = e
  BY <1>1, <1>8, <1>9
<1>14. QED
  BY <1>12, <1>13, Zenon DEF OpenedToCursor

LEMMA VerifierStepInv == VerifierInv /\ [Next]_vars => VerifierInv'
<1> SUFFICES ASSUME VerifierInv, [Next]_vars PROVE VerifierInv'
  OBVIOUS
<1>1. QueueInv'
  BY QueueStepInv DEF VerifierInv
<1>2. CASE OwnerStep
  BY <1>1, <1>2, OwnerTracks, VerifierKept, Zenon
     DEF VerifierInv, OwnerStep, CreateNote, WriteNote, PurgeNote, RotateKey, RevokeKey, Deploy
<1>3. CASE QueueStep
  BY <1>1, <1>3, QueueTracks, VerifierKept, Zenon
     DEF VerifierInv, QueueStep, ClaimTerminal, ClaimLease, Expire, Recover, CommitRefused, Commit, Fail
<1>4. CASE ControlStep
  <2>1. CASE verifier' = verifier
    BY <1>1, <1>4, <2>1, ControlTracks, VerifierKept DEF VerifierInv
  <2>2. CASE \E g \in Gens : StartVerification(g)
    BY <1>1, <2>2, StartOpened DEF VerifierInv
  <2>3. QED
    BY <1>4, <2>1, <2>2, Zenon DEF ControlStep, Ensure, Seed, FailGeneration, Activate
<1>5. CASE VerifierStep
  <2>1. CASE Attest \/ AbandonVerification
    BY <1>1, <2>1 DEF Attest, AbandonVerification, VerifierInv, OpenedToCursor
  <2>2. QED
    BY <1>1, <1>5, <2>1, ReadOpened DEF VerifierStep, VerifierInv
<1>6. CASE UNCHANGED vars
  BY <1>1, <1>6, VerifierKept DEF vars, VerifierInv, Tracked
<1>7. QED
  BY <1>2, <1>3, <1>4, <1>5, <1>6 DEF Next

\* No row is attested that the verifier did not open: a paged read under one
\* token misses nothing and is not mixed from two states of the index.
THEOREM AttestedWereOpened == Spec => []OpenedBeforeAttested
<1>1. Init => VerifierInv
  <2> SUFFICES ASSUME Init PROVE VerifierInv
    OBVIOUS
  <2>1. verifier = Idle
    BY DEF Init
  <2>2. QED
    BY <2>1, QueueInit DEF VerifierInv, OpenedToCursor
<1>2. VerifierInv => OpenedBeforeAttested
  <2> SUFFICES ASSUME VerifierInv, verifier.digest = "attested", Live(verifier.gen),
                      gen[verifier.gen].token = verifier.token
               PROVE  verifier.opened = Attestation(verifier.gen)
    BY DEF OpenedBeforeAttested
  <2> DEFINE g == verifier.gen
  <2>1. verifier # Idle
    BY SMT DEF Idle, Unread
  <2>2. verifier.opened = RowsUpTo(g, verifier.cursor) /\ \A n \in Rows(g) : n <= verifier.cursor
    BY <2>1, Zenon DEF VerifierInv, OpenedToCursor
  <2>3. {m \in Rows(g) : m <= verifier.cursor} = Rows(g)
    BY <2>2, Zenon
  <2>4. QED
    BY <2>2, <2>3, Zenon DEF RowsUpTo, Attestation
<1>3. QED
  BY <1>1, <1>2, VerifierStepInv, PTL DEF Spec

-----------------------------------------------------------------------------
(* The counters.                                                           *)

CountGood(g) ==
  Live(g) => /\ gen[g].expected = Cardinality(Eligible)
             /\ Cardinality(Covered(g)) <= gen[g].indexed
             /\ gen[g].indexed <= Cardinality(Current(g))
CountInv == RowInv /\ CountsBracketed

LEMMA SmallerCount ==
  ASSUME NEW S \in SUBSET Notes, NEW T \in SUBSET S
  PROVE  Cardinality(T) <= Cardinality(S) /\ Cardinality(S) \in Nat /\ Cardinality(T) \in Nat
<1>1. IsFiniteSet(S) /\ Cardinality(S) \in Nat
  BY NoteCount
<1>2. Cardinality(T) <= Cardinality(S)
  BY <1>1, FS_Subset
<1>3. T \in SUBSET Notes
  OBVIOUS
<1>4. QED
  BY <1>1, <1>2, <1>3, NoteCount

\* A current row is a row: notes that are there have a revision.
LEMMA CurrentRows ==
  ASSUME TypeOK, NEW g \in Gens
  PROVE  Current(g) \subseteq Rows(g) /\ Covered(g) \subseteq Current(g) /\ Current(g) \subseteq Eligible
         /\ Eligible \subseteq Notes
<1>1. NoRow.rev = 0
  BY SMT DEF NoRow
<1>2. \A n \in Eligible : note[n].rev \in Revisions
  BY NoteRow DEF Eligible
<1>3. \A n \in Eligible : note[n].rev # 0
  BY <1>2, SMT DEF Revisions
<1>4. QED
  BY <1>1, <1>3, Zenon DEF Current, Covered, Rows, Eligible

\* The counters of a generation that is left alone, no key becoming usable
\* that was not.
LEMMA CountKept ==
  ASSUME CountInv, NEW g \in Gens, gen'[g] = gen[g], row'[g] = row[g],
         \A n \in Notes : SameNote(n),
         \A n \in Rows(g) : Usable(row[g][n].key)' => Usable(row[g][n].key)
  PROVE  CountGood(g)'
<1>1. Eligible' = Eligible /\ \A n \in Eligible : note'[n] = note[n]
  BY EligibleKept
<1>2. Current(g)' = Current(g)
  BY <1>1, Zenon DEF Current
<1>3. /\ Current(g) \subseteq Rows(g) /\ Covered(g) \subseteq Current(g)
      /\ Current(g) \subseteq Eligible /\ Eligible \subseteq Notes
  BY CurrentRows DEF CountInv, RowInv, QueueInv
<1>4. Covered(g)' \subseteq Covered(g)
  BY <1>2, <1>3, Zenon DEF Covered
<1>5. /\ Cardinality(Covered(g)') <= Cardinality(Covered(g))
      /\ Cardinality(Covered(g)) \in Nat /\ Cardinality(Covered(g)') \in Nat
  BY <1>3, <1>4, SmallerCount
<1>6. CountGood(g) /\ (Live(g)' => Live(g))
  BY DEF CountInv, CountsBracketed, CountGood, Live
<1>7. gen[g].indexed \in Nat
  BY SMT DEF CountInv, RowInv, QueueInv, TypeOK, GenType
<1>8. Cardinality(Covered(g))' = Cardinality(Covered(g)') /\ Cardinality(Current(g))' = Cardinality(Current(g))
      /\ Cardinality(Eligible)' = Cardinality(Eligible)
  BY <1>1, <1>2
<1>9. QED
  BY <1>5, <1>6, <1>7, <1>8, SMT DEF CountGood

\* The counters taken again from the new notes and rows.
LEMMA CountRecounted ==
  ASSUME CountInv, TypeOK', NEW g \in Gens,
         gen'[g].expected = Cardinality(Eligible'),
         gen'[g].indexed = Cardinality(Current(g)')
  PROVE  CountGood(g)'
<1>1. /\ Covered(g)' \subseteq Current(g)' /\ Current(g)' \subseteq Notes
  BY Zenon DEF Covered, Current, Eligible
<1>2. /\ Cardinality(Covered(g)') <= Cardinality(Current(g)') /\ Cardinality(Current(g)') \in Nat
  BY <1>1, SmallerCount
<1>3. QED
  BY <1>2, SMT DEF CountGood

LEMMA OwnerCounts == CountInv /\ OwnerStep => \A g \in Gens : CountGood(g)'
<1> SUFFICES ASSUME CountInv, OwnerStep, NEW g \in Gens PROVE CountGood(g)'
  OBVIOUS
<1>0. TypeOK /\ TypeOK' /\ HiddenNeverIndexed /\ gen[g] \in GenType /\ row[g] \in [Notes -> RowType]
  BY OwnerTypes DEF CountInv, RowInv, QueueInv, TypeOK
<1>1. ASSUME NEW n \in Notes, NEW kind \in {"eligible", "hidden"}, CreateNote(n, kind)
      PROVE  CountGood(g)'
  <2>1. PICK k \in ActiveKeys : note' = [note EXCEPT ![n] = [rev |-> 1, kind |-> kind, key |-> k]]
    BY <1>1, Zenon DEF CreateNote
  <2> DEFINE c == [rev |-> 1, kind |-> kind, key |-> k]
  <2>2. c.kind = kind /\ c.rev = 1 /\ note' = [note EXCEPT ![n] = c]
    BY <2>1
  <2> HIDE DEF c
  <2>3. note'[n] = c /\ \A m \in Notes \ {n} : note'[m] = note[m]
    BY <1>0, <2>2, Zenon DEF TypeOK
  <2>4. /\ row' = row /\ key' = key /\ note[n].kind = "absent"
        /\ gen'[g] = IF kind = "eligible" /\ Live(g)
                     THEN [gen[g] EXCEPT !.expected = @ + 1, !.token = @ + 1] ELSE gen[g]
    BY <1>1, Zenon DEF CreateNote
  <2>5. CASE ~Live(g)
    BY <2>4, <2>5, Zenon DEF CountGood, Live
  <2>6. CASE kind = "hidden"
    <3>1. gen'[g] = gen[g] /\ c.kind # "eligible" /\ note[n].kind # "eligible"
      BY <2>2, <2>4, <2>6, SMT
    <3>2. \A m \in Notes : SameNote(m)
      BY <2>3, <3>1, Zenon DEF SameNote
    <3>3. QED
      BY <2>4, <3>1, <3>2, CountKept, Zenon DEF Usable
  <2>7. CASE kind = "eligible" /\ Live(g)
    <3>1. gen'[g] = [gen[g] EXCEPT !.expected = @ + 1, !.token = @ + 1]
      BY <2>4, <2>7
    <3>2. gen'[g].expected = gen[g].expected + 1 /\ gen'[g].indexed = gen[g].indexed
      BY <1>0, <3>1, Zenon DEF GenType
    <3>3. Eligible' = Eligible \cup {n} /\ n \notin Eligible
      BY <2>2, <2>3, <2>4, <2>7, SMT DEF Eligible
    <3>4. Cardinality(Eligible') = Cardinality(Eligible) + 1
      <4>1. IsFiniteSet(Eligible)
        BY NoteCount DEF Eligible
      <4>2. QED
        BY <3>3, <4>1, FS_AddElement
    <3>5. row[g][n].rev = 0
      BY <2>4, SMT DEF CountInv, RowInv, QueueInv, HiddenNeverIndexed, NoRow
    <3>6. Current(g)' = Current(g)
      <4>1. \A m \in Eligible : m # n /\ note'[m] = note[m]
        BY <2>3, <3>3, Zenon DEF Eligible
      <4>2. row'[g][n].rev # note'[n].rev
        BY <2>2, <2>3, <2>4, <3>5
      <4>3. QED
        BY <2>4, <3>3, <4>1, <4>2, Zenon DEF Current
    <3>7. Covered(g)' = Covered(g)
      BY <2>4, <3>6, Zenon DEF Covered, Usable
    <3>8. QED
      BY <2>7, <3>2, <3>4, <3>6, <3>7, Zenon DEF CountGood, CountInv, CountsBracketed
  <2>8. QED
    BY <2>5, <2>6, <2>7
<1>2. ASSUME Live(g)', gen'[g] = Recounted(g, note', row') PROVE CountGood(g)'
  <2>1. /\ gen'[g].expected = Cardinality({m \in Notes : note'[m].kind = "eligible"})
        /\ gen'[g].indexed = Cardinality({m \in {i \in Notes : note'[i].kind = "eligible"} :
                                           row'[g][m].rev = note'[m].rev})
    BY <1>0, <1>2, Zenon DEF Recounted, GenType
  <2>2. gen'[g].expected = Cardinality(Eligible') /\ gen'[g].indexed = Cardinality(Current(g)')
    BY <2>1 DEF Eligible, Current
  <2>3. QED
    BY <1>0, <2>2, CountRecounted
<1>3. ASSUME NEW n \in Notes, NEW kind \in {"eligible", "hidden"}, WriteNote(n, kind)
      PROVE  CountGood(g)'
  <2>1. gen'[g] = IF Live(g) THEN Recounted(g, note', row') ELSE gen[g]
    BY <1>3, Zenon DEF WriteNote
  <2>2. QED
    BY <1>2, <2>1, Zenon DEF CountGood, Live
<1>4. ASSUME NEW n \in Notes, PurgeNote(n)
      PROVE  CountGood(g)'
  <2>1. gen'[g] = Recounted(g, note', row') \/ gen'[g] = gen[g]
    BY <1>4, Zenon DEF PurgeNote
  <2>2. CASE gen'[g] = gen[g]
    <3>1. note[n].kind = "hidden" /\ key' = key /\ row'[g] = [row[g] EXCEPT ![n] = NoRow]
          /\ note' = [note EXCEPT ![n] = [NoNote EXCEPT !.kind = "purged"]]
      BY <1>4, Zenon DEF PurgeNote
    <3>2. row[g][n] = NoRow
      BY <1>0, <3>1, SMT DEF HiddenNeverIndexed
    <3>3. row'[g] = row[g]
      BY <1>0, <3>1, <3>2, SMT
    <3>4. \A m \in Notes : SameNote(m)
      <4>1. note'[n].kind = "purged" /\ \A m \in Notes \ {n} : note'[m] = note[m]
        BY <1>0, <3>1, SMT DEF TypeOK, NoNote
      <4>2. QED
        BY <3>1, <4>1, SMT DEF SameNote
    <3>5. QED
      BY <2>2, <3>1, <3>3, <3>4, CountKept, Zenon DEF Usable
  <2>3. QED
    BY <1>2, <2>1, <2>2 DEF CountGood
<1>5. ASSUME NEW k \in Keys, RotateKey(k)
      PROVE  CountGood(g)'
  <2>1. \A i \in Keys : key[i] # "pending" /\ Usable(i)' => Usable(i)
    BY <1>5, SMT DEF RotateKey, Usable
  <2>2. \A n \in Rows(g) : row[g][n].key \in Keys /\ key[row[g][n].key] # "pending"
    BY <1>0, AttestationType DEF CountInv, RowInv, RowsKeyed
  <2>3. row' = row /\ note' = note /\ gen' = gen
    BY <1>5 DEF RotateKey
  <2>4. \A n \in Rows(g) : Usable(row[g][n].key)' => Usable(row[g][n].key)
    BY <2>1, <2>2, <2>3, Zenon DEF Usable
  <2>5. QED
    BY <2>3, <2>4, CountKept, Zenon DEF SameNote
<1>6. ASSUME NEW k \in Keys, RevokeKey(k)
      PROVE  CountGood(g)'
  <2>1. \A i : Usable(i)' => Usable(i)
    BY <1>0, <1>6, SMT DEF RevokeKey, Usable, TypeOK
  <2>2. row' = row /\ note' = note /\ (gen'[g] = Bump(g) \/ gen'[g] = gen[g])
    BY <1>6, Zenon DEF RevokeKey
  <2>3. CASE gen'[g] = gen[g]
    BY <2>1, <2>2, <2>3, CountKept, Zenon DEF SameNote, Usable
  <2>4. CASE gen'[g] = Bump(g)
    <3>1. /\ gen'[g].state = gen[g].state
          /\ gen'[g].expected = gen[g].expected /\ gen'[g].indexed = gen[g].indexed
          /\ gen[g].indexed \in Nat
      <4>1. gen[g].indexed \in Nat
        BY <1>0, SMT DEF GenType
      <4>2. QED
        BY <1>0, <2>4, <4>1, BumpedRow DEF TypeOK
    <3>2. Eligible' = Eligible /\ Current(g)' = Current(g)
      BY <2>2, Zenon DEF Eligible, Current
    <3>3. Covered(g)' \subseteq Covered(g)
      BY <2>1, <2>2, <3>2, Zenon DEF Covered, Usable
    <3>4. Cardinality(Covered(g)') <= Cardinality(Covered(g)) /\ Cardinality(Covered(g)) \in Nat
          /\ Cardinality(Covered(g)') \in Nat
      BY <3>3, CurrentRows, SmallerCount, <1>0
    <3>5. CountGood(g)
      BY DEF CountInv, CountsBracketed, CountGood
    <3>6. QED
      BY <3>1, <3>2, <3>4, <3>5, SMT DEF CountGood, Live
  <2>5. QED
    BY <2>2, <2>3, <2>4
<1>7. ASSUME NEW t \in Targets, Deploy(t)
      PROVE  CountGood(g)'
  BY <1>7, CountKept, Zenon DEF Deploy, SameNote, Usable
<1>8. QED
  BY <1>1, <1>3, <1>4, <1>5, <1>6, <1>7, Zenon DEF OwnerStep

LEMMA QueueCounts == CountInv /\ QueueStep => \A g \in Gens : CountGood(g)'
<1> SUFFICES ASSUME CountInv, QueueStep, NEW g \in Gens PROVE CountGood(g)'
  OBVIOUS
<1>0. TypeOK /\ CountGood(g)
  BY DEF CountInv, RowInv, QueueInv, CountsBracketed, CountGood
<1>1. note' = note /\ key' = key
  BY Zenon DEF QueueStep, ClaimTerminal, ClaimLease, Expire, Recover, CommitRefused, Commit, Fail
<1>2. CASE gen'[g] = gen[g] /\ row'[g] = row[g]
  BY <1>1, <1>2, CountKept, Zenon DEF SameNote, Usable
<1>3. ASSUME NEW w \in Work, Commit(w) PROVE CountGood(g)'
  <2> DEFINE covered == Cardinality(Covered(w.gen) \cup {w.note})
             i == IF covered < gen[w.gen].expected THEN covered ELSE gen[w.gen].expected
  <2>1. /\ gen' = [gen EXCEPT ![w.gen] = [Bump(w.gen) EXCEPT !.indexed = i]]
        /\ row' = [row EXCEPT ![w.gen][w.note] = [rev |-> w.rev, key |-> job[w].key]]
        /\ w.gen \in Gens /\ w.note \in Notes
        /\ note[w.note].kind = "eligible" /\ note[w.note].rev = w.rev /\ Live(w.gen)
        /\ job[w].key \in ActiveKeys
    BY <1>3, Zenon DEF Commit, Work, Workable
  <2>2. CASE g # w.gen
    <3> HIDE DEF i, covered
    <3>1. QED
      BY <1>0, <1>2, <2>1, <2>2, Zenon DEF TypeOK
  <2>3. CASE g = w.gen
    <3> DEFINE n == w.note
    <3>1. /\ Covered(g) \subseteq Eligible /\ Eligible \subseteq Notes /\ n \in Eligible
      BY <1>0, <2>1, CurrentRows DEF Eligible
    <3>2. covered <= Cardinality(Eligible) /\ covered \in Nat /\ Cardinality(Eligible) \in Nat
      BY <2>3, <3>1, SmallerCount
    <3>3. gen[g].expected = Cardinality(Eligible)
      BY <1>0, <2>1, <2>3 DEF CountGood
    <3>4. i = covered
      BY <2>3, <3>2, <3>3, SMT
    <3> HIDE DEF i
    <3>5. gen'[g] = [Bump(g) EXCEPT !.indexed = i]
      BY <1>0, <2>1, <2>3, Zenon DEF TypeOK
    <3>6. Bump(g) \in GenType /\ Bump(g).expected = gen[g].expected
      BY <1>0, BumpedRow DEF TypeOK
    <3>7. gen'[g].indexed = covered /\ gen'[g].expected = gen[g].expected
      BY <3>4, <3>5, <3>6, Zenon DEF GenType
    <3>8. Eligible' = Eligible
      BY <1>1 DEF Eligible
    <3>9. \A h \in Gens, m \in Notes :
            IF h = w.gen /\ m = w.note THEN row'[h][m] = [rev |-> w.rev, key |-> job[w].key]
                                     ELSE row'[h][m] = row[h][m]
      BY <1>0, <2>1, SMT DEF TypeOK
    <3>10. /\ row'[g][n] = [rev |-> w.rev, key |-> job[w].key]
           /\ \A m \in Notes \ {n} : row'[g][m] = row[g][m]
      BY <2>1, <2>3, <3>9, Zenon
    <3>11. Covered(g)' = Covered(g) \cup {n}
      <4>1. row'[g][n].rev = note[n].rev /\ Usable(row'[g][n].key)
        BY <2>1, <3>10, SMT DEF ActiveKeys, Usable
      <4>2. \A m \in Eligible \ {n} : m \in Covered(g)' <=> m \in Covered(g)
        BY <1>1, <3>1, <3>8, <3>10, Zenon DEF Covered, Current, Usable
      <4>3. n \in Covered(g)'
        BY <1>1, <3>1, <3>8, <4>1, Zenon DEF Covered, Current, Usable
      <4>4. Covered(g)' \subseteq Eligible
        BY <3>8, Zenon DEF Covered, Current
      <4>5. QED
        BY <3>1, <4>2, <4>3, <4>4, Zenon
    <3>12. Covered(g)' \subseteq Current(g)' /\ Current(g)' \subseteq Notes
      BY Zenon DEF Covered, Current, Eligible
    <3>13. Cardinality(Covered(g)') <= Cardinality(Current(g)')
      BY <3>12, SmallerCount
    <3>14. Cardinality(Covered(g)') = covered
      BY <2>3, <3>11
    <3> HIDE DEF covered
    <3>15. QED
      BY <3>2, <3>3, <3>7, <3>8, <3>13, <3>14, SMT DEF CountGood
  <2>4. QED
    BY <2>2, <2>3
<1>4. QED
  BY <1>2, <1>3, Zenon DEF QueueStep, ClaimTerminal, ClaimLease, Expire, Recover, CommitRefused, Fail

LEMMA ControlCounts == CountInv /\ ControlStep => \A g \in Gens : CountGood(g)'
<1> SUFFICES ASSUME CountInv, NEW g \in Gens,
                    \/ \E t \in Targets : Ensure(g, t)
                    \/ \E after \in Notes \cup {0}, last \in Notes \cup {0} : Seed(g, after, last)
                    \/ FailGeneration(g) \/ Activate(g) \/ StartVerification(g),
                    NEW h \in Gens
             PROVE  CountGood(h)'
  BY Zenon DEF ControlStep
<1>0. /\ TypeOK /\ gen[h] \in GenType /\ CountGood(h)
      /\ Bump(h) \in GenType /\ Bump(h).state = gen[h].state
      /\ Bump(h).indexed = gen[h].indexed /\ Bump(h).expected = gen[h].expected
  BY BumpedRow DEF CountInv, RowInv, QueueInv, TypeOK, CountsBracketed, CountGood
<1>1. note' = note /\ key' = key /\ row' = row
  BY Zenon DEF Ensure, Seed, FailGeneration, Activate, StartVerification
<1>2. Eligible' = Eligible /\ Current(h)' = Current(h) /\ Covered(h)' = Covered(h)
  BY <1>1, Zenon DEF Eligible, Current, Covered, Usable
<1>3. CASE gen'[h] = gen[h]
  BY <1>0, <1>2, <1>3, Zenon DEF CountGood, Live
<1>4. ASSUME NEW t \in Targets, Ensure(g, t) PROVE CountGood(h)'
  <2>1. CASE h = g
    <3>1. gen'[h].expected = Cardinality(Eligible) /\ gen'[h].indexed = 0 /\ gen[h].state = "none"
      BY <1>0, <1>4, <2>1, SMT DEF Ensure, TypeOK
    <3>2. Rows(h) = {}
      BY <3>1, Zenon DEF CountInv, RowInv, UnbuiltEmpty, Rows
    <3>3. Current(h) = {} /\ Covered(h) = {}
      BY <1>0, <3>2, CurrentRows, Zenon
    <3>4. Cardinality({}) = 0
      BY FS_EmptySet
    <3>5. QED
      BY <1>2, <3>1, <3>3, <3>4, SMT DEF CountGood
  <2>2. CASE h # g
    BY <1>0, <1>3, <1>4, <2>2, Zenon DEF Ensure, TypeOK
  <2>3. QED
    BY <2>1, <2>2
<1>5. ASSUME NEW after \in Notes \cup {0}, NEW last \in Notes \cup {0}, Seed(g, after, last)
      PROVE  CountGood(h)'
  <2>1. gen' = [gen EXCEPT ![g] = [Bump(g) EXCEPT !.expected = Cardinality(Eligible)]]
        /\ gen[g].state = "building"
    BY <1>5, Zenon DEF Seed
  <2>2. CASE h = g
    <3>1. gen'[h] = [Bump(h) EXCEPT !.expected = Cardinality(Eligible)]
      BY <1>0, <2>1, <2>2, Zenon DEF TypeOK
    <3>2. gen'[h].expected = Cardinality(Eligible) /\ gen'[h].indexed = gen[h].indexed
      BY <1>0, <3>1, Zenon DEF GenType
    <3>3. Live(h)
      BY <2>1, <2>2 DEF Live
    <3>4. QED
      BY <1>0, <1>2, <3>2, <3>3, Zenon DEF CountGood
  <2>3. CASE h # g
    BY <1>0, <1>3, <2>1, <2>3, Zenon DEF TypeOK
  <2>4. QED
    BY <2>2, <2>3
<1>6. CASE FailGeneration(g)
  <2>1. CASE h = g
    <3>1. gen'[h] = [Bump(h) EXCEPT !.state = "failed"]
      BY <1>0, <1>6, <2>1, Zenon DEF FailGeneration, TypeOK
    <3>2. gen'[h].state = "failed"
      BY <1>0, <3>1, Zenon DEF GenType
    <3>3. QED
      BY <3>2 DEF CountGood, Live
  <2>2. CASE h # g
    BY <1>0, <1>3, <1>6, <2>2, Zenon DEF FailGeneration, TypeOK
  <2>3. QED
    BY <2>1, <2>2
<1>7. CASE Activate(g)
  <2>1. CASE h = g
    <3>1. gen'[h] = [Bump(h) EXCEPT !.state = "active", !.indexed = Cardinality(Covered(h))]
      BY <1>7, <2>1, Zenon DEF Activate
    <3>2. gen'[h].indexed = Cardinality(Covered(h)) /\ gen'[h].expected = gen[h].expected
      BY <1>0, <3>1, Zenon DEF GenType
    <3>3. Live(h)
      BY <1>7, <2>1 DEF Activate, Live
    <3>4. Covered(h) \subseteq Current(h) /\ Current(h) \subseteq Notes
      BY <1>0, CurrentRows
    <3>5. Cardinality(Covered(h)) <= Cardinality(Current(h)) /\ Cardinality(Covered(h)) \in Nat
      BY <3>4, SmallerCount
    <3>6. QED
      BY <1>0, <1>2, <3>2, <3>3, <3>5, SMT DEF CountGood
  <2>2. CASE h # g
    <3>1. gen'[h] = gen[h] \/ gen'[h] = [Bump(h) EXCEPT !.state = "retired"]
      BY <1>7, <2>2, Zenon DEF Activate
    <3>2. gen'[h] = gen[h] \/ gen'[h].state = "retired"
      BY <1>0, <3>1, Zenon DEF GenType
    <3>3. QED
      BY <1>3, <3>2 DEF CountGood, Live
  <2>3. QED
    BY <2>1, <2>2
<1>8. CASE StartVerification(g)
  BY <1>3, <1>8 DEF StartVerification
<1>9. QED
  BY <1>4, <1>5, <1>6, <1>7, <1>8

\* The counters a generation is judged by never say more than is indexed nor
\* less than can be opened, whatever is written, committed or revoked.
THEOREM CountsAreRight == Spec => []CountsBracketed
<1>1. Init => CountInv
  <2> SUFFICES ASSUME Init PROVE CountInv
    OBVIOUS
  <2>1. \A g \in Gens : gen[g].state = "none"
    BY SMT DEF Init, NoGeneration
  <2>2. QED
    BY <2>1, RowInit DEF CountInv, CountsBracketed, Live
<1>2. CountInv /\ [Next]_vars => CountInv'
  <2> SUFFICES ASSUME CountInv, [Next]_vars PROVE CountInv'
    OBVIOUS
  <2>1. RowInv'
    BY RowStepInv DEF CountInv
  <2>2. \A g \in Gens : CountGood(g)'
    <3>1. CASE OwnerStep \/ QueueStep \/ ControlStep
      BY <3>1, OwnerCounts, QueueCounts, ControlCounts
    <3>2. CASE VerifierStep \/ UNCHANGED vars
      <4>1. UNCHANGED <<note, key, gen, row, job>>
        BY <3>2, Zenon DEF VerifierStep, ReadPage, Attest, AbandonVerification, vars
      <4>2. QED
        BY <4>1, CountKept, Zenon DEF SameNote, Usable
    <3>3. QED
      BY <3>1, <3>2 DEF Next
  <2>3. QED
    BY <2>1, <2>2 DEF CountInv, CountsBracketed, CountGood
<1>3. CountInv => CountsBracketed
  BY DEF CountInv
<1>4. QED
  BY <1>1, <1>2, <1>3, PTL DEF Spec
=============================================================================
