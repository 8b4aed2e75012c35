------------------------------ MODULE RagIndex ------------------------------
(***************************************************************************)
(* The encrypted retrieval index of one owner: the PostgreSQL functions     *)
(* and triggers that queue, lease and publish one index row per note and    *)
(* generation, the control plane that builds, fails and activates a        *)
(* generation, and the verifier that reads a whole building generation in  *)
(* pages before it attests it.  Callers are arbitrary: the index worker and *)
(* the maintenance controller may present any lease and any token they hold *)
(* at any time; a call with another one is refused and changes nothing.    *)
(*                                                                         *)
(* Abstracted: a lease token is the attempt that issued it; time is a       *)
(* nondeterministic expiry; a page or a seed batch is any run of rows or    *)
(* notes in the order of their ids, its size limits being data; private and *)
(* trashed notes are both "hidden", the code never tells them apart here;   *)
(* the wrap reservation of a leased job is bound to the lease by trigger    *)
(* and left out; heartbeats only extend a live lease.                      *)
(***************************************************************************)
EXTENDS Integers, FiniteSets

CONSTANTS
  Notes,          \* note ids, numbers: rows and notes are paged in their order
  Gens,           \* generation ids the controller may draw
  Keys,           \* AI object-wrap keys of the owner
  Targets,        \* embedding models the deployment may be configured for
  NoGen, NoKey, NoTarget,
  MaxAttempts,    \* note_index_jobs.attempt never exceeds it (5 in the code)
  MaxRevision,    \* bound: a note is written only below this revision
  MaxRevoked      \* bound: keys an operator may revoke

ASSUME NoteIdsAssumption == Notes \subseteq Nat \ {0} /\ IsFiniteSet(Notes)
ASSUME NoIdsAssumption == NoGen \notin Gens /\ NoKey \notin Keys /\ NoTarget \notin Targets
ASSUME BoundsAssumption ==
  MaxAttempts \in Nat \ {0} /\ MaxRevision \in Nat \ {0} /\ MaxRevoked \in Nat

VARIABLES
  note,      \* notes: current_revision, eligibility, content key
  key,       \* user_content_keys.state of the AI object-wrap keys
  gen,       \* rag_index_generations
  row,       \* note_rag_index
  job,       \* note_index_jobs
  proof,     \* rag_index_generation_verifications
  verifier,  \* the verification in flight: its token, cursor and rows opened
  target     \* the embedding model the deployment is configured for

vars == <<note, key, gen, row, job, proof, verifier, target>>

Revisions == 1 .. MaxRevision
\* unique (note_id, generation_id, target_revision)
Work == [gen : Gens, note : Notes, rev : Revisions]

NoNote == [rev |-> 0, kind |-> "absent", key |-> NoKey]
NoRow == [rev |-> 0, key |-> NoKey]
NoJob == [state |-> "none", attempt |-> 0, lease |-> "none", key |-> NoKey]
Queued == [NoJob EXCEPT !.state = "queued"]
NoProof == [token |-> -1, rows |-> {}]
\* A verification that has read nothing yet.
Unread(g, token) ==
  [gen |-> g, token |-> token, cursor |-> 0, opened |-> {}, digest |-> "none", rows |-> {}]
Idle == Unread(NoGen, -1)
NoGeneration == [state |-> "none", target |-> NoTarget, expected |-> 0, indexed |-> 0, token |-> 0]

-----------------------------------------------------------------------------
(* What the guards read.                                                   *)

\* privacy = 'ai_assisted' and deleted_at is null
Eligible == {n \in Notes : note[n].kind = "eligible"}
Usable(k) == k \in Keys /\ key[k] \in {"active", "retired"}
ActiveKeys == {k \in Keys : key[k] = "active"}
Live(g) == gen[g].state \in {"building", "active"}
Building == {g \in Gens : gen[g].state = "building"}
Pending(w) == job[w].state \in {"queued", "leased"}

\* The rows of g that are at their note's current revision, and those of them
\* whose key can still open them.
Current(g) == {n \in Eligible : row[g][n].rev = note[n].rev}
Covered(g) == {n \in Current(g) : Usable(row[g][n].key)}
Rows(g) == {n \in Notes : row[g][n] # NoRow}
\* rag_generation_attestation: a digest of the rows in order.
Attestation(g) == {<<n, row[g][n].rev, row[g][n].key>> : n \in Rows(g)}

\* The counts that verification and activation both require.
Complete(g) ==
  /\ gen[g].expected = Cardinality(Eligible)
  /\ gen[g].indexed = Cardinality(Eligible)
  /\ Covered(g) = Eligible /\ Rows(g) = Eligible
  /\ \A w \in Work : w.gen = g => ~Pending(w)

\* What user search and organizer retrieval ask of a generation.
Attested(g) == Live(g) /\ proof[g].token = gen[g].token

\* The job's note, source key and generation still allow the work.
Workable(w) ==
  /\ note[w.note].kind = "eligible" /\ note[w.note].rev = w.rev
  /\ Usable(note[w.note].key) /\ Live(w.gen)

\* rag_index_maintenance_candidate_rows: the owner needs maintenance.
Listed ==
  \/ Building # {}
  \/ ActiveKeys # {} /\ \A g \in Gens : gen[g].state = "active" => gen[g].target # target

-----------------------------------------------------------------------------
(* Effects shared by the operations.                                       *)

Bump(g) == [gen[g] EXCEPT !.token = @ + 1]
\* (mutant) a job that ends counts its attempt a second time.
FinishCountsAgain(w, state) ==
  [job[w] EXCEPT !.state = state, !.lease = "none", !.key = NoKey, !.attempt = @ + 1]
Finish(w, state) == [job[w] EXCEPT !.state = state, !.lease = "none", !.key = NoKey]

\* (mutant) only the rows of live generations are deleted.
RowsAfterLive(n, c) ==
  [g \in Gens |-> IF c.kind = "eligible" \/ ~Live(g) THEN row[g] ELSE [row[g] EXCEPT ![n] = NoRow]]
\* What remains of the index after note n changed to c: notes_invalidate_rag_state.
\* Hidden notes lose their rows in every generation, work for another revision
\* or a hidden note fails, live generations are counted again.
RowsAfter(n, c) ==
  [g \in Gens |-> IF c.kind = "eligible" THEN row[g] ELSE [row[g] EXCEPT ![n] = NoRow]]
JobsAfter(n, c) ==
  [w \in Work |-> IF w.note = n /\ Pending(w) /\ (c.kind # "eligible" \/ w.rev # c.rev)
                  THEN Finish(w, "failed") ELSE job[w]]
\* (mutant) only the building generation is kept fed.
EnqueuedBuilding(n, c, jobs) ==
  [w \in Work |-> IF /\ c.kind = "eligible" /\ w.note = n /\ w.rev = c.rev
                     /\ w.gen \in Building /\ jobs[w] = NoJob
                  THEN Queued ELSE jobs[w]]
\* enqueue_encrypted_note_index_jobs: one job per live generation, unless there is one.
Enqueued(n, c, jobs) ==
  [w \in Work |-> IF /\ c.kind = "eligible" /\ w.note = n /\ w.rev = c.rev
                     /\ Live(w.gen) /\ jobs[w] = NoJob
                  THEN Queued ELSE jobs[w]]
\* (mutant) the counts are taken again under the old token.
RecountedQuietly(g, notes, rows) ==
  LET eligible == {m \in Notes : notes[m].kind = "eligible"} IN
  [gen[g] EXCEPT !.expected = Cardinality(eligible),
                 !.indexed = Cardinality({m \in eligible : rows[g][m].rev = notes[m].rev})]
Recounted(g, notes, rows) ==
  LET eligible == {m \in Notes : notes[m].kind = "eligible"} IN
  [gen[g] EXCEPT !.expected = Cardinality(eligible),
                 !.indexed = Cardinality({m \in eligible : rows[g][m].rev = notes[m].rev}),
                 !.token = @ + 1]

-----------------------------------------------------------------------------
(* The owner: note writes under the active key, key rotation, revocation.   *)

\* create_encrypted_note
CreateNote(n, kind) ==
  /\ note[n].kind = "absent"
  /\ \E k \in ActiveKeys :
       LET c == [rev |-> 1, kind |-> kind, key |-> k] IN
       /\ note' = [note EXCEPT ![n] = c]
       /\ job' = Enqueued(n, c, job)
       /\ gen' = [g \in Gens |->
            IF kind = "eligible" /\ Live(g)
            THEN [gen[g] EXCEPT !.expected = @ + 1, !.token = @ + 1] ELSE gen[g]]
  /\ UNCHANGED <<key, row, proof, verifier, target>>

\* apply_encrypted_note_mutation: an edit, a trash, a restore, a privacy change.
WriteNote(n, kind) ==
  /\ note[n].kind \in {"eligible", "hidden"} /\ note[n].rev < MaxRevision
  /\ \E k \in ActiveKeys :
       LET c == [rev |-> note[n].rev + 1, kind |-> kind, key |-> k]
           notes == [note EXCEPT ![n] = c]
       IN /\ note' = notes
          /\ row' = RowsAfter(n, c)
          /\ job' = Enqueued(n, c, JobsAfter(n, c))
          /\ gen' = [g \in Gens |-> IF Live(g) THEN Recounted(g, notes, RowsAfter(n, c)) ELSE gen[g]]
  /\ UNCHANGED <<key, proof, verifier, target>>

\* commit_encrypted_note_retention: a trashed note and all that names it is gone.
PurgeNote(n) ==
  /\ note[n].kind = "hidden"
  /\ note' = [note EXCEPT ![n] = [NoNote EXCEPT !.kind = "purged"]]
  /\ row' = [g \in Gens |-> [row[g] EXCEPT ![n] = NoRow]]
  /\ job' = [w \in Work |-> IF w.note = n THEN NoJob ELSE job[w]]
  /\ gen' = [g \in Gens |->
       IF row[g][n] # NoRow \/ \E w \in Work : w.gen = g /\ w.note = n /\ job[w] # NoJob
       THEN Recounted(g, note', row') ELSE gen[g]]
  /\ UNCHANGED <<key, proof, verifier, target>>

\* activate_user_content_key
RotateKey(k) ==
  /\ key[k] = "pending"
  /\ key' = [i \in Keys |-> IF i = k THEN "active"
                            ELSE IF key[i] = "active" THEN "retired" ELSE key[i]]
  /\ UNCHANGED <<note, gen, row, job, proof, verifier, target>>

\* (mutant) a revocation leaves the generations' tokens alone.
RevokeKeyQuietly(k) ==
  /\ Usable(k) /\ Cardinality({i \in Keys : key[i] = "revoked"}) < MaxRevoked
  /\ key' = [key EXCEPT ![k] = "revoked"]
  /\ UNCHANGED <<note, gen, row, job, proof, verifier, target>>
\* An operator revokes a key: user_content_keys_invalidate_rag_generation.
RevokeKey(k) ==
  /\ Usable(k) /\ Cardinality({i \in Keys : key[i] = "revoked"}) < MaxRevoked
  /\ key' = [key EXCEPT ![k] = "revoked"]
  /\ gen' = [g \in Gens |->
       IF Live(g) /\ \E n \in Rows(g) : row[g][n].key = k THEN Bump(g) ELSE gen[g]]
  /\ UNCHANGED <<note, row, job, proof, verifier, target>>

\* A deployment with another embedding model.
Deploy(t) ==
  /\ target' = t
  /\ UNCHANGED <<note, key, gen, row, job, proof, verifier>>

-----------------------------------------------------------------------------
(* The queue.                                                              *)

\* claim_note_index_jobs: work that can never be done is failed, not leased.
ClaimTerminal(w) ==
  /\ job[w].state = "queued" /\ job[w].attempt < MaxAttempts
  /\ ~Workable(w)
  /\ job' = [job EXCEPT ![w] = Finish(w, "failed")]
  /\ UNCHANGED <<note, key, gen, row, proof, verifier, target>>

\* Without an active key the job only goes to the back of the queue.
ClaimLease(w) ==
  /\ job[w].state = "queued" /\ job[w].attempt < MaxAttempts
  /\ Workable(w)
  /\ \E k \in ActiveKeys :
       job' = [job EXCEPT ![w] = [state |-> "leased", attempt |-> @.attempt + 1,
                                  lease |-> "live", key |-> k]]
  /\ UNCHANGED <<note, key, gen, row, proof, verifier, target>>

Expire(w) ==
  /\ job[w].state = "leased" /\ job[w].lease = "live"
  /\ job' = [job EXCEPT ![w].lease = "expired"]
  /\ UNCHANGED <<note, key, gen, row, proof, verifier, target>>

\* (mutant) work is requeued whatever its attempts.
RecoverAlways(w) ==
  /\ job[w].state = "leased" /\ job[w].lease = "expired"
  /\ job' = [job EXCEPT ![w] = Finish(w,
       IF note[w.note].kind = "eligible" /\ note[w.note].rev = w.rev /\ Live(w.gen)
       THEN "queued" ELSE "failed")]
  /\ UNCHANGED <<note, key, gen, row, proof, verifier, target>>
\* recover_stale_note_index_jobs: a key revoked meanwhile is left to the claim.
Recover(w) ==
  /\ job[w].state = "leased" /\ job[w].lease = "expired"
  /\ job' = [job EXCEPT ![w] = Finish(w,
       IF /\ job[w].attempt < MaxAttempts
          /\ note[w.note].kind = "eligible" /\ note[w.note].rev = w.rev /\ Live(w.gen)
       THEN "queued" ELSE "failed")]
  /\ UNCHANGED <<note, key, gen, row, proof, verifier, target>>

LeaseHeld(w) == job[w].state = "leased" /\ job[w].lease = "live"

\* fail_note_index_job
Fail(w, retryable) ==
  /\ LeaseHeld(w)
  /\ job' = [job EXCEPT ![w] = Finish(w,
       IF retryable /\ job[w].attempt < MaxAttempts THEN "queued" ELSE "failed")]
  /\ UNCHANGED <<note, key, gen, row, proof, verifier, target>>

\* commit_note_rag_index of work that is no longer wanted.
CommitRefused(w) ==
  /\ LeaseHeld(w) /\ ~Workable(w)
  /\ job' = [job EXCEPT ![w] = Finish(w, "failed")]
  /\ UNCHANGED <<note, key, gen, row, proof, verifier, target>>

\* commit_note_rag_index; a row under a key that is not active any more is
\* refused by note_rag_index_enforce_eligibility, and the job stays leased.
Commit(w) ==
  /\ LeaseHeld(w) /\ Workable(w) /\ job[w].key \in ActiveKeys
  /\ row[w.gen][w.note].rev <= w.rev
  /\ row' = [row EXCEPT ![w.gen][w.note] = [rev |-> w.rev, key |-> job[w].key]]
  /\ job' = [job EXCEPT ![w] = Finish(w, "succeeded")]
  /\ LET covered == Cardinality(Covered(w.gen) \cup {w.note}) IN
     gen' = [gen EXCEPT ![w.gen] =
       [Bump(w.gen) EXCEPT !.indexed = IF covered < gen[w.gen].expected
                                       THEN covered ELSE gen[w.gen].expected]]
  /\ UNCHANGED <<note, key, proof, verifier, target>>

-----------------------------------------------------------------------------
(* The control plane.                                                      *)

\* ensure_rag_index_generation: an unused id, no other build.
Ensure(g, t) ==
  /\ gen[g].state = "none" /\ Building = {} /\ ActiveKeys # {}
  /\ gen' = [gen EXCEPT ![g] = [state |-> "building", target |-> t,
                                expected |-> Cardinality(Eligible), indexed |-> 0, token |-> 0]]
  /\ UNCHANGED <<note, key, row, job, proof, verifier, target>>

\* seed_rag_index_generation: a terminal job without a usable row blocks it.
Blocked(g) ==
  \E n \in Eligible \ Covered(g) :
    \E w \in Work : /\ w.gen = g /\ w.note = n /\ w.rev = note[n].rev
                    /\ job[w].state \in {"failed", "succeeded"}
Missing(g) ==
  {n \in Eligible \ Covered(g) :
     \A w \in Work : w.gen = g /\ w.note = n /\ w.rev = note[n].rev => job[w] = NoJob}

\* A batch: the missing notes between the cursor and the batch's last one.
Seed(g, after, last) ==
  LET batch == {n \in Missing(g) : after < n /\ n <= last} IN
  /\ gen[g].state = "building" /\ ~Blocked(g)
  /\ batch # {} \/ gen[g].expected # Cardinality(Eligible)
  /\ job' = [w \in Work |-> IF w.gen = g /\ w.note \in batch /\ w.rev = note[w.note].rev
                            THEN Queued ELSE job[w]]
  /\ gen' = [gen EXCEPT ![g] = [Bump(g) EXCEPT !.expected = Cardinality(Eligible)]]
  /\ UNCHANGED <<note, key, row, proof, verifier, target>>

\* (mutant) the served generation can be failed too.
FailLiveGeneration(g) ==
  /\ Live(g)
  /\ gen' = [gen EXCEPT ![g] = [Bump(g) EXCEPT !.state = "failed"]]
  /\ proof' = [proof EXCEPT ![g] = NoProof]
  /\ UNCHANGED <<note, key, row, job, verifier, target>>
\* fail_rag_index_generation
FailGeneration(g) ==
  /\ gen[g].state = "building"
  /\ gen' = [gen EXCEPT ![g] = [Bump(g) EXCEPT !.state = "failed"]]
  /\ proof' = [proof EXCEPT ![g] = NoProof]
  /\ UNCHANGED <<note, key, row, job, verifier, target>>

\* activate_rag_index_generation: the old one retires in the same transaction
\* and the proof moves to the new token.
Activate(g) ==
  /\ gen[g].state = "building" /\ proof[g].token = gen[g].token
  /\ proof[g].rows = Attestation(g) /\ Complete(g)
  /\ gen' = [h \in Gens |->
       IF h = g THEN [Bump(g) EXCEPT !.state = "active", !.indexed = Cardinality(Covered(g))]
       ELSE IF gen[h].state = "active" THEN [Bump(h) EXCEPT !.state = "retired"]
       ELSE gen[h]]
  /\ proof' = [proof EXCEPT ![g].token = gen[g].token + 1]
  /\ UNCHANGED <<note, key, row, job, verifier, target>>

-----------------------------------------------------------------------------
(* The verifier.                                                           *)

\* It is handed the owner's building generation and the token the controller saw.
StartVerification(g) ==
  /\ verifier = Idle /\ gen[g].state = "building"
  /\ gen[g].expected = gen[g].indexed
  /\ verifier' = Unread(g, gen[g].token)
  /\ UNCHANGED <<note, key, gen, row, job, proof, target>>

\* list_building_note_rag_index: one page under the token; the last page brings
\* the digest.  A row that cannot be opened ends the verification.
Rest(g) == {n \in Rows(g) : n > verifier.cursor}
ReadPage(last) ==
  LET g == verifier.gen
      page == {n \in Rest(g) : n <= last}
  IN
  /\ verifier # Idle /\ verifier.digest = "none"
  /\ gen[g].state = "building" /\ gen[g].token = verifier.token
  /\ page # {} \/ Rest(g) = {}
  /\ \A n \in page : Usable(row[g][n].key)
  /\ verifier' = [verifier EXCEPT
       !.cursor = IF page = {} THEN @ ELSE last,
       !.opened = @ \cup {<<n, row[g][n].rev, row[g][n].key>> : n \in page},
       !.digest = IF page = Rest(g) THEN "attested" ELSE "none",
       !.rows = IF page = Rest(g) THEN Attestation(g) ELSE @]
  /\ UNCHANGED <<note, key, gen, row, job, proof, target>>

\* verify_rag_index_generation, after as many rows as the generation expects.
Attest ==
  LET g == verifier.gen IN
  /\ verifier.digest = "attested"
  /\ Live(g) /\ gen[g].token = verifier.token
  /\ Cardinality(verifier.opened) = gen[g].expected
  /\ Complete(g) /\ verifier.rows = Attestation(g)
  /\ proof' = [proof EXCEPT ![g] = [token |-> verifier.token, rows |-> verifier.rows]]
  /\ verifier' = Idle
  /\ UNCHANGED <<note, key, gen, row, job, target>>

\* Any failure, a stale token, a deadline or a crash ends the verification.
AbandonVerification ==
  /\ verifier # Idle
  /\ verifier' = Idle
  /\ UNCHANGED <<note, key, gen, row, job, proof, target>>

-----------------------------------------------------------------------------
Init ==
  /\ note = [n \in Notes |-> NoNote]
  /\ \E k \in Keys : key = [i \in Keys |-> IF i = k THEN "active" ELSE "pending"]
  /\ gen = [g \in Gens |-> NoGeneration]
  /\ row = [g \in Gens |-> [n \in Notes |-> NoRow]]
  /\ job = [w \in Work |-> NoJob]
  /\ proof = [g \in Gens |-> NoProof]
  /\ verifier = Idle
  /\ target \in Targets

OwnerStep ==
  \/ \E n \in Notes, kind \in {"eligible", "hidden"} : CreateNote(n, kind) \/ WriteNote(n, kind)
  \/ \E n \in Notes : PurgeNote(n)
  \/ \E k \in Keys : RotateKey(k) \/ RevokeKey(k)
  \/ \E t \in Targets : Deploy(t)
QueueStep ==
  \E w \in Work :
    \/ ClaimTerminal(w) \/ ClaimLease(w) \/ Expire(w) \/ Recover(w)
    \/ CommitRefused(w) \/ Commit(w)
    \/ \E retryable \in BOOLEAN : Fail(w, retryable)
ControlStep ==
  \E g \in Gens :
    \/ \E t \in Targets : Ensure(g, t)
    \/ \E after \in Notes \cup {0}, last \in Notes \cup {0} : Seed(g, after, last)
    \/ FailGeneration(g) \/ Activate(g) \/ StartVerification(g)
VerifierStep ==
  \/ \E last \in Notes \cup {0} : ReadPage(last)
  \/ Attest \/ AbandonVerification

Next == OwnerStep \/ QueueStep \/ ControlStep \/ VerifierStep
Spec == Init /\ [][Next]_vars

-----------------------------------------------------------------------------
(* Properties.                                                             *)

GenState == {"none", "building", "active", "retired", "failed"}
\* A note that is there has a revision and a content key.
NoteType == {NoNote, [NoNote EXCEPT !.kind = "purged"]} \cup
            [rev : Revisions, kind : {"eligible", "hidden"}, key : Keys]
GenType == [state : GenState, target : Targets \cup {NoTarget},
            expected : Nat, indexed : Nat, token : Nat]
RowType == {NoRow} \cup [rev : Revisions, key : Keys]
JobType == [state : {"none", "queued", "leased", "succeeded", "failed"},
            attempt : 0 .. MaxAttempts, lease : {"none", "live", "expired"},
            key : Keys \cup {NoKey}]
Entry == Notes \X Revisions \X Keys
ProofType == [token : Nat \cup {-1}, rows : SUBSET Entry]
\* A verification names its generation.
VerifierType == {Idle} \cup
  [gen : Gens, token : Nat, cursor : Notes \cup {0}, opened : SUBSET Entry,
   digest : {"none", "attested"}, rows : SUBSET Entry]

\* Type correctness: the columns hold what the tables' constraints allow.
TypeOK ==
  /\ note \in [Notes -> NoteType]
  /\ key \in [Keys -> {"pending", "active", "retired", "revoked"}]
  /\ gen \in [Gens -> GenType]
  /\ row \in [Gens -> [Notes -> RowType]]
  /\ job \in [Work -> JobType]
  /\ proof \in [Gens -> ProofType]
  /\ verifier \in VerifierType
  /\ target \in Targets

\* A proof that search and the organizer accept, one under the generation's
\* present token, is true: the generation has one row for every eligible note,
\* at its present revision, under a key that opens it, and nothing pending,
\* whatever was written, rotated, revoked or purged since the verifier looked.
VerifiedMeansCovered == \A g \in Gens : Attested(g) => Complete(g) /\ proof[g].rows = Attestation(g)

\* No row was attested that the verifier did not open itself: no row can slip
\* in behind the cursor of a paged read and reach an activated generation.
OpenedBeforeAttested ==
  verifier.digest = "attested" /\ Live(verifier.gen) /\ gen[verifier.gen].token = verifier.token
    => verifier.opened = Attestation(verifier.gen)

\* A note that became private or was trashed has no row in any generation,
\* retired and failed ones included, and no work that could write one.
HiddenNeverIndexed ==
  \A n \in Notes : note[n].kind # "eligible" =>
    /\ \A g \in Gens : row[g][n] = NoRow
    /\ \A w \in Work : w.note = n => ~Pending(w)

\* The counters a generation is judged by bracket the truth: as many notes are
\* expected as are eligible, at least the usable rows are counted and no more
\* than the current ones, so indexed <= expected, as the table demands.
CountsBracketed ==
  \A g \in Gens : Live(g) =>
    /\ gen[g].expected = Cardinality(Eligible)
    /\ Cardinality(Covered(g)) <= gen[g].indexed
    /\ gen[g].indexed <= Cardinality(Current(g))

\* An eligible note the active generation does not cover has a job for its
\* present revision: it is queued, leased, or known to have ended.
NoSilentGap ==
  \A g \in Gens : gen[g].state = "active" =>
    \A n \in Eligible \ Covered(g) :
      \E w \in Work : w.gen = g /\ w.note = n /\ w.rev = note[n].rev /\ job[w] # NoJob

\* Work is only ever pending for the present revision of its note, and can be
\* claimed: a waiting job has attempts left.
PendingIsCurrent ==
  \A w \in Work : Pending(w) =>
    /\ note[w.note].rev = w.rev
    /\ job[w].state = "queued" => job[w].attempt < MaxAttempts

\* Once an index is served there is always one: a generation stops being
\* active only in the step that activates its verified successor.
SwitchStep ==
  \A g \in Gens : gen[g].state = "active" /\ gen'[g].state # "active" =>
    \E h \in Gens : gen'[h].state = "active" /\ Attested(h)
SwitchIsAtomic == [][SwitchStep]_vars

\* Queued work ends: it is indexed, superseded or failed, whatever workers do.
WorkSettles == \A w \in Work : Pending(w) ~> ~Pending(w)

\* docs/runbooks/index-backlog.md:49 asks of a recovered index that its proof
\* be current: a covered, idle active generation has one or will be maintained.
ProofCurrentOrListed ==
  \A g \in Gens : gen[g].state = "active" /\ Complete(g) => Attested(g) \/ Listed
=============================================================================
