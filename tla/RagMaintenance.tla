--------------------------- MODULE RagMaintenance ---------------------------
(***************************************************************************)
(* The maintenance of the retrieval index: scheduled passes that page       *)
(* through the owners whose index must be rebuilt, seed a generation for    *)
(* each, let the index worker drain and, in a second round, have finished   *)
(* generations verified and activated.  Owners write, keys come and go, the *)
(* worker commits and a call may fail between any two steps of a pass.      *)
(*                                                                         *)
(* The store is that of RagIndex, seen from the controller: an owner has at *)
(* most one building generation, and "deployed" is the embedding model of   *)
(* the deployment.  Abstracted: of a generation a pass has read about, what *)
(* has become of the token it read; the checkpoint's revision likewise; the *)
(* counters, read off the notes; the replay of an ambiguous call under its  *)
(* own request id, which is the same call.                                  *)
(***************************************************************************)
EXTENDS Sequences, Ranks

CONSTANTS
  Owners,        \* numbers: owners are paged in their order
  Notes,         \* notes of an owner
  Passes,        \* passes that may overlap
  Poison,        \* owners whose notes the index worker can never index
  Capacity,      \* RAG_GENERATION_VERIFICATION_NOTE_CAPACITY
  PageLimit,     \* candidatePageLimit
  MaxPages,      \* maxCandidatePages
  SeedLimit,     \* seedPageLimit
  MaxSeedPages,  \* maxSeedPagesPerGeneration
  MaxWrites,     \* bound: writes of notes and keys
  MaxFaults      \* bound: calls that fail for good, jobs that fail, lost passes

MaintenanceAssumption ==
  /\ Owners \subseteq Nat \ {0} /\ IsFiniteSet(Owners) /\ Poison \subseteq Owners
  /\ {Capacity, PageLimit, MaxPages, SeedLimit, MaxSeedPages} \subseteq Nat \ {0}
  /\ MaxWrites \in Nat /\ MaxFaults \in Nat

VARIABLES
  owner,       \* an owner's keys, generations and notes
  checkpoint,  \* rag_index_maintenance_checkpoints.after_owner_id, by phase
  pass,        \* runRagGenerationMaintenance
  spent        \* of the two bounds

vars == <<owner, checkpoint, pass, spent>>

Eligible(o) == {n \in Notes : owner[o].note[n] # "out"}
Over(o) == Cardinality(Eligible(o)) > Capacity
In(o, state) == {n \in Notes : owner[o].note[n] = state}
\* Every eligible note has a row that can be opened; by the counters, a row.
Complete(o) == \A n \in Eligible(o) : owner[o].note[n] = "covered"
Counted(o) == \A n \in Eligible(o) : owner[o].note[n] \in {"covered", "lost"}
\* A terminal job of the present revision, and no row that can be opened.
Blocked(o) == In(o, "failed") \cup In(o, "lost") # {}

\* rag_index_maintenance_candidate_rows
Listed(o) ==
  \/ owner[o].build # "none"
  \/ owner[o].ready /\ ~Over(o) /\ owner[o].served # "deployed"

\* What a page says of an owner; "token": what has happened to the one it gives.
Snapshot(o) ==
  [owner |-> o, ready |-> owner[o].ready, over |-> Over(o), build |-> owner[o].build,
   complete |-> Counted(o), token |-> "present"]

Resting == [pc |-> "idle", phase |-> "seed", page |-> <<>>, more |-> FALSE, pages |-> 0,
            fresh |-> FALSE, todo |-> <<>>, seeds |-> 0, seeded |-> FALSE]

Here(p) == Head(pass[p].page)
\* A step that moves the owner's token, seen by those who have read it.  A
\* generation that failed under it stays so.
Moved(how, token) ==
  CASE token = "present" -> how
    [] token = "activated" -> "moved"
    [] OTHER -> token
Marked(c, o, how) == IF c.owner = o THEN [c EXCEPT !.token = Moved(how, @)] ELSE c
After(o, how) ==
  [p \in Passes |-> [pass[p] EXCEPT !.page = [i \in DOMAIN @ |-> Marked(@[i], o, how)]]]
Stale(o) == After(o, "moved")
\* ... but the pass that moved it has the new one.
Renewed(p) == [Stale(Here(p).owner) EXCEPT ![p].page[1].token = "present"]
Known(p) == Here(p).token = "present"

Faulty == spent.faults < MaxFaults /\ spent' = [spent EXCEPT !.faults = @ + 1]

-----------------------------------------------------------------------------
(* The owner's notes and keys, and the index worker.                       *)

Writing == spent.writes < MaxWrites /\ spent' = [spent EXCEPT !.writes = @ + 1]

\* (mutant) the trigger misses a note that is not in the index yet.
WriteUnseen(o, n, eligible) ==
  /\ Writing
  /\ owner' = [owner EXCEPT ![o].note[n] =
       IF ~eligible THEN "out" ELSE IF owner[o].build = "none" THEN "missing" ELSE "queued"]
  /\ UNCHANGED <<checkpoint, pass>>
\* A write for a building generation queues its job.
Write(o, n, eligible) ==
  /\ Writing
  /\ owner' = [owner EXCEPT ![o].note[n] =
       IF ~eligible THEN "out" ELSE IF owner[o].build = "none" THEN "missing" ELSE "queued",
       ![o].proven = FALSE]
  /\ pass' = Stale(o)
  /\ UNCHANGED checkpoint

\* The active key is revoked, and with it the rows under it; or there is one again.
RevokeKey(o) ==
  /\ Writing /\ owner[o].ready
  /\ owner' = [owner EXCEPT ![o].ready = FALSE, ![o].proven = @ /\ In(o, "covered") = {},
       ![o].note = [n \in Notes |-> IF @[n] = "covered" THEN "lost" ELSE @[n]]]
  /\ pass' = IF In(o, "covered") = {} THEN pass ELSE Stale(o)
  /\ UNCHANGED checkpoint
AddKey(o) ==
  /\ Writing /\ ~owner[o].ready
  /\ owner' = [owner EXCEPT ![o].ready = TRUE]
  /\ UNCHANGED <<checkpoint, pass>>

\* commit_note_rag_index; it counts the rows that can be opened.
Index(o, n) ==
  /\ owner[o].note[n] = "queued" /\ owner[o].ready /\ o \notin Poison
  /\ owner' = [owner EXCEPT ![o].proven = FALSE, ![o].note =
       [m \in Notes |-> IF m = n THEN "covered" ELSE IF @[m] = "lost" THEN "failed" ELSE @[m]]]
  /\ pass' = Stale(o)
  /\ UNCHANGED <<checkpoint, spent>>

\* The job's attempts are used up.
FailJob(o, n) ==
  /\ owner[o].note[n] = "queued"
  /\ IF o \in Poison \/ ~owner[o].ready THEN UNCHANGED spent ELSE Faulty
  /\ owner' = [owner EXCEPT ![o].note[n] = "failed"]
  /\ UNCHANGED <<checkpoint, pass>>

-----------------------------------------------------------------------------
(* A pass.                                                                 *)

Abort(p) == pass' = [pass EXCEPT ![p] = Resting]
\* The next candidate; what was done for this one stays.
Skip(p, passes) ==
  [passes EXCEPT ![p].page = Tail(@), ![p].todo = <<>>, ![p].seeds = 0,
                 ![p].pc = "visit"]

\* The schedule calls the maintenance route.
Start(p) ==
  /\ pass[p].pc = "idle"
  /\ pass' = [pass EXCEPT ![p].pc = "list"]
  /\ UNCHANGED <<owner, checkpoint, spent>>

\* list_rag_index_maintenance_candidates: a first page goes on from the
\* checkpoint and wraps when nothing is left; a later one must still be next.
From(p, phase) ==
  IF pass[p].pages = 0 /\ \A o \in Owners : o > checkpoint[phase] => ~Listed(o) THEN 0
  ELSE checkpoint[phase]
Rest(p, phase) == {o \in Owners : Listed(o) /\ o > From(p, phase)}
PageOf(rest) == Lowest(PageLimit, rest)

\* One call, and the checkpoint is moved whatever becomes of the page.
List(p) ==
  LET phase == pass[p].phase
      rest == Rest(p, phase)
      page == PageOf(rest)
      owners == InOrder(page)
      last == IF page = {} THEN 0 ELSE owners[Len(owners)]
      outdated == [q \in Passes |-> IF pass[q].phase = phase THEN [pass[q] EXCEPT !.fresh = FALSE]
                                    ELSE pass[q]]
  IN
  /\ pass[p].pc = "list"
  /\ IF pass[p].pages > 0 /\ ~pass[p].fresh
     THEN Abort(p) /\ UNCHANGED checkpoint
     ELSE /\ checkpoint' = [checkpoint EXCEPT ![phase] = last]
          /\ pass' = [outdated EXCEPT ![p].pc = "visit", ![p].fresh = TRUE, ![p].pages = @ + 1,
               ![p].more = rest # page,
               ![p].page = [i \in DOMAIN owners |-> Snapshot(owners[i])]]
  /\ UNCHANGED <<owner, spent>>

\* seedCandidate and verifyCandidate: the calls a candidate is due, from what
\* the page said of it.
Discard(c, why) == IF c.build = "none" THEN <<>> ELSE <<why>>
Due(c, phase) ==
  IF c.over THEN Discard(c, "fail over capacity")
  ELSE IF ~c.ready THEN Discard(c, "fail unready")
  ELSE IF phase = "seed"
  THEN CASE c.build = "deployed" -> <<"seed">>
         [] c.build = "other" -> <<"fail replaced", "ensure", "seed">>
         [] c.build = "none" -> <<"ensure", "seed">>
  ELSE IF c.build = "deployed" /\ c.complete THEN <<"verify", "activate">>
  ELSE <<>>

Visit(p) ==
  /\ pass[p].pc = "visit" /\ pass[p].page # <<>>
  /\ LET due == Due(Here(p), pass[p].phase) IN
     pass' = IF due = <<>> THEN Skip(p, pass)
             ELSE [pass EXCEPT ![p].pc = "call", ![p].todo = due]
  /\ UNCHANGED <<owner, checkpoint, spent>>

Calling(p, call) == pass[p].pc = "call" /\ Head(pass[p].todo) = call
Done(p, passes) ==
  IF Len(pass[p].todo) = 1 THEN Skip(p, passes)
  ELSE [passes EXCEPT ![p].todo = Tail(@)]
\* The pass's present candidate has no building generation any more.
Unbuilt(o) ==
  [owner EXCEPT ![o].build = "none", ![o].proven = FALSE,
                ![o].note = [n \in Notes |-> IF @[n] = "out" THEN "out" ELSE "missing"]]

Reasons == {"fail over capacity", "fail unready", "fail replaced", "fail blocked",
            "fail incomplete", "fail corrupt"}
\* fail_rag_index_generation: another pass may have failed it already; any
\* other token ends the whole pass.
Fail(p, why) ==
  LET o == Here(p).owner IN
  /\ Calling(p, why)
  /\ \/ Known(p) /\ owner' = Unbuilt(o) /\ pass' = Done(p, After(o, "failed"))
     \/ Here(p).token = "failed" /\ pass' = Done(p, pass) /\ UNCHANGED owner
     \/ Here(p).token \in {"moved", "activated"} /\ Abort(p) /\ UNCHANGED owner
  /\ UNCHANGED <<checkpoint, spent>>

\* ensure_rag_index_generation: refused if there is another build or no key.
Ensure(p) ==
  LET o == Here(p).owner IN
  /\ Calling(p, "ensure")
  /\ IF owner[o].build = "none" /\ owner[o].ready
     THEN /\ owner' = [owner EXCEPT ![o].build = "deployed"]
          /\ pass' = IF Over(o) THEN [Renewed(p) EXCEPT ![p].todo = <<"fail over capacity">>]
                     ELSE Done(p, Renewed(p))
     ELSE Abort(p) /\ UNCHANGED owner
  /\ UNCHANGED <<checkpoint, spent>>

\* seed_rag_index_generation, page by page: as many notes as a page has.
Batches(o) ==
  {b \in SUBSET In(o, "missing") :
     Cardinality(b) <= SeedLimit /\ (b = In(o, "missing") \/ Cardinality(b) = SeedLimit)}
Seed(p) ==
  LET o == Here(p).owner
      last == pass[p].seeds + 1 = MaxSeedPages
  IN
  /\ Calling(p, "seed")
  /\ IF ~Known(p) THEN Abort(p) /\ UNCHANGED owner
     ELSE IF Blocked(o)
     THEN pass' = [pass EXCEPT ![p].todo = <<"fail blocked">>] /\ UNCHANGED owner
     ELSE \E batch \in Batches(o) :
          LET seeded == IF batch = {} THEN pass ELSE Renewed(p) IN
          /\ owner' = [owner EXCEPT ![o].note =
               [n \in Notes |-> IF n \in batch THEN "queued" ELSE @[n]],
               ![o].proven = @ /\ batch = {}]
          /\ pass' = IF Over(o) THEN [seeded EXCEPT ![p].todo = <<"fail over capacity">>]
                     ELSE IF last \/ batch = In(o, "missing")
                     THEN Skip(p, [seeded EXCEPT ![p].seeded = TRUE])
                     ELSE [seeded EXCEPT ![p].seeds = @ + 1]
  /\ UNCHANGED <<checkpoint, spent>>

\* The verifier: unavailable for another token than it was told; what it reads
\* is the whole index, or a row is under a revoked key, or one does not decrypt.
Verify(p) ==
  LET o == Here(p).owner IN
  /\ Calling(p, "verify")
  /\ \/ /\ Known(p) /\ Complete(o)
        /\ owner' = [owner EXCEPT ![o].proven = TRUE]
        /\ pass' = Done(p, pass) /\ UNCHANGED spent
     \/ ~Known(p) /\ pass' = Skip(p, pass) /\ UNCHANGED <<owner, spent>>
     \/ /\ Known(p)
        /\ IF Complete(o) THEN Faulty ELSE UNCHANGED spent
        /\ pass' = [pass EXCEPT ![p].todo =
             IF Complete(o) THEN <<"fail corrupt">> ELSE <<"fail incomplete">>]
        /\ UNCHANGED owner
  /\ UNCHANGED checkpoint

\* activate_rag_index_generation: another pass may have done it already.
Activate(p) ==
  LET o == Here(p).owner IN
  /\ Calling(p, "activate")
  /\ IF Known(p) /\ owner[o].proven
     THEN /\ owner' = [Unbuilt(o) EXCEPT ![o].served = owner[o].build]
          /\ pass' = Done(p, After(o, "activated"))
     ELSE /\ IF Here(p).token = "activated" THEN pass' = Done(p, pass) ELSE Abort(p)
          /\ UNCHANGED owner
  /\ UNCHANGED <<checkpoint, spent>>

\* A call and its replay are both unavailable: the next candidate.
GiveUp(p) ==
  /\ pass[p].pc = "call" /\ Faulty
  /\ pass' = Skip(p, pass)
  /\ UNCHANGED <<owner, checkpoint>>

\* The deadline, or a page or a drain that is unavailable.
Lose(p) ==
  /\ pass[p].pc # "idle" /\ Faulty
  /\ Abort(p)
  /\ UNCHANGED <<owner, checkpoint>>

\* (mutant) each phase begins at the first owner.
TurnOver(p) ==
  /\ pass[p].pc = "visit" /\ pass[p].page = <<>>
  /\ pass' = IF pass[p].phase = "seed"
             THEN [pass EXCEPT ![p] = [Resting EXCEPT !.pc = "list", !.phase = "verify"]]
             ELSE [pass EXCEPT ![p] = Resting]
  /\ checkpoint' = [checkpoint EXCEPT ![pass[p].phase] = 0]
  /\ UNCHANGED <<owner, spent>>
\* The page is done: the next page, the drain and the other phase, or the end.
Turn(p) ==
  /\ pass[p].pc = "visit" /\ pass[p].page = <<>>
  /\ pass' =
       IF pass[p].more /\ pass[p].pages < MaxPages THEN [pass EXCEPT ![p].pc = "list"]
       ELSE IF pass[p].phase = "verify" THEN [pass EXCEPT ![p] = Resting]
       ELSE [pass EXCEPT ![p] = [Resting EXCEPT !.phase = "verify",
                                   !.pc = IF pass[p].seeded THEN "drain" ELSE "list"]]
  /\ UNCHANGED <<owner, checkpoint, spent>>

\* drainIndexWorkerUntilIdle: the waves are the index worker's own steps.
Drained(p) ==
  /\ pass[p].pc = "drain"
  /\ pass' = [pass EXCEPT ![p].pc = "list"]
  /\ UNCHANGED <<owner, checkpoint, spent>>

-----------------------------------------------------------------------------

\* An index that is behind the deployment, or a first one.
Init ==
  /\ owner \in [Owners ->
       {[ready |-> TRUE, served |-> "other", build |-> "none", note |-> note, proven |-> FALSE] :
          note \in [Notes -> {"missing", "out"}]}
       \cup {[ready |-> TRUE, served |-> "none", build |-> "other",
              note |-> [n \in Notes |-> "queued"], proven |-> FALSE]}]
  /\ checkpoint = [phase \in {"seed", "verify"} |-> 0]
  /\ pass = [p \in Passes |-> Resting]
  /\ spent = [writes |-> 0, faults |-> 0]

Step(p) ==
  \/ Start(p) \/ List(p) \/ Visit(p) \/ Ensure(p) \/ Seed(p) \/ Verify(p) \/ Activate(p)
  \/ \E why \in Reasons : Fail(p, why)
  \/ Turn(p) \/ Drained(p)

Environment ==
  \/ \E o \in Owners, n \in Notes, eligible \in BOOLEAN : Write(o, n, eligible)
  \/ \E o \in Owners : RevokeKey(o) \/ AddKey(o)
  \/ \E o \in Owners, n \in Notes : Index(o, n) \/ FailJob(o, n)

Next == Environment \/ \E p \in Passes : Step(p) \/ GiveUp(p) \/ Lose(p)

Spec == Init /\ [][Next]_vars

-----------------------------------------------------------------------------

Models == {"none", "other", "deployed"}
Candidate == [owner : Owners, ready : BOOLEAN, over : BOOLEAN, build : Models,
              complete : BOOLEAN, token : {"present", "moved", "failed", "activated"}]

TypeOK ==
  /\ owner \in [Owners -> [ready : BOOLEAN, served : Models, build : Models, proven : BOOLEAN,
                           note : [Notes -> {"out", "missing", "queued", "failed", "covered", "lost"}]]]
  /\ checkpoint \in [{"seed", "verify"} -> Owners \cup {0}]
  /\ \A p \in Passes :
       /\ pass[p].pc \in {"idle", "list", "visit", "call", "drain"}
       /\ pass[p].phase \in {"seed", "verify"}
       /\ Len(pass[p].page) <= PageLimit /\ \A i \in DOMAIN pass[p].page : pass[p].page[i] \in Candidate
       /\ pass[p].pages \in 0 .. MaxPages /\ pass[p].seeds \in 0 .. MaxSeedPages
       /\ {pass[p].more, pass[p].fresh, pass[p].seeded} \subseteq BOOLEAN
       /\ \A i \in DOMAIN pass[p].todo : pass[p].todo[i] \in Reasons \cup {"ensure", "seed", "verify", "activate"}
  /\ spent \in [writes : 0 .. MaxWrites, faults : 0 .. MaxFaults]

\* What is still so when a build goes for "why", although the pass decided on
\* an older page: it has too many notes, is for another model, has work that
\* can never be done again, has a row under a revoked key, or is the very
\* index in which the verifier found a row that does not decrypt.  One reason
\* may be out of date: an owner without a key on the page may have one again,
\* because a new key moves no token.  All that build has lost is its queue: it
\* holds no row that could be opened.
Justified(why, o) ==
  /\ why = "fail over capacity" => Over(o)
  /\ why = "fail unready" => In(o, "covered") = {}
  /\ why = "fail replaced" => owner[o].build = "other"
  /\ why = "fail blocked" => Blocked(o)
  /\ why = "fail incomplete" => Counted(o) /\ In(o, "lost") # {}
  /\ why = "fail corrupt" => Complete(o)
  /\ why = "activate" => Complete(o) /\ owner[o].build = "deployed"

\* A build only goes by a call that is made for its owner, and for a reason
\* that holds as far as Justified says.
FailedStep ==
  \A o \in Owners : owner[o].build # "none" /\ owner'[o].build = "none" =>
    \E p \in Passes :
      /\ pass[p].pc = "call" /\ pass'[p].todo # pass[p].todo /\ Here(p).owner = o
      /\ Head(pass[p].todo) \in Reasons \cup {"activate"}
      /\ Justified(Head(pass[p].todo), o)

\* What is activated is the whole index of its owner as it is now, for the
\* deployed model, whichever pass verified it.
ActivatedStep ==
  \A o \in Owners : owner'[o].served # owner[o].served =>
    Complete(o) /\ owner'[o].served = "deployed"

Served(o) == owner[o].served = "deployed"
Servable(o) == owner[o].ready /\ ~Over(o)
\* Every owner whose index can be built gets one for the deployed model, in
\* spite of another owner whose notes can never be indexed and of calls,
\* pages and passes that fail; and a build that cannot be used does not stay.
EveryOwnerServed ==
  \A o \in Owners \ Poison :
    /\ <>[](Servable(o) => Served(o))
    /\ <>[](~Servable(o) => owner[o].build = "none")
=============================================================================
