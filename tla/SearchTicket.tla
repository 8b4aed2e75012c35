---------------------------- MODULE SearchTicket ----------------------------
(***************************************************************************)
(* One semantic search of an owner: the web tier begins a one-use database  *)
(* ticket and sends it to the search service; a search worker claims it,    *)
(* pages the encrypted index under the ticket's lease, verifies its answer  *)
(* and completes it; the web tier reads the answered notes again before it  *)
(* shows them.  Meanwhile the owner edits notes and deletes a tag, and the  *)
(* index is published, attested and switched.  The invocation may be        *)
(* delivered to several workers, a worker may die or run past its deadline, *)
(* and every timer may fire at any moment.                                  *)
(*                                                                         *)
(* Abstracted: the one filter is a tag, which "tagged" notes carry; a note  *)
(* and its index row share an id; the answer is every matching note, scores *)
(* and the best-of cut being data; the lexical half of the search and the   *)
(* embedding of the query are left out; a secret is the worker it went to.  *)
(***************************************************************************)
EXTENDS Integers, FiniteSets

CONSTANTS
  Notes,        \* note ids, numbers: rows are paged in their order
  Workers,      \* deliveries of the one invocation
  NoWorker,
  MaxRevision,  \* bound: a note is edited only below this revision
  MaxSwitches   \* bound: generations activated during the search

TicketAssumption ==
  /\ Notes \subseteq Nat \ {0} /\ IsFiniteSet(Notes) /\ NoWorker \notin Workers
  /\ MaxRevision \in Nat \ {0} /\ MaxSwitches \in Nat

VARIABLES
  note,    \* notes: current_revision and what decides that they match
  index,   \* the active generation, its token, its attestation, its rows
  ticket,  \* encrypted_user_search_capabilities: this search's row
  worker,  \* the search service's queries, one per delivery
  web,     \* the coordinator and the hybrid search that waits for it
  seen     \* what matched when the answer was last verified

vars == <<note, index, ticket, worker, web, seen>>

Revisions == 1 .. MaxRevision

-----------------------------------------------------------------------------
(* What the guards read.                                                   *)

Matching == {n \in Notes : note[n].kind = "tagged"}
Served == {n \in Notes : note[n].kind # "hidden"}
Indexed(n) == index.row[n] = note[n].rev
Attested == index.proof = index.token

\* virtual_snapshot_digest: every matching note and its row.  The ticket holds
\* none of them, or the first page's.
Snapshot == {<<n, note[n].rev, index.row[n]>> : n \in Matching}
Covered == \A n \in Matching : Indexed(n)
\* What a scan of the whole snapshot would have opened.
Openable == {<<n, note[n].rev>> : n \in Matching}

\* The generation and token the ticket was begun for are still served.
SameGeneration == index.id = ticket.gen /\ index.token = ticket.token /\ Attested

\* assert_encrypted_user_search_lease
Holds(w) == ticket.state = "leased" /\ ticket.alive /\ ticket.holder = w

Scanning(w) == worker[w].pc \in {"page", "recheck", "verify", "complete"}

-----------------------------------------------------------------------------
(* The owner and the index.                                                *)

Bumped(row) == [index EXCEPT !.row = row, !.token = @ + 1]

Edit(n, kind) ==
  /\ note[n].rev < MaxRevision
  /\ note' = [note EXCEPT ![n] = [rev |-> @.rev + 1, kind |-> kind]]
  /\ index' = Bumped([index.row EXCEPT ![n] = IF kind = "hidden" THEN 0 ELSE @])
  /\ UNCHANGED <<ticket, worker, web, seen>>

\* delete_tag cascades to note_tags: no revision and no token moves.
DeleteTag ==
  /\ Matching # {}
  /\ note' = [n \in Notes |-> IF n \in Matching THEN [note[n] EXCEPT !.kind = "plain"] ELSE note[n]]
  /\ UNCHANGED <<index, ticket, worker, web, seen>>

Publish(n) ==
  /\ n \in Served /\ ~Indexed(n)
  /\ index' = Bumped([index.row EXCEPT ![n] = note[n].rev])
  /\ UNCHANGED <<note, ticket, worker, web, seen>>

Attest ==
  /\ ~Attested /\ \A n \in Served : Indexed(n)
  /\ index' = [index EXCEPT !.proof = index.token]
  /\ UNCHANGED <<note, ticket, worker, web, seen>>

Switch ==
  /\ index.id < MaxSwitches
  /\ index' = [id |-> index.id + 1, token |-> 0, proof |-> 0,
               row |-> [n \in Notes |-> IF n \in Served THEN note[n].rev ELSE 0]]
  /\ UNCHANGED <<note, ticket, worker, web, seen>>

-----------------------------------------------------------------------------
(* The web tier.                                                           *)

\* begin_encrypted_user_search, or the lexical fallback without a generation.
Begin ==
  /\ web.pc = "idle"
  /\ IF Attested
     THEN /\ ticket' = [ticket EXCEPT !.state = "pending", !.gen = index.id,
                                      !.token = index.token, !.alive = TRUE]
          /\ web' = [web EXCEPT !.pc = "asked"]
     ELSE web' = [web EXCEPT !.pc = "fallback"] /\ UNCHANGED ticket
  /\ UNCHANGED <<note, index, worker, seen>>

\* The answer of any delivery; an error or another generation falls back.
Hear(w) ==
  /\ web.pc = "asked" /\ worker[w].out \in {"error", "result"}
  /\ web' = IF worker[w].out = "result"
            THEN [web EXCEPT !.pc = "hydrating", !.items = worker[w].scanned]
            ELSE [web EXCEPT !.pc = "fallback"]
  /\ UNCHANGED <<note, index, ticket, worker, seen>>

\* The search client's own 20 seconds.
GiveUp ==
  /\ web.pc = "asked"
  /\ web' = [web EXCEPT !.pc = "fallback"]
  /\ UNCHANGED <<note, index, ticket, worker, seen>>

\* addSemanticCandidates: the note as its owner reads it now.
StillAnswers(item) == note[item[1]] = [rev |-> item[2], kind |-> "tagged"]

Unread == {item \in web.items : \A g \in web.got : g[1] # item[1]}

Hydrate ==
  /\ web.pc = "hydrating"
  /\ \E item \in Unread :
       web' = IF StillAnswers(item)
              THEN [web EXCEPT !.got = @ \cup {<<item[1], note[item[1]].rev>>}]
              ELSE [web EXCEPT !.pc = "fallback"]
  /\ UNCHANGED <<note, index, ticket, worker, seen>>

\* (mutant) an empty semantic answer is not merged.
MergeSome ==
  /\ web.pc = "hydrating" /\ Unread = {} /\ web.items # {}
  /\ web' = [web EXCEPT !.pc = "used"]
  /\ UNCHANGED <<note, index, ticket, worker, seen>>
Merge ==
  /\ web.pc = "hydrating" /\ Unread = {}
  /\ web' = [web EXCEPT !.pc = "used"]
  /\ UNCHANGED <<note, index, ticket, worker, seen>>

-----------------------------------------------------------------------------
(* The search worker: one database call per step.                          *)

\* After a call: go on, or give up when the deadline passed meanwhile.
To(w, pc) == IF worker[w].aborted THEN "failing" ELSE pc
Refused(w) == worker' = [worker EXCEPT ![w].pc = "failing"] /\ UNCHANGED <<ticket, seen>>

\* claim_encrypted_user_search; a loser has no lease to fail.
Claim(w) ==
  /\ worker[w].pc = "idle" /\ web.pc # "idle" /\ ticket.state # "none"
  /\ IF ticket.state = "pending" /\ ticket.alive
     THEN /\ ticket' = [ticket EXCEPT !.state = "leased", !.holder = w]
          /\ worker' = [worker EXCEPT ![w].pc = To(w, "page"), ![w].claimed = TRUE]
     ELSE worker' = [worker EXCEPT ![w].pc = "done", ![w].out = "error"] /\ UNCHANGED ticket
  /\ UNCHANGED <<note, index, web, seen>>

\* The page call: the lease, the generation, and the first page's snapshot.
PageAccepted(w) ==
  Holds(w) /\ SameGeneration /\ ticket.digest \subseteq {Snapshot}
\* What the retriever and readPage accept of it.
Readable(w) == PageAccepted(w) /\ Covered
Paged == [ticket EXCEPT !.digest = {Snapshot}]
Rest(w) == {n \in Matching : n > worker[w].cursor}

\* The rows up to the page's last one.
Scanned(w, last) ==
  worker[w].scanned \cup {<<n, index.row[n]>> : n \in {m \in Rest(w) : m <= last}}

Page(w) ==
  /\ worker[w].pc = "page"
  /\ IF PageAccepted(w)
     THEN /\ ticket' = Paged
          /\ IF ~Covered
             THEN worker' = [worker EXCEPT ![w].pc = "failing"]
             ELSE IF Rest(w) = {}
             THEN worker' = [worker EXCEPT ![w].pc = To(w, "recheck")]
             ELSE \E last \in Rest(w) :
                    worker' = [worker EXCEPT ![w].cursor = last, ![w].scanned = Scanned(w, last),
                      ![w].pc = To(w, IF \E n \in Rest(w) : n > last THEN "page" ELSE "recheck")]
          /\ UNCHANGED seen
     ELSE Refused(w)
  /\ UNCHANGED <<note, index, web>>

\* verifySnapshot: the first page once more, and the count of what was read.
Recheck(w) ==
  /\ worker[w].pc = "recheck"
  /\ IF Readable(w) /\ Cardinality(worker[w].scanned) = Cardinality(Matching)
     THEN worker' = [worker EXCEPT ![w].pc = To(w, "verify")] /\ UNCHANGED <<ticket, seen>>
     ELSE Refused(w)
  /\ UNCHANGED <<note, index, web>>

\* (mutant) the verification trusts the pages that were read.
VerifyTrusting(w) ==
  /\ worker[w].pc = "verify"
  /\ IF Holds(w) /\ SameGeneration
     THEN /\ ticket' = [ticket EXCEPT !.verified = TRUE]
          /\ worker' = [worker EXCEPT ![w].pc = To(w, "complete")]
          /\ seen' = Openable
     ELSE Refused(w)
  /\ UNCHANGED <<note, index, web>>
\* verify_encrypted_user_search_snapshot: another page call, then every candidate.
Verify(w) ==
  /\ worker[w].pc = "verify"
  /\ IF Readable(w) /\ worker[w].scanned \subseteq Openable
     THEN /\ ticket' = [ticket EXCEPT !.verified = TRUE]
          /\ worker' = [worker EXCEPT ![w].pc = To(w, "complete")]
          /\ seen' = Openable
     ELSE Refused(w)
  /\ UNCHANGED <<note, index, web>>

\* complete_encrypted_user_search; a deadline that passed hides the success.
Complete(w) ==
  /\ worker[w].pc = "complete"
  /\ IF Holds(w) /\ SameGeneration /\ ticket.verified
     THEN /\ ticket' = [ticket EXCEPT !.state = "completed"]
          /\ worker' = IF worker[w].aborted THEN [worker EXCEPT ![w].pc = "failing"]
                       ELSE [worker EXCEPT ![w].pc = "done", ![w].out = "result"]
          /\ UNCHANGED seen
     ELSE Refused(w)
  /\ UNCHANGED <<note, index, web>>

\* bestEffortFail: refused, the original failure is still the answer.
Fail(w) ==
  /\ worker[w].pc = "failing"
  /\ ticket' = IF Holds(w) THEN [ticket EXCEPT !.state = "failed"] ELSE ticket
  /\ worker' = [worker EXCEPT ![w].pc = "done", ![w].out = "error"]
  /\ UNCHANGED <<note, index, web, seen>>

\* The service's deadline: the request is answered, the query runs on with
\* an aborted signal, so that its next call is already under way or not made.
Deadline(w) ==
  /\ worker[w].pc \notin {"done", "dead"} /\ worker[w].out = "none" /\ web.pc # "idle"
  /\ worker' = [worker EXCEPT ![w].out = "error", ![w].aborted = TRUE]
  /\ UNCHANGED <<note, index, ticket, web, seen>>

Desist(w) ==
  /\ worker[w].aborted
  /\ worker' = IF Scanning(w) THEN [worker EXCEPT ![w].pc = "failing"]
               ELSE [worker EXCEPT ![w].pc = "done"]
  /\ Scanning(w) \/ worker[w].pc = "idle"
  /\ UNCHANGED <<note, index, ticket, web, seen>>

Die(w) ==
  /\ worker[w].pc \notin {"done", "dead"}
  /\ worker' = [worker EXCEPT ![w].pc = "dead"]
  /\ UNCHANGED <<note, index, ticket, web, seen>>

\* claim_expires_at, then lease_expires_at.
Expire ==
  /\ ticket.state \in {"pending", "leased"} /\ ticket.alive
  /\ ticket' = [ticket EXCEPT !.alive = FALSE]
  /\ UNCHANGED <<note, index, worker, web, seen>>

-----------------------------------------------------------------------------

Init ==
  /\ note \in [Notes -> [rev : {1}, kind : {"tagged", "plain"}]]
  /\ index = [id |-> 0, token |-> 0, proof |-> 0, row |-> [n \in Notes |-> 1]]
  /\ ticket = [state |-> "none", gen |-> 0, token |-> 0, digest |-> {},
               verified |-> FALSE, holder |-> NoWorker, alive |-> FALSE]
  /\ worker = [w \in Workers |-> [pc |-> "idle", cursor |-> 0, scanned |-> {},
                                  out |-> "none", aborted |-> FALSE, claimed |-> FALSE]]
  /\ web = [pc |-> "idle", items |-> {}, got |-> {}]
  /\ seen = {}

Environment ==
  \/ \E n \in Notes, kind \in {"tagged", "plain", "hidden"} : Edit(n, kind)
  \/ \E n \in Notes : Publish(n)
  \/ DeleteTag \/ Attest \/ Switch \/ Expire

Answering == Hydrate \/ Merge

Work(w) ==
  \/ Claim(w) \/ Page(w) \/ Recheck(w) \/ Verify(w) \/ Complete(w) \/ Fail(w) \/ Desist(w)

\* A search that was answered stays answered.
Over == web.pc \in {"used", "fallback"} /\ UNCHANGED vars

Next ==
  \/ Environment
  \/ Begin \/ GiveUp \/ Answering \/ Over
  \/ \E w \in Workers : Work(w) \/ Hear(w) \/ Deadline(w) \/ Die(w)

Spec == Init /\ [][Next]_vars

-----------------------------------------------------------------------------

TypeOK ==
  /\ note \in [Notes -> [rev : Revisions, kind : {"tagged", "plain", "hidden"}]]
  /\ index \in [id : 0 .. MaxSwitches, token : Nat, proof : Nat,
                row : [Notes -> 0 .. MaxRevision]]
  /\ ticket.state \in {"none", "pending", "leased", "completed", "failed"}
  /\ ticket.gen \in 0 .. MaxSwitches /\ ticket.token \in Nat
  /\ \A digest \in ticket.digest : digest \subseteq Notes \X Revisions \X (0 .. MaxRevision)
  /\ ticket.verified \in BOOLEAN /\ ticket.alive \in BOOLEAN
  /\ ticket.holder \in Workers \cup {NoWorker}
  /\ worker \in [Workers -> [pc : {"idle", "page", "recheck", "verify", "complete", "failing",
                                   "done", "dead"},
                             cursor : Notes \cup {0},
                             scanned : SUBSET (Notes \X Revisions),
                             out : {"none", "error", "result"},
                             aborted : BOOLEAN, claimed : BOOLEAN]]
  /\ web \in [pc : {"idle", "asked", "hydrating", "used", "fallback"},
              items : SUBSET (Notes \X Revisions), got : SUBSET (Notes \X Revisions)]
  /\ seen \subseteq Notes \X Revisions

\* However often the invocation is delivered, one worker redeems the ticket
\* (ADR-0013: "only one request can win").
OneRedeemer == \A v, w \in Workers : worker[v].claimed /\ worker[w].claimed => v = w

\* A completed search was read from one snapshot, though its pages were read
\* one by one: the worker that holds the ticket scanned exactly the notes and
\* revisions that matched at one moment, the verification, none twice or not
\* at all, whatever was edited, published or switched in between.
CompletedIsOneSnapshot ==
  ticket.state = "completed" => worker[ticket.holder].scanned = seen

\* The answer the owner is shown is that snapshot, and each of its notes was
\* read again at the very revision that had been searched.
ShownIsVerified == web.pc = "used" => web.got = seen

\* A ticket that is completed or failed never changes again: no late worker,
\* failure after success or second delivery revives it (ADR-0013: "terminal
\* irreversibility").
TerminalStep == ticket.state \in {"completed", "failed"} => ticket' = ticket

\* Every search that was begun is answered, with the semantic result or
\* without it, although the worker may die and no lease is ever swept.
AskedIsAnswered == web.pc = "asked" ~> web.pc \in {"used", "fallback"}
=============================================================================
