---------------------------- MODULE MCServerLive ----------------------------
(***************************************************************************)
(* What the services bring about in the end, for TLC: the organizer's      *)
(* worker, the queue of the index, its maintenance, the search ticket, the *)
(* retention of deleted notes and the note write, each under the fairness  *)
(* its surroundings give.  They share no state here, so one behaviour runs *)
(* one of them and the others rest as they began.                          *)
(***************************************************************************)
EXTENDS Integers, FiniteSets, TLC

CONSTANTS
  j1, n1, n2, note1, w1, g1, key1, key2, t1, s1, s2, c1, hide,
  None, Orphan, NoWorker, Unasked, Other

VARIABLES
  part,  \* which of them runs
  job, capture, control, page, prep, reservation, note, linked, published, worker,
  indexed, key, gen, row, work, proof, verifier, target,
  owner, checkpoint, pass, used,
  found, index, ticket, query, web, seen,
  trash, due, purged, rev, filed, lease, run, writes,
  log, state, expected, claim, receipt, server, outcome, answers, version, spent

organizerVars ==
  <<job, capture, control, page, prep, reservation, note, linked, published, worker>>
indexVars == <<indexed, key, gen, row, work, proof, verifier, target>>
maintenanceVars == <<owner, checkpoint, pass, used>>
ticketVars == <<found, index, ticket, query, web, seen>>
trashVars == <<trash, due, purged, rev, filed, lease, run, writes>>
writeVars == <<log, state, expected, claim, receipt, server, outcome, answers, version, spent>>
vars == <<part, organizerVars, indexVars, maintenanceVars, ticketVars, trashVars, writeVars>>

\* One capture and one worker, two attempts.
Organizer == INSTANCE OrganizerDrain WITH
  Jobs <- {j1}, Workers <- {w1}, Notes <- {n1, note1}, StableNote <- [j \in {j1} |-> note1],
  ReservationIds <- {j1} \X (1 .. 2) \X (0 .. 1), NoNote <- None, NoReservation <- Other,
  MaxAttempts <- 2, MaxRetries <- 0, MaxRevision <- 2, MaxGenerations <- 1,
  OwnerStatuses <- {"open", "trashed"}, ControlKinds <- {"none"}

\* One note, one generation, a rotation of the key.
Index == INSTANCE RagIndex WITH
  note <- indexed, job <- work,
  Notes <- {1}, Gens <- {g1}, Keys <- {key1, key2}, Targets <- {t1},
  NoGen <- None, NoKey <- None, NoTarget <- None,
  MaxAttempts <- 2, MaxRevision <- 2, MaxRevoked <- 0

\* Two owners, a page for each; the notes of the first can never be indexed, and
\* this owner is there to be served all along.
Maintenance == INSTANCE RagMaintenance WITH
  spent <- used, Owners <- 1 .. 2, Poison <- {1}, Notes <- {n1}, Passes <- {s1},
  Capacity <- 1, PageLimit <- 1, MaxPages <- 1, SeedLimit <- 1, MaxSeedPages <- 1,
  MaxWrites <- 1, MaxFaults <- 1

\* One delivery, which may be lost in any way.
Ticket == INSTANCE SearchTicket WITH
  note <- found, worker <- query, Notes <- {1}, Workers <- {w1}, MaxRevision <- 2, MaxSwitches <- 1

\* Captures are only routed and undone; runs overlap, die and lose calls.
Retention == INSTANCE NoteRetention WITH
  capture <- filed, claim <- lease, spent <- writes,
  Notes <- {n1, n2}, Captures <- {c1}, Runs <- {s1, s2}, Ways <- {"undo"},
  Batch <- 1, Window <- 2, MaxWrites <- 3, MaxFaults <- 1

\* One request, two servers, a writer elsewhere, rotations and losses.
Write == INSTANCE NoteWrite WITH
  note <- state, key <- version,
  Requests <- {hide}, Keys <- {key1}, KeyOf <- [r \in {hide} |-> key1],
  Want <- [r \in {hide} |-> "hide"], Servers <- {s1, s2},
  MaxElsewhere <- 1, MaxRotations <- 1, MaxFaults <- 1

ASSUME ServerAssumption ==
  Maintenance!MaintenanceAssumption /\ Ticket!TicketAssumption /\ Retention!RetentionAssumption

Init ==
  /\ part \in {"organizer", "index", "maintenance", "ticket", "retention", "write"}
  /\ Organizer!DrainInit /\ Index!Init /\ Maintenance!Init
  /\ Ticket!Init /\ Retention!Init /\ Write!Init
  /\ part # "index" => key[key1] = "active"
  /\ part # "maintenance" => \A o \in 1 .. 2 : owner[o].note[n1] = "out"
  /\ part = "maintenance" => owner[1].note[n1] # "out"
  /\ part # "ticket" => found[1].kind = "plain"
  /\ part # "retention" => filed[c1].ties = {}
  /\ part # "write" => log = << >>

OthersRest ==
  /\ part' = part
  /\ part # "organizer" => UNCHANGED organizerVars
  /\ part # "index" => UNCHANGED indexVars
  /\ part # "maintenance" => UNCHANGED maintenanceVars
  /\ part # "ticket" => UNCHANGED ticketVars
  /\ part # "retention" => UNCHANGED trashVars
  /\ part # "write" => UNCHANGED writeVars

Next ==
  /\ \/ part = "organizer" /\ Organizer!DrainNext
     \/ part = "index" /\ Index!Next
     \/ /\ part = "maintenance" /\ Maintenance!Next
        /\ owner'[1].ready /\ owner'[1].note[n1] # "out"
     \/ part = "ticket" /\ Ticket!Next
     \/ part = "retention" /\ Retention!Next
     \/ part = "write" /\ Write!Next
  /\ OthersRest

\* The scheduler keeps triggering drains and recoveries, leases run out, and a
\* worker that lives takes its next step; nothing makes the owner act.
OrganizerFairness ==
  /\ WF_organizerVars(part = "organizer" /\ Organizer!Step(w1))
  /\ WF_organizerVars(part = "organizer" /\ Organizer!Begin(w1, j1))
  /\ WF_organizerVars(part = "organizer" /\ Organizer!ExpireLease(j1))
  /\ WF_organizerVars(part = "organizer" /\ Organizer!RecoverStale(j1))

\* The index worker's schedule drains the queue and recovers it; leases run out.
IndexFairness ==
  \A w \in Index!Work :
    /\ WF_indexVars(part = "index" /\ (Index!ClaimTerminal(w) \/ Index!ClaimLease(w)))
    /\ WF_indexVars(part = "index" /\ Index!Expire(w))
    /\ WF_indexVars(part = "index" /\ Index!Recover(w))

\* The schedule of the maintenance keeps calling, a call ends, and the index
\* worker's own schedule drains what is queued.
MaintenanceFairness ==
  /\ WF_maintenanceVars(part = "maintenance" /\ Maintenance!Step(s1))
  /\ \A o \in 1 .. 2 :
       WF_maintenanceVars(/\ part = "maintenance"
                          /\ Maintenance!Index(o, n1) \/ Maintenance!FailJob(o, n1))

\* The request's own timer fires; reads of the owner's notes come back.
TicketFairness ==
  /\ WF_ticketVars(part = "ticket" /\ Ticket!GiveUp)
  /\ WF_ticketVars(part = "ticket" /\ Ticket!Answering)

\* Retention runs every day and its calls end, leases run out, and what waits
\* for the organizer is organized.
RetentionFairness ==
  /\ \A r \in {s1, s2} : WF_trashVars(part = "retention" /\ Retention!RunStep(r))
  /\ \A n \in {n1, n2} : WF_trashVars(part = "retention" /\ Retention!LapseLeft(n))
  /\ WF_trashVars(part = "retention" /\ Retention!Organize(c1))

\* A request is finished by its server unless that is lost; a client that does
\* not leave sends again.
WriteFairness ==
  /\ \A s \in {s1, s2} : WF_writeVars(part = "write" /\ Write!Step(s))
  /\ WF_writeVars(part = "write" /\ \E s \in {s1, s2} : Write!Send(s, hide))

Fairness ==
  /\ OrganizerFairness /\ IndexFairness /\ MaintenanceFairness
  /\ TicketFairness /\ RetentionFairness /\ WriteFairness

LiveSpec == Init /\ [][Next]_vars /\ Fairness

-----------------------------------------------------------------------------

\* What is queued ends.  Every capture that entered the organizer's queue is
\* published, failed where the owner can see it, or withdrawn; queued work of
\* the index is indexed, superseded or failed, whatever workers do; and a note
\* left in the trash is purged.
WorkEnds == Organizer!EveryCaptureSettles /\ Index!WorkSettles /\ Retention!ExpiredNotePurged

\* Every owner whose index can be built gets one for the deployed model, in
\* spite of another owner whose notes can never be indexed and of calls, pages
\* and passes that fail; and a build that cannot be used does not stay.
EveryOwnerServed == part = "maintenance" => Maintenance!EveryOwnerServed

\* Who asks is answered: every search that was begun, with the semantic result
\* or without it, although the worker may die and no lease is ever swept; and
\* every note write of a client that asks until it hears.
AskedIsAnswered == Ticket!AskedIsAnswered /\ Write!Settled
=============================================================================
