-------------------------------- MODULE Server --------------------------------
(***************************************************************************)
(* The services behind the two clients: the encrypted write of a note, the *)
(* search ticket, the maintenance of the index and the retention of        *)
(* deleted notes.  They share no state here, so one behaviour runs one of  *)
(* them: the note write rests as it began, the variables of the others are *)
(* off.  What holds of each of these behaviours holds of the four side by  *)
(* side.                                                                   *)
(***************************************************************************)
EXTENDS NoteWrite

CONSTANTS
  Hits, Workers, NoWorker, MaxRevision, MaxSwitches,   \* SearchTicket: its notes are Hits
  Owners, Notes, Passes, Poison, Capacity, PageLimit, MaxPages,
  SeedLimit, MaxSeedPages, MaxWrites,                  \* RagMaintenance
  Trashable, Captures, Runs, Orphan, Ways, Batch, Window,
  MaxChanges,                                          \* NoteRetention: its notes are Trashable
  Off                                                  \* of a variable whose part does not run

VARIABLES
  part,  \* which of them runs
  found, index, ticket, worker, web, seen,
  owner, checkpoint, pass, used,
  trash, due, purged, rev, capture, lease, run, writes

ticketVars == <<found, index, ticket, worker, web, seen>>
indexVars == <<owner, checkpoint, pass, used>>
trashVars == <<trash, due, purged, rev, capture, lease, run, writes>>
serverVars == <<part, vars, ticketVars, indexVars, trashVars>>

Ticket == INSTANCE SearchTicket WITH note <- found, Notes <- Hits

Maintenance == INSTANCE RagMaintenance WITH spent <- used

Retention == INSTANCE NoteRetention WITH
  claim <- lease, spent <- writes, Notes <- Trashable, MaxWrites <- MaxChanges

ASSUME ServerAssumption ==
  Ticket!TicketAssumption /\ Maintenance!MaintenanceAssumption /\ Retention!RetentionAssumption

TicketOff ==
  /\ found = Off /\ index = Off /\ ticket = Off /\ worker = Off /\ web = Off /\ seen = Off
MaintenanceOff == owner = Off /\ checkpoint = Off /\ pass = Off /\ used = Off
RetentionOff ==
  /\ trash = Off /\ due = Off /\ purged = Off /\ rev = Off
  /\ capture = Off /\ lease = Off /\ run = Off /\ writes = Off

ServerInit ==
  /\ Init
  /\ \/ part = "write" /\ TicketOff /\ MaintenanceOff /\ RetentionOff
     \/ part = "ticket" /\ Ticket!Init /\ MaintenanceOff /\ RetentionOff
     \/ part = "index" /\ TicketOff /\ Maintenance!Init /\ RetentionOff
     \/ part = "trash" /\ TicketOff /\ MaintenanceOff /\ Retention!Init

ServerNext ==
  \/ part = "write" /\ Next /\ UNCHANGED <<part, ticketVars, indexVars, trashVars>>
  \/ part = "ticket" /\ Ticket!Next /\ UNCHANGED <<part, vars, indexVars, trashVars>>
  \/ part = "index" /\ Maintenance!Next /\ UNCHANGED <<part, vars, ticketVars, trashVars>>
  \/ part = "trash" /\ Retention!Next /\ UNCHANGED <<part, vars, ticketVars, indexVars>>

ServerSpec == ServerInit /\ [][ServerNext]_serverVars

-----------------------------------------------------------------------------

\* Every variable has the values its component gives it.
EveryTypeOK ==
  /\ TypeOK
  /\ part = "ticket" => Ticket!TypeOK
  /\ part = "index" => Maintenance!TypeOK
  /\ part = "trash" => Retention!TypeOK

\* A search is one search of one snapshot.  However often the invocation is
\* delivered, one worker redeems the ticket (ADR-0013: "only one request can
\* win"); though the pages are read one by one, that worker scanned exactly the
\* notes and revisions that matched at the verification; each note the owner is
\* shown was read again at the very revision that had been searched; and no
\* late worker, failure after success or second delivery revives a ticket that
\* is completed or failed (ADR-0013: "terminal irreversibility").
OneSearchOneSnapshot ==
  /\ [](part = "ticket" =>
          Ticket!OneRedeemer /\ Ticket!CompletedIsOneSnapshot /\ Ticket!ShownIsVerified)
  /\ [][part = "ticket" => Ticket!TerminalStep]_serverVars

\* What a pass decided on an older page, when it is carried out.  A build that
\* is thrown away has too many notes, is for another model, is blocked, has a
\* row under a revoked key, or is the very index the verifier refused; of one
\* whose owner had no key on the page only this is left, that it has no row
\* that could be opened (a key added since moves no token).  What is activated
\* is the whole index of its owner as it is now, for the deployed model,
\* whichever pass verified it.
JudgedAsItIs ==
  [][part = "index" => Maintenance!FailedStep /\ Maintenance!ActivatedStep]_serverVars

\* A purge takes one note, as it was deleted, and nothing else.  The note is in
\* the trash with the 30 days of that very deletion over: restoring it, and
\* deleting it again, takes a claim of it away.  Its own undo goes and no
\* other, and no receipt, nor what can be undone from it, names it afterwards.
PurgeTakesOneNote ==
  /\ [](part = "trash" => Retention!NoDanglingReceipt)
  /\ [][part = "trash" => Retention!PurgedStep /\ Retention!UndoStep]_serverVars
=============================================================================
