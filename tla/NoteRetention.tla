--------------------------- MODULE NoteRetention ---------------------------
(***************************************************************************)
(* Hard deletion of the notes that have been in the trash for 30 days.  A   *)
(* daily run claims the oldest of them with a digest of everything related, *)
(* reads and reseals the receipts that name them, and commits each claim.   *)
(* Owners and the organizer change notes and captures meanwhile, runs may   *)
(* overlap or die, and a claim may outlive its lease.                       *)
(*                                                                         *)
(* Abstracted: a digest is the value it is of; explicit destination, link   *)
(* and decision are one relation, "ties"; a decision's destination is its   *)
(* receipt's; ciphertext, reservations, events and index rows are left out. *)
(***************************************************************************)
EXTENDS SequencesExt, Ranks

CONSTANTS
  Notes, Captures,
  Runs,        \* runs that may overlap; one that is over stands for the next
  None, Orphan,
  Ways,        \* what happens to captures here: "review", "move", "undo", "delete"
  Batch,       \* MAX_ENCRYPTED_BATCH_SIZE
  Window,      \* candidates a claim looks at, at most
  MaxWrites,   \* bound: writes of owners
  MaxFaults    \* bound: runs lost or slow, replies and cancellations lost

RetentionAssumption ==
  /\ {None, Orphan} \cap (Notes \cup Runs) = {} /\ None # Orphan
  /\ Ways \subseteq {"review", "move", "undo", "delete"}
  /\ {Batch, Window} \subseteq Nat \ {0} /\ {MaxWrites, MaxFaults} \subseteq Nat

VARIABLES
  trash,    \* notes with deleted_at, in its order
  due,      \* how many of them, the oldest, were deleted 30 days ago
  purged,   \* notes that are gone
  rev,      \* current_revision
  capture,  \* captures with their job, receipt, links and reviews
  claim,    \* the prepared claim of a note: its run, and whether its lease is over
  run,      \* runNoteRetentionBatch
  spent     \* of the two bounds

vars == <<trash, due, purged, rev, capture, claim, run, spent>>

Live == Notes \ (purged \cup ToSet(trash))
Expired == {trash[i] : i \in 1 .. due}
\* The trash without n, which may not be there.
Without(n) ==
  IF \E i \in DOMAIN trash : trash[i] = n
  THEN RemoveAt(trash, CHOOSE i \in DOMAIN trash : trash[i] = n)
  ELSE trash

\* removed: of the notes to undo, the one the capture was moved away from.
Fresh(ties) ==
  [job |-> "active", gone |-> FALSE, out |-> "none", dest |-> None, targets |-> {},
   removed |-> {}, ties |-> ties, asked |-> {}, rrev |-> 0]

TypeOK ==
  /\ trash \in Seq(Notes) /\ due \in 0 .. Len(trash) /\ purged \subseteq Notes
  /\ rev \in [Notes -> Nat]
  /\ \A c \in Captures :
       /\ capture[c].out \in {"none", "review", "inbox", "routed"}
       /\ capture[c].dest \in Notes \cup {None} /\ capture[c].rrev \in Nat
       /\ capture[c].removed \subseteq capture[c].targets
       /\ capture[c].targets \subseteq capture[c].ties /\ capture[c].ties \subseteq Notes
       /\ capture[c].asked \subseteq Notes
  /\ claim \in [Notes -> {None} \cup [by : Runs \cup {Orphan}, over : BOOLEAN]]
  /\ \A r \in Runs : run[r].pc \in {"idle", "claimed", "prepared"}
       /\ (run[r].pc = "idle") = (run[r].queue = << >>)

\* private.note_retention_capture_ids
Related(n) == {c \in Captures : n \in capture[c].ties \cup capture[c].asked}
\* private.encrypted_note_retention_snapshot
Snapshot(n) ==
  [note |-> n, rev |-> rev[n], capture |-> [c \in Related(n) |-> capture[c]]]
Receipts(s) == {c \in DOMAIN s.capture : s.capture[c].out # "none"}

Init ==
  /\ trash = << >> /\ due = 0 /\ purged = {}
  /\ rev = [n \in Notes |-> 1]
  /\ \E directed \in [Captures -> {{}} \cup {{n} : n \in Notes}] :
       capture = [c \in Captures |-> Fresh(directed[c])]
  /\ claim = [n \in Notes |-> None]
  /\ run = [r \in Runs |-> [pc |-> "idle", queue |-> << >>, plan |-> << >>]]
  /\ spent = [writes |-> 0, faults |-> 0]

----------------------------------------------------------------------------
(* Owners and the organizer.                                                *)

Write(ns) ==
  /\ spent.writes < MaxWrites
  /\ spent' = [spent EXCEPT !.writes = @ + 1]
  /\ rev' = [n \in Notes |-> IF n \in ns THEN rev[n] + 1 ELSE rev[n]]

Delete(n) ==
  /\ n \in Live
  /\ trash' = Append(trash, n)
  /\ Write({n})
  /\ UNCHANGED <<due, purged, capture, claim, run>>

Restore(n) ==
  /\ n \in ToSet(trash)
  /\ trash' = Without(n)
  /\ due' = IF n \in Expired THEN due - 1 ELSE due
  /\ Write({n})
  /\ UNCHANGED <<purged, capture, claim, run>>

Edit(n) ==
  /\ n \in Live
  /\ Write({n})
  /\ UNCHANGED <<trash, due, purged, capture, claim, run>>

Age ==
  /\ due < Len(trash)
  /\ due' = due + 1
  /\ UNCHANGED <<trash, purged, rev, capture, claim, run, spent>>

Routed(x, d, targets, removed) ==
  [x EXCEPT !.job = "done", !.out = "routed", !.dest = d, !.targets = targets,
            !.removed = removed, !.ties = @ \cup targets, !.rrev = @ + 1]
Unrouted(x, out) ==
  [x EXCEPT !.job = "done", !.out = out, !.dest = None, !.targets = {},
            !.removed = {}, !.rrev = @ + 1]

\* commit_encrypted_organizer_write: to a note, or to a review that may name one.
\* A directed capture goes to its note only.
Organize(c) ==
  /\ capture[c].job = "active"
  /\ \/ \E d \in Live :
          /\ capture[c].ties \subseteq {d}
          /\ capture' = [capture EXCEPT ![c] = Routed(@, d, {d}, {})]
          /\ rev' = [rev EXCEPT ![d] = @ + 1]
     \/ \E asked \in {{}} \cup {{n} : n \in {m \in Live : "review" \in Ways}} :
          /\ capture' = [capture EXCEPT ![c] = [Unrouted(@, "review") EXCEPT !.asked = asked]]
          /\ UNCHANGED rev
  /\ UNCHANGED <<trash, due, purged, claim, run, spent>>

\* undo_encrypted_mutation_batch: a move is undone by restoring its source.
Undo(c) ==
  LET x == capture[c] IN
  /\ "undo" \in Ways /\ x.out = "routed" /\ x.targets # {} /\ x.targets \subseteq Live
  /\ Write(x.targets)
  /\ capture' = [capture EXCEPT ![c] =
       IF x.removed = {} THEN Unrouted(x, "inbox")
       ELSE Routed(x, CHOOSE n \in x.removed : TRUE, {}, {})]
  /\ UNCHANGED <<trash, due, purged, claim, run>>

\* commit_encrypted_decision_correction
Move(c, m) ==
  LET x == capture[c] IN
  /\ "move" \in Ways /\ x.out = "routed" /\ x.dest \in Live /\ m \in Live \ {x.dest}
  /\ Write({x.dest, m})
  /\ capture' = [capture EXCEPT ![c] = Routed(x, m, {x.dest, m}, {x.dest})]
  /\ UNCHANGED <<trash, due, purged, claim, run>>

\* commit_encrypted_review_resolution
Resolve(c) ==
  /\ "review" \in Ways /\ capture[c].out = "review"
  /\ \/ \E d \in Live :
          /\ Write({d})
          /\ capture' = [capture EXCEPT ![c] = Routed(@, d, {d}, {})]
     \/ /\ Write({})
        /\ capture' = [capture EXCEPT ![c] = Unrouted(@, "inbox")]
  /\ UNCHANGED <<trash, due, purged, claim, run>>

\* delete_encrypted_capture, with or without the undo of its notes.
DeleteCapture(c) ==
  LET x == capture[c] IN
  /\ "delete" \in Ways /\ ~x.gone
  /\ \E undone \in {{}, x.targets} : undone \subseteq Live /\ Write(undone)
  /\ capture' = [capture EXCEPT ![c] =
       [Unrouted(x, "none") EXCEPT !.gone = TRUE, !.asked = {}]]
  /\ UNCHANGED <<trash, due, purged, claim, run>>

----------------------------------------------------------------------------
(* A run.                                                                   *)

\* What a claim passes over: a workflow under way, content that is gone.
Claimable(n) == \A c \in Related(n) : capture[c].job = "done" /\ ~capture[c].gone

\* claim_encrypted_note_retention; claims whose lease is over are cancelled first.
Claim(r) ==
  LET kept == {n \in Notes : claim[n] # None /\ ~claim[n].over}
      free == {i \in 1 .. due : trash[i] \notin kept}
      seen == {i \in Lowest(Window, free) : Claimable(trash[i])}
      taken == InOrder(Lowest(Batch, seen))
  IN /\ run[r].pc = "idle"
     /\ claim' = [n \in Notes |->
          IF \E i \in DOMAIN taken : trash[taken[i]] = n THEN [by |-> r, over |-> FALSE]
          ELSE IF n \in kept THEN claim[n] ELSE None]
     /\ run' = [run EXCEPT ![r] =
          [pc |-> IF taken = << >> THEN "idle" ELSE "claimed",
           queue |-> [i \in DOMAIN taken |-> Snapshot(trash[taken[i]])], plan |-> << >>]]
     /\ UNCHANGED <<trash, due, purged, rev, capture, spent>>

\* reconcileReceipt: what becomes of a receipt when n goes.
Plan(x, n) ==
  LET rest == x.targets \ {n}
      p == IF x.dest \in rest THEN x.dest ELSE CHOOSE m \in rest : TRUE
  IN IF x.out # "routed" THEN [mode |-> "inbox"]
     ELSE IF n \notin x.targets
       THEN [mode |-> IF x.dest = n THEN "refuse" ELSE "preserve"]
     ELSE IF rest = {} THEN [mode |-> "inbox"]
     ELSE [mode |-> "routed", primary |-> p, at |-> rev[p]]

\* processClaim's failure: its claim and the others of the run are cancelled, as
\* far as the calls come through, and the run is over.
Fail(r, mine) ==
  \E kept \in SUBSET mine :
    /\ kept # {} => spent.faults < MaxFaults
    /\ claim' = [n \in Notes |-> IF n \notin mine THEN claim[n]
                                 ELSE IF n \in kept THEN [claim[n] EXCEPT !.by = Orphan] ELSE None]
    /\ run' = [run EXCEPT ![r] = [pc |-> "idle", queue |-> << >>, plan |-> << >>]]
    /\ spent' = [spent EXCEPT !.faults = IF kept = {} THEN @ ELSE @ + 1]

Mine(r) == {n \in Notes : claim[n] # None /\ claim[n].by = r}

\* prepareReceipt, for every receipt of the claim
Prepare(r) ==
  LET s == Head(run[r].queue)
      plan == [c \in Receipts(s) |-> Plan(s.capture[c], s.note)]
      Readable(c) == capture[c].rrev = s.capture[c].rrev /\ ~capture[c].gone
      Known(q) == q.mode # "refuse" /\ (q.mode = "routed" => q.primary \notin purged)
  IN /\ run[r].pc = "claimed"
     /\ IF \A c \in Receipts(s) : Readable(c) /\ Known(plan[c])
        THEN /\ run' = [run EXCEPT ![r].pc = "prepared", ![r].plan = plan]
             /\ UNCHANGED <<claim, spent>>
        ELSE Fail(r, Mine(r))
     /\ UNCHANGED <<trash, due, purged, rev, capture>>

\* (mutant) the captures are compared, the note is not
UnchangedCaptures(s) == Snapshot(s.note).capture = s.capture
\* Nothing the claim was made from has changed.
Unchanged(s) == s.note \in Expired /\ Snapshot(s.note) = s

\* Whether the relations of capture c bear the plan for its receipt.
Borne(c, q, n) ==
  /\ (q.mode = "preserve") = (n \notin capture[c].ties)
  /\ q.mode = "routed" =>
       /\ q.primary \in capture[c].ties \ (capture[c].removed \cup purged)
       /\ rev[q.primary] = q.at

\* The capture and its receipt once n is gone.
Rewritten(x, q, n) ==
  LET y == CASE q.mode = "inbox" -> Unrouted(x, "inbox")
             [] q.mode = "routed" -> Routed(x, q.primary, x.targets \ {n}, x.removed \ {n})
             [] OTHER -> [x EXCEPT !.rrev = @ + 1]
  IN [y EXCEPT !.ties = @ \ {n}, !.asked = @ \ {n}]

\* commit_encrypted_note_retention
Commit(r) ==
  LET s == Head(run[r].queue)
      n == s.note
      plan == run[r].plan
      rest == Tail(run[r].queue)
  IN /\ run[r].pc = "prepared"
     /\ IF /\ claim[n] # None /\ claim[n].by = r /\ ~claim[n].over
           /\ Unchanged(s) /\ Claimable(n)
           /\ \A c \in Receipts(s) : Borne(c, plan[c], n)
        THEN /\ trash' = Without(n)
             /\ due' = due - 1
             /\ purged' = purged \cup {n}
             /\ capture' = [c \in Captures |->
                  IF c \in Receipts(s) THEN Rewritten(capture[c], plan[c], n)
                  ELSE [capture[c] EXCEPT !.ties = @ \ {n}, !.asked = @ \ {n}]]
             /\ \/ /\ claim' = [claim EXCEPT ![n] = None]
                   /\ run' = [run EXCEPT ![r] =
                        [pc |-> IF rest = << >> THEN "idle" ELSE "claimed",
                         queue |-> rest, plan |-> << >>]]
                   /\ UNCHANGED spent
                \/ /\ spent.faults < MaxFaults   \* the reply is lost
                   /\ claim' = [m \in Notes |-> IF m \in Mine(r) THEN None ELSE claim[m]]
                   /\ run' = [run EXCEPT ![r] = [pc |-> "idle", queue |-> << >>, plan |-> << >>]]
                   /\ spent' = [spent EXCEPT !.faults = @ + 1]
        ELSE Fail(r, Mine(r)) /\ UNCHANGED <<trash, due, purged, capture>>
     /\ UNCHANGED rev

Crash(r) ==
  /\ run[r].pc # "idle" /\ spent.faults < MaxFaults
  /\ claim' = [n \in Notes |->
       IF n \in Mine(r) THEN [claim[n] EXCEPT !.by = Orphan] ELSE claim[n]]
  /\ run' = [run EXCEPT ![r] = [pc |-> "idle", queue |-> << >>, plan |-> << >>]]
  /\ spent' = [spent EXCEPT !.faults = @ + 1]
  /\ UNCHANGED <<trash, due, purged, rev, capture>>

\* The lease of a run that is gone, and of one too slow: its claims go together.
LapseLeft(n) ==
  /\ claim[n] = [by |-> Orphan, over |-> FALSE]
  /\ claim' = [claim EXCEPT ![n].over = TRUE]
  /\ UNCHANGED <<trash, due, purged, rev, capture, run, spent>>

LapseSlow(r) ==
  /\ \E n \in Mine(r) : ~claim[n].over
  /\ spent.faults < MaxFaults
  /\ claim' = [n \in Notes |->
       IF n \in Mine(r) THEN [claim[n] EXCEPT !.over = TRUE] ELSE claim[n]]
  /\ spent' = [spent EXCEPT !.faults = @ + 1]
  /\ UNCHANGED <<trash, due, purged, rev, capture, run>>

----------------------------------------------------------------------------

RunStep(r) == Claim(r) \/ Prepare(r) \/ Commit(r)
OwnerStep ==
  \/ \E n \in Notes : Delete(n) \/ Restore(n) \/ Edit(n)
  \/ \E c \in Captures :
       Undo(c) \/ Resolve(c) \/ DeleteCapture(c) \/ \E m \in Notes : Move(c, m)

Next ==
  \/ OwnerStep
  \/ Age
  \/ \E c \in Captures : Organize(c)
  \/ \E r \in Runs : RunStep(r) \/ Crash(r) \/ LapseSlow(r)
  \/ \E n \in Notes : LapseLeft(n)

Spec == Init /\ [][Next]_vars

----------------------------------------------------------------------------

\* A note is only purged while it is in the trash with the 30 days of that very
\* deletion over: restoring it, and deleting it again, takes a claim of it away.
PurgedStep == purged' \ purged \subseteq Expired

\* No receipt, nor what can be undone from it, names a note that is gone.
NoDanglingReceipt ==
  \A c \in Captures :
    ({capture[c].dest} \cup capture[c].targets \cup capture[c].asked) \cap purged = {}

\* The purge of one note takes away that note's undo and no other: what the
\* owner did with the capture while the claim was out is not written over.
UndoStep ==
  \A c \in Captures, n \in purged' \ purged :
    capture'[c].targets = capture[c].targets \ {n}

\* A note left in the trash is purged in the end.
ExpiredNotePurged == \A n \in Notes : n \in Expired ~> n \notin Expired
=============================================================================
