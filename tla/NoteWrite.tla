----------------------------- MODULE NoteWrite -----------------------------
(***************************************************************************)
(* The encrypted write of a note. A server claims the client's idempotency  *)
(* key, with a MAC of the request and the revision it names, reads the      *)
(* note, seals the new state and its answer, and applies them: three calls  *)
(* to the database, between which the note is written by others, its        *)
(* privacy changes, keys are rotated, and the client, tired of waiting,     *)
(* sends the request to another server. Retention purges the note at last.  *)
(*                                                                         *)
(* Abstracted: one note; text is what a revision is; a MAC is the request   *)
(* it is of and its key; the two classes of keys are rotated together; an   *)
(* error is definitive ("refused") or worth a retry ("again").             *)
(***************************************************************************)
EXTENDS Integers, Sequences

CONSTANTS
  Requests, Keys,
  KeyOf,        \* Requests -> Keys
  Want,         \* Requests -> Wants
  Servers,      \* invocations that may run at a time
  None, Unasked, Other,
  MaxElsewhere, \* bound: writes by others
  MaxRotations, \* bound: rotations of the content keys
  MaxFaults     \* bound: servers that die, answers that are lost

Wants == {"create", "edit", "hide", "show", "trash", "undo"}
Classes == {"private_manual", "ai_assisted"}

ASSUME RequestAssumption ==
  KeyOf \in [Requests -> Keys] /\ Want \in [Requests -> Wants]
\* Two creations under two keys are two notes; this is one.
ASSUME OneNoteAssumption ==
  \A r, q \in Requests : Want[r] = "create" /\ Want[q] = "create" => KeyOf[r] = KeyOf[q]
\* encrypted_note_write_claims, and the answer stored under a key.
Claims == [req : Requests, expected : Nat, before : Classes, after : Classes,
           class : Classes, mac : Nat, done : BOOLEAN]
Stored == [req : Requests, rev : Nat, by : Servers]

ASSUME NameAssumption ==
  Unasked \notin Nat /\ Other \notin Keys /\ None \notin Claims \cup Stored
ASSUME BoundAssumption == {MaxElsewhere, MaxRotations, MaxFaults} \subseteq Nat

VARIABLES
  log,      \* the mutation that made each revision
  note,     \* "absent", "live", "trash" or "purged"
  expected, \* the revision a request names, once it is asked
  claim,    \* encrypted_note_write_claims
  receipt,  \* api_idempotency_records
  server,   \* executeEncryptedNoteWrite
  outcome,  \* what the client of a request knows: "waiting", "done", "refused" or "left"
  answers,  \* the answers it got
  key,      \* versions of the active MAC and wrap keys; earlier ones are retired
  spent     \* of the bounds

vars == <<log, note, expected, claim, receipt, server, outcome, answers, key, spent>>

Rev == Len(log)
ClassAt(n) == IF n = 0 THEN "private_manual" ELSE log[n].after
Idle == [pc |-> "idle"]

Init ==
  /\ \/ log = << >> /\ note = "absent"
     \/ log = <<[by |-> Other, built |-> 0, was |-> "absent", before |-> "ai_assisted",
                 after |-> "ai_assisted", class |-> "ai_assisted"]>> /\ note = "live"
  /\ expected = [r \in Requests |-> Unasked]
  /\ claim = [k \in Keys |-> None] /\ receipt = [k \in Keys |-> None]
  /\ server = [s \in Servers |-> Idle]
  /\ outcome = [r \in Requests |-> "waiting"] /\ answers = [r \in Requests |-> {}]
  /\ key = [mac |-> 1, wrap |-> 1] /\ spent = [elsewhere |-> 0, faults |-> 0]

(***************************************************************************)
(* Clients.                                                                *)
(***************************************************************************)
Ask(r) ==
  /\ expected[r] = Unasked
  /\ IF Want[r] = "create" THEN note = "absent" ELSE note \in {"live", "trash"}
  /\ \E e \in (IF Want[r] = "create" THEN {0} ELSE 1 .. Rev) :
       expected' = [expected EXCEPT ![r] = e]
  /\ UNCHANGED <<log, note, claim, receipt, server, outcome, answers, key, spent>>

\* The first time, or again: nothing was heard, or "again".
Send(s, r) ==
  /\ expected[r] # Unasked /\ outcome[r] = "waiting" /\ server[s].pc = "idle"
  /\ server' = [server EXCEPT ![s] = [pc |-> "look", req |-> r, try |-> 1, read |-> None]]
  /\ UNCHANGED <<log, note, expected, claim, receipt, outcome, answers, key, spent>>

Leave(r) ==
  /\ expected[r] # Unasked /\ outcome[r] = "waiting"
  /\ outcome' = [outcome EXCEPT ![r] = "left"]
  /\ UNCHANGED <<log, note, expected, claim, receipt, server, answers, key, spent>>

(***************************************************************************)
(* Servers. To(s, w) is server s going on as w.                            *)
(***************************************************************************)
To(s, w) == server' = [server EXCEPT ![s] = w]
Say(s, word) == To(s, [pc |-> "reply", req |-> server[s].req, word |-> word, stored |-> None])
Open(s, stored) == To(s, [pc |-> "reply", req |-> server[s].req, word |-> "done", stored |-> stored])
Keeps == UNCHANGED <<log, note, expected, outcome, answers, key, spent>>

SameScope(r, q) == (Want[r] = "create") = (Want[q] = "create")

\* getWriteClaim, and the MAC of the request by the very key of a claim found.
Look(s) ==
  LET w == server[s]
      r == w.req
      c == claim[KeyOf[r]]
  IN  /\ w.pc = "look"
      /\ IF c = None
         THEN To(s, [w EXCEPT !.pc = "read"])
         ELSE IF SameScope(c.req, r) /\ c.expected = expected[r]
         THEN To(s, [pc |-> "prepare", req |-> r, try |-> 2, read |-> w.read, mac |-> c.mac])
         ELSE Say(s, "refused")
      /\ UNCHANGED <<claim, receipt>> /\ Keeps

\* What the note would become; an undo restores what the mutation it undoes
\* found, and the undo of the creation moves the note to the trash.
ClassAfter(r) ==
  CASE Want[r] = "hide" -> "private_manual"
    [] Want[r] \in {"show", "create"} -> "ai_assisted"
    [] Want[r] = "undo" /\ expected[r] > 1 -> ClassAt(expected[r] - 1)
    [] OTHER -> ClassAt(Rev)
\* (mutant) the undo of the creation restores what was before it
NoteAfterAlways(r) ==
  CASE Want[r] = "create" -> "live"
    [] Want[r] = "trash" -> "trash"
    [] Want[r] = "undo" -> log[expected[r]].was
    [] OTHER -> note
NoteAfter(r) ==
  CASE Want[r] = "create" -> "live"
    [] Want[r] = "trash" \/ (Want[r] = "undo" /\ expected[r] = 1) -> "trash"
    [] Want[r] = "undo" /\ expected[r] # 1 -> log[expected[r]].was
    [] OTHER -> note

Reading(r) == [rev |-> Rev, before |-> ClassAt(Rev), after |-> ClassAfter(r), then |-> NoteAfter(r)]
Missing(r) == Want[r] # "create" /\ note \in {"absent", "purged"}

\* resolveNewTransition, and the MAC by the active key.
Read(s) ==
  LET w == server[s]
      r == w.req
  IN  /\ w.pc = "read"
      /\ IF Missing(r) THEN Say(s, "refused")
         ELSE To(s, [pc |-> "prepare", req |-> r, try |-> w.try, mac |-> key.mac,
                     read |-> IF w.read = None THEN Reading(r) ELSE w.read])
      /\ UNCHANGED <<claim, receipt>> /\ Keeps

\* (mutant) the class of what the note becomes
HistoryClassOfTarget(before, after) == after
HistoryClass(before, after) ==
  IF "private_manual" \in {before, after} THEN "private_manual" ELSE "ai_assisted"

SameRequest(s, c) == c.req = server[s].req /\ c.mac = server[s].mac

\* A claim found under the key.
Resume(s) ==
  LET w == server[s]
      c == claim[KeyOf[w.req]]
  IN  /\ w.pc = "prepare" /\ c # None
      /\ IF SameRequest(s, c)
         THEN IF c.done THEN Open(s, receipt[KeyOf[w.req]])
              ELSE To(s, [pc |-> "build", req |-> w.req, read |-> w.read])
         ELSE IF w.try = 1
         THEN To(s, [pc |-> "look", req |-> w.req, try |-> 2, read |-> w.read])
         ELSE Say(s, "refused")
      /\ UNCHANGED <<claim, receipt>> /\ Keeps

\* prepare_encrypted_note_write of a key nobody has claimed.
Prepare(s) ==
  LET w == server[s]
      r == w.req
      source == IF Want[r] = "create" THEN w.read.after ELSE ClassAt(Rev)
  IN  /\ w.pc = "prepare" /\ claim[KeyOf[r]] = None
      /\ IF Missing(r) \/ Rev # expected[r] \/ w.mac # key.mac
         THEN Say(s, "refused") /\ UNCHANGED claim
         ELSE /\ To(s, [pc |-> "build", req |-> r, read |-> w.read])
              /\ claim' = [claim EXCEPT ![KeyOf[r]] =
                   [req |-> r, expected |-> expected[r], before |-> source, mac |-> w.mac,
                    after |-> w.read.after, class |-> HistoryClass(source, w.read.after),
                    done |-> FALSE]]
      /\ UNCHANGED receipt /\ Keeps

\* buildMaterial on the note as it was read, here if not before; validation,
\* reservations and sealing.
Build(s) ==
  LET w == server[s]
      r == w.req
      c == claim[KeyOf[r]]
      read == IF w.read = None THEN Reading(r) ELSE w.read
  IN  /\ w.pc = "build"
      /\ IF (w.read = None /\ Missing(r)) \/ read.rev # c.expected
            \/ (Want[r] # "create" /\ read.before # c.before) \/ read.after # c.after
         THEN Say(s, "refused")
         ELSE To(s, [pc |-> "apply", req |-> r, read |-> read, sealed |-> key])
      /\ UNCHANGED <<claim, receipt>> /\ Keeps

\* (mutant) only the privacy is compared
StalePrivacy(s) ==
  LET r == server[s].req
  IN  Want[r] # "create" /\ (Missing(r) \/ ClassAt(Rev) # claim[KeyOf[r]].before)

\* create_encrypted_note, apply_encrypted_note_mutation: done before, by
\* another server; too late; with a key that was rotated; or now.
Stale(s) ==
  LET r == server[s].req
      c == claim[KeyOf[r]]
  IN  Want[r] # "create" /\ (Missing(r) \/ Rev # c.expected \/ ClassAt(Rev) # c.before)

Replay(s) ==
  /\ server[s].pc = "apply" /\ claim[KeyOf[server[s].req]].done
  /\ Open(s, receipt[KeyOf[server[s].req]])
  /\ UNCHANGED <<claim, receipt>> /\ Keeps

Refuse(s) ==
  /\ server[s].pc = "apply" /\ ~claim[KeyOf[server[s].req]].done
  /\ Stale(s) \/ server[s].sealed # key
  /\ Say(s, IF Stale(s) \/ server[s].sealed.mac # key.mac THEN "refused" ELSE "again")
  /\ UNCHANGED <<claim, receipt>> /\ Keeps

Apply(s) ==
  LET w == server[s]
      k == KeyOf[w.req]
      c == claim[k]
  IN  /\ w.pc = "apply" /\ ~c.done /\ ~Stale(s) /\ w.sealed = key
      /\ log' = Append(log, [by |-> k, built |-> w.read.rev, was |-> note,
                             before |-> c.before, after |-> c.after, class |-> c.class])
      /\ note' = w.read.then
      /\ claim' = [claim EXCEPT ![k].done = TRUE]
      /\ receipt' = [receipt EXCEPT ![k] = [req |-> w.req, rev |-> Rev + 1, by |-> s]]
      /\ Open(s, receipt'[k])
      /\ UNCHANGED <<expected, outcome, answers, key, spent>>

Reply(s) ==
  LET w == server[s]
      to == outcome[w.req]
  IN  /\ w.pc = "reply"
      /\ To(s, Idle)
      /\ answers' = IF w.word # "done" \/ to = "left" THEN answers
                    ELSE [answers EXCEPT ![w.req] = @ \cup {w.stored}]
      /\ outcome' = IF w.word = "again" \/ to # "waiting" THEN outcome
                    ELSE [outcome EXCEPT ![w.req] = w.word]
      /\ UNCHANGED <<log, note, expected, claim, receipt, key, spent>>

\* A server dies, or its answer is lost.
Lose(s) ==
  /\ server[s].pc # "idle" /\ spent.faults < MaxFaults
  /\ To(s, Idle)
  /\ spent' = [spent EXCEPT !.faults = @ + 1]
  /\ UNCHANGED <<log, note, expected, claim, receipt, outcome, answers, key>>

(***************************************************************************)
(* Others.                                                                 *)
(***************************************************************************)
Elsewhere ==
  /\ note \in {"live", "trash"} /\ spent.elsewhere < MaxElsewhere
  /\ log' = Append(log, [by |-> Other, built |-> Rev, was |-> note, before |-> ClassAt(Rev),
                         after |-> ClassAt(Rev), class |-> ClassAt(Rev)])
  /\ spent' = [spent EXCEPT !.elsewhere = @ + 1]
  /\ UNCHANGED <<note, expected, claim, receipt, server, outcome, answers, key>>

Rotate ==
  /\ key.mac + key.wrap < MaxRotations + 2
  /\ \E k \in {"mac", "wrap"} : key' = [key EXCEPT ![k] = @ + 1]
  /\ UNCHANGED <<log, note, expected, claim, receipt, server, outcome, answers, spent>>

\* commit_encrypted_note_retention, 30 days later: no client still waits.
Purge ==
  /\ note = "trash"
  /\ \A r \in Requests : expected[r] # Unasked => outcome[r] # "waiting"
  /\ \A s \in Servers : server[s].pc = "idle"
  /\ \A k \in Keys : claim[k] # None => claim[k].done
  /\ note' = "purged"
  /\ UNCHANGED <<log, expected, claim, receipt, server, outcome, answers, key, spent>>

Step(s) ==
  \/ Look(s) \/ Read(s) \/ Resume(s) \/ Prepare(s) \/ Build(s)
  \/ Replay(s) \/ Refuse(s) \/ Apply(s) \/ Reply(s)

Next ==
  \/ \E r \in Requests : Ask(r) \/ Leave(r) \/ \E s \in Servers : Send(s, r)
  \/ \E s \in Servers : Step(s) \/ Lose(s)
  \/ Elsewhere \/ Rotate \/ Purge

Spec == Init /\ [][Next]_vars

(***************************************************************************)
(* Properties.                                                             *)
(***************************************************************************)
TypeOK ==
  /\ \A n \in 1 .. Rev : log[n].by \in Keys \cup {Other} /\ {log[n].before, log[n].after, log[n].class} \subseteq Classes
  /\ note \in {"absent", "live", "trash", "purged"} /\ (note = "absent") = (Rev = 0)
  /\ expected \in [Requests -> Nat \cup {Unasked}]
  /\ claim \in [Keys -> Claims \cup {None}]
  /\ receipt \in [Keys -> Stored \cup {None}]
  /\ \A s \in Servers :
       server[s].pc \in {"idle", "look", "read", "prepare", "build", "apply", "reply"}
  /\ outcome \in [Requests -> {"waiting", "done", "refused", "left"}]
  /\ answers \in [Requests -> SUBSET Stored]

\* However often and wherever a request is sent, it happens once, on top of
\* the revision it names, and every answer to it is that once's; a request
\* under another's key is never answered with the other's result.
Promise == INSTANCE WriteOnce WITH rev <- Rev, applied <- receipt
Once == Promise!Spec

\* A mutation was made from the note as it was at the revision below it, and
\* is sealed as private if either side of it is.
BuiltOnItsBase ==
  \A n \in 1 .. Rev :
    /\ log[n].built = n - 1
    /\ n > 1 => log[n].before = log[n - 1].after
    /\ "private_manual" \in {log[n].before, log[n].after} => log[n].class = "private_manual"

\* A client that asks until it hears is answered in the end.
Settled == \A r \in Requests : expected[r] # Unasked ~> outcome[r] # "waiting"
=============================================================================
