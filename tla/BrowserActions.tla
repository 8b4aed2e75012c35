--------------------------- MODULE BrowserActions ---------------------------
(***************************************************************************)
(* What the owner asks of one capture from the browser: organize it again, *)
(* delete it, undo a change it made.  Each request is first an encrypted   *)
(* intent in IndexedDB with the key it will be sent under; views of every  *)
(* tab replay pending intents every four seconds beside the tap that made  *)
(* them, so several runs may carry one intent at a time.                   *)
(*                                                                         *)
(* A run is one such promise.  It can be dropped at any await (its tab is  *)
(* closed); a request it sent is served anyway, or never; its reply may be *)
(* lost.  Saving an intent reads the stored one, encrypts, then puts.      *)
(* Abstracted: contents, the clock, the order of a replayed batch.  The    *)
(* session stays valid.                                                    *)
(***************************************************************************)
EXTENDS Integers

CONSTANTS
  Runs,
  Mortal,        \* the runs whose tab may close
  Receipts,      \* mutations the capture's receipt offers to undo
  Removals,      \* mutations its deletion makes when it removes inserted content
  Wanted,        \* bound: what the owner asks for
  MaxAttempts,   \* MAX_AUTOMATIC_CAPTURE_ATTEMPTS
  MaxKey         \* bound: idempotency keys drawn

BrowserActionsAssumption ==
  /\ Mortal \subseteq Runs /\ Receipts \cap Removals = {}
  /\ {"retry", "delete"} \cap (Receipts \cup Removals) = {}
  /\ Wanted \subseteq Receipts \cup Removals \cup {"retry", "delete"}
  /\ MaxAttempts \in Nat \ {0} /\ MaxKey \in Nat

Undos == Receipts \cup Removals
Ids == Undos \cup {"retry", "delete"}

VARIABLES
  local,      \* the intents of IndexedDB, by action id
  tombstone,  \* the capture_tombstone record
  run,        \* the runs in flight
  keys,       \* idempotency keys drawn so far
  net,        \* requests sent
  done,       \* keys under which the server did each thing
  stale       \* keys whose request expects a revision the notes no longer have

vars == <<local, tombstone, run, keys, net, done, stale>>

Intent(s, k) == [state |-> s, key |-> k, attempts |-> 0, parked |-> FALSE]
NoIntent == Intent("none", 0)
Idle == [pc |-> "idle"]

Init ==
  /\ local = [i \in Ids |-> NoIntent]
  /\ tombstone = FALSE
  /\ run = [r \in Runs |-> Idle]
  /\ keys = 0 /\ net = {}
  /\ done = [i \in Ids |-> {}]
  /\ stale = [i \in Ids |-> {}]

Goto(r, next) == run' = [run EXCEPT ![r] = next]
Server == <<net, done, stale>>

-----------------------------------------------------------------------------
(* The owner taps.                                                         *)

\* A deleted capture offers neither; a consumed undo is not offered again.
Offered(i) ==
  CASE i \in Removals -> local[i].state \in {"available", "pending"}
    [] i \in Receipts -> local[i].state # "consumed" /\ ~tombstone
    [] OTHER          -> ~tombstone /\ local["delete"].state = "none"

\* ensure...Action: the intent that is there, or a new one with a key of its own.
Tap(r, i) ==
  /\ run[r] = Idle /\ i \in Wanted /\ Offered(i)
  /\ \/ /\ local[i].state # "none"
        /\ Goto(r, [pc |-> "get", id |-> i, act |-> local[i], ask |-> TRUE])
        /\ UNCHANGED keys
     \/ /\ local[i].state = "none" /\ keys < MaxKey
        /\ keys' = keys + 1
        /\ Goto(r, [pc |-> "add", id |-> i, act |-> Intent("pending", keys + 1), ask |-> TRUE])
  /\ UNCHANGED <<local, tombstone, Server>>

\* addAction: IndexedDB adds a record only where there is none; the winner is used.
Add(r) ==
  LET s == run[r] IN
  /\ s.pc = "add"
  /\ local' = IF local[s.id].state = "none" THEN [local EXCEPT ![s.id] = s.act] ELSE local
  /\ Goto(r, [s EXCEPT !.pc = "get", !.act = local'[s.id]])
  /\ UNCHANGED <<tombstone, keys, Server>>

\* resumeAction: pending again, due now; a consumed undo is left alone and not run.
Resumed(a) == [a EXCEPT !.state = "pending", !.attempts = 0, !.parked = FALSE]

-----------------------------------------------------------------------------
(* saveAction, for a resumed intent (then it is asked) and for an outcome. *)

SaveGet(r) ==
  LET s == run[r] IN
  /\ s.pc = "get"
  /\ Goto(r, IF local[s.id].state = "none" \/ (s.ask /\ s.act.state = "consumed") THEN Idle
             ELSE [s EXCEPT !.pc = "put", !.act = IF s.ask THEN Resumed(@) ELSE @])
  /\ UNCHANGED <<local, tombstone, keys, Server>>

SavePut(r) ==
  LET s == run[r] IN
  /\ s.pc = "put"
  /\ local' = [local EXCEPT ![s.id] = s.act]
  /\ Goto(r, IF s.ask THEN [pc |-> "ask", id |-> s.id, act |-> s.act] ELSE Idle)
  /\ UNCHANGED <<tombstone, keys, Server>>

-----------------------------------------------------------------------------
(* runCaptureAction                                                        *)

Ready(i) == local[i].state = "pending" /\ ~local[i].parked

\* replayPendingCaptureActions: from the list as it was read.
Replay(r, i) ==
  /\ run[r] = Idle /\ Ready(i)
  /\ Goto(r, [pc |-> "ask", id |-> i, act |-> local[i]])
  /\ UNCHANGED <<local, tombstone, keys, Server>>

Ask(r) ==
  LET s == run[r] IN
  /\ s.pc = "ask"
  /\ net' = net \cup {<<s.id, s.act.key>>}
  /\ Goto(r, [s EXCEPT !.pc = "asked"])
  /\ UNCHANGED <<local, tombstone, keys, done, stale>>

\* The server: what is done under a key is replayed under it; a deletion and an undo are done once.
Executable(i, k) == k \notin stale[i] /\ (i # "retry" => done[i] = {})

Serve(i, k) ==
  /\ <<i, k>> \in net /\ k \notin done[i] /\ Executable(i, k)
  /\ i = "retry" => done["delete"] = {}
  /\ done' = [done EXCEPT ![i] = @ \cup {k}]
  /\ UNCHANGED <<local, tombstone, run, keys, net, stale>>

\* The notes are edited: what was asked for their earlier revision is refused from now on.
Edit(i) ==
  /\ i # "retry" /\ done[i] = {}
  /\ stale' = [stale EXCEPT ![i] = 1..keys]
  /\ stale' # stale
  /\ UNCHANGED <<local, tombstone, run, keys, net, done>>

\* isRetryableCaptureFailure: no answer and "busy" are; a refusal is not.  A capture may not be
\* retried as often as asked; one deleted under another key is a 404.
Refusable(i, k) ==
  /\ k \notin done[i]
  /\ CASE i = "retry"  -> TRUE
       [] i = "delete" -> done[i] = {} /\ k \in stale[i]
       [] OTHER        -> ~Executable(i, k)

Reply(i, k) ==
  {"lost", "busy"}
    \cup {a \in {"ok"} : k \in done[i]}
    \cup {a \in {"missing"} : i = "delete" /\ done[i] # {} /\ k \notin done[i]}
    \cup {a \in {"refused"} : Refusable(i, k)}

\* deferOrReject: the failure plan over the intent as this run knew it.
Deferred(a, offline) ==
  [a EXCEPT !.attempts = IF @ < MaxAttempts THEN @ + 1 ELSE @,
            !.parked = ~offline /\ a.attempts + 1 >= MaxAttempts]

Heard(r, pc, act) == Goto(r, [pc |-> pc, id |-> run[r].id, act |-> act, ask |-> FALSE])

Hear(r) ==
  LET s == run[r] IN
  /\ s.pc = "asked"
  /\ \E reply \in Reply(s.id, s.act.key) :
       \/ reply = "ok" /\ s.id \in Undos /\ Heard(r, "get", [s.act EXCEPT !.state = "consumed"])
       \/ reply = "ok" /\ s.id = "delete" /\ Heard(r, "erase", s.act)
       \/ reply = "ok" /\ s.id = "retry" /\ Heard(r, "drop", s.act)
       \/ reply = "missing" /\ Heard(r, "erased", s.act)
       \/ reply = "refused" /\ Heard(r, "drop", s.act)
       \/ reply \in {"lost", "busy"} /\ Heard(r, "get", Deferred(s.act, reply = "lost"))
  /\ UNCHANGED <<local, tombstone, keys, Server>>

\* removeAction
Drop(r) ==
  LET s == run[r] IN
  /\ s.pc = "drop"
  /\ local' = [local EXCEPT ![s.id] = NoIntent]
  /\ Goto(r, Idle)
  /\ UNCHANGED <<tombstone, keys, Server>>

\* (mutant) the intent goes first, the tombstone is left to a later write
CompleteInTwo(r) ==
  LET s == run[r] IN
  /\ s.pc \in {"erase", "erased"} /\ keys < MaxKey
  /\ keys' = keys + 1
  /\ tombstone' = (local["delete"].state = "none")
  /\ local' = [local EXCEPT !["delete"] = NoIntent]
  /\ Goto(r, IF tombstone' THEN Idle ELSE s)
  /\ UNCHANGED Server

\* completeCaptureDeletion: one transaction drops the intent, leaves the tombstone and, when the
\* answer tells of removed content, puts an undo of each with a new key.
CompleteDeletion(r) ==
  LET s == run[r] IN
  /\ s.pc \in {"erase", "erased"}
  /\ tombstone' = TRUE
  /\ \/ /\ s.pc = "erase" /\ Removals # {} /\ keys < MaxKey
        /\ keys' = keys + 1
        /\ local' = [i \in Ids |-> IF i = "delete" THEN NoIntent
                                   ELSE IF i \in Removals THEN Intent("available", keys + 1)
                                   ELSE local[i]]
     \/ /\ s.pc = "erased" \/ Removals = {}
        /\ local' = [local EXCEPT !["delete"] = NoIntent]
        /\ UNCHANGED keys
  /\ Goto(r, Idle)
  /\ UNCHANGED Server

\* The run's tab is closed.
Close(r) ==
  /\ r \in Mortal /\ run[r] # Idle
  /\ Goto(r, Idle)
  /\ UNCHANGED <<local, tombstone, keys, Server>>

-----------------------------------------------------------------------------
Step(r) == Add(r) \/ SaveGet(r) \/ SavePut(r) \/ Ask(r) \/ Hear(r) \/ Drop(r) \/ CompleteDeletion(r)

Next ==
  \/ \E r \in Runs : Step(r) \/ Close(r) \/ \E i \in Ids : Tap(r, i) \/ Replay(r, i)
  \/ \E i \in Ids : Edit(i) \/ \E k \in 1..MaxKey : Serve(i, k)

Spec == Init /\ [][Next]_vars

\* The run hears an answer, rather than that there is none: what a view that
\* asks again and again comes to in the end.
HearAnswer(r) ==
  /\ Hear(r)
  /\ run'[r].pc \in {"erase", "erased", "drop"} \/ run'[r].act.state = "consumed"

-----------------------------------------------------------------------------
TypeOK ==
  /\ local \in [Ids -> [state : {"none", "available", "pending", "consumed"},
                        key : 0..MaxKey, attempts : 0..MaxAttempts, parked : BOOLEAN]]
  /\ tombstone \in BOOLEAN /\ keys \in 0..MaxKey /\ net \subseteq Ids \X (1..MaxKey)
  /\ \A r \in Runs :
       /\ run[r].pc \in {"idle", "add", "get", "put", "ask", "asked", "drop", "erase", "erased"}
       /\ run[r] # Idle => run[r].id \in Ids
  /\ done \in [Ids -> SUBSET (1..MaxKey)] /\ stale \in [Ids -> SUBSET (1..MaxKey)]

\* A change the server has made is asked for again only under the key it was made under, so the
\* answer is the one it gave and not a second request, however the runs of an intent overlap.
ReaskedUnderItsKey ==
  \A i \in Receipts :
    (done[i] # {} /\ stale[i] = {} /\ local[i].state = "pending") => local[i].key \in done[i]

\* A deletion the server has made is never forgotten here: the intent is still there to be
\* replayed or the tombstone hides the capture, with no state between the two.
DeletionRemembered ==
  (done["delete"] # {} /\ stale["delete"] = {}) => tombstone \/ local["delete"].state = "pending"

\* An intent that can be replayed is answered for good or waits for the owner.
IntentSettles == \A i \in Ids : Ready(i) ~> ~Ready(i)
=============================================================================
