---------------------------- MODULE BrowserOutbox ----------------------------
(***************************************************************************)
(* The web client's capture outbox.  Every open tab of a profile works on  *)
(* the same IndexedDB records with no lock between tabs: a tab recovers    *)
(* interrupted sends when it mounts, then flushes due records one after    *)
(* the other, lists what it and the server hold and clears what arrived.   *)
(* One IndexedDB transaction is one step; an update is a read and, later,  *)
(* a put of the record that was read.                                      *)
(*                                                                         *)
(* A tab may be closed at any await; a request it sent is served anyway,   *)
(* or never; its reply may be lost.  Abstracted: contents and their        *)
(* encryption, the clock (a record falls due at any time) and the order    *)
(* by creation within a batch.  One profile stays signed in.               *)
(***************************************************************************)
EXTENDS Integers, FiniteSets

CONSTANTS
  Tabs, Captures,
  MaxAttempts,   \* MAX_AUTOMATIC_CAPTURE_ATTEMPTS
  MaxBatch       \* MAX_CAPTURE_FLUSH_BATCH

BrowserOutboxAssumption == MaxAttempts \in Nat \ {0} /\ MaxBatch \in Nat \ {0}

VARIABLES
  outbox,     \* the profile's outbox records
  tombstone,  \* captures whose deletion this browser has completed
  saved,      \* captures the owner was told are saved
  tab,        \* per tab: closed, recovering or open, with what it last listed
  flush,      \* per tab: the one flush in flight
  retry,      \* per tab: records read for a manual retry, not yet put back
  net,        \* create requests sent
  server      \* captures of the server

vars == <<outbox, tombstone, saved, tab, flush, retry, net, server>>

States == {"none", "waiting", "sending", "retrying", "permanent", "synced"}
Item(s, n) == [state |-> s, attempts |-> n]
NoItem == Item("none", 0)
Items == [state : States, attempts : 0..MaxAttempts]
Held(c) == outbox[c].state # "none"

Closed == [is |-> "closed", interrupted |-> {}, local |-> [c \in Captures |-> "other"], remote |-> {}]
Idle == [pc |-> "idle"]

Init ==
  /\ outbox = [c \in Captures |-> NoItem]
  /\ tombstone = {} /\ saved = {}
  /\ tab = [t \in Tabs |-> Closed]
  /\ flush = [t \in Tabs |-> Idle]
  /\ retry = [t \in Tabs |-> {}]
  /\ net = {}
  /\ server = [c \in Captures |-> "none"]

-----------------------------------------------------------------------------
(* A tab mounts, lists, is closed.                                         *)

\* recoverInterrupted lists what is "sending", whichever tab is sending it.
Interrupted == {<<c, outbox[c].attempts>> : c \in {d \in Captures : outbox[d].state = "sending"}}

\* initialize
Mount(t) ==
  /\ tab[t].is = "closed"
  /\ tab' = [tab EXCEPT ![t] = [Closed EXCEPT !.is = "recovering", !.interrupted = Interrupted]]
  /\ UNCHANGED <<outbox, tombstone, saved, flush, retry, net, server>>

\* Each record is put back as it was read, due now.
Recover(t) ==
  \E r \in tab[t].interrupted :
    /\ outbox' = [outbox EXCEPT ![r[1]] = Item("waiting", r[2])]
    /\ tab' = [tab EXCEPT ![t].interrupted = @ \ {r}]
    /\ UNCHANGED <<tombstone, saved, flush, retry, net, server>>

\* Hydrated: from here the tab polls.
Opened(t) ==
  /\ tab[t].is = "recovering" /\ tab[t].interrupted = {}
  /\ tab' = [tab EXCEPT ![t].is = "open"]
  /\ UNCHANGED <<outbox, tombstone, saved, flush, retry, net, server>>

\* The tab is closed or crashes; what it sent is on its way.
Close(t) ==
  /\ tab[t].is # "closed"
  /\ tab' = [tab EXCEPT ![t] = Closed]
  /\ flush' = [flush EXCEPT ![t] = Idle]
  /\ retry' = [retry EXCEPT ![t] = {}]
  /\ UNCHANGED <<outbox, tombstone, saved, net, server>>

\* loadLocal, as far as what the tab does next depends on it
Listed(c) == IF outbox[c].state \in {"synced", "permanent"} THEN outbox[c].state ELSE "other"

ListLocal(t) ==
  /\ tab[t].is = "open"
  /\ tab' = [tab EXCEPT ![t].local = [c \in Captures |-> Listed(c)]]
  /\ UNCHANGED <<outbox, tombstone, saved, flush, retry, net, server>>

\* loadRemote: the most recent captures; a page may not hold them all.
ListRemote(t) ==
  /\ tab[t].is = "open"
  /\ \E page \in SUBSET {c \in Captures : server[c] = "live"} :
       tab' = [tab EXCEPT ![t].remote = page]
  /\ UNCHANGED <<outbox, tombstone, saved, flush, retry, net, server>>

\* (mutant) what failed for good is cleared with what arrived
CleanSettled(t, c) ==
  /\ tab[t].local[c] \in {"synced", "permanent"}
  /\ outbox' = [outbox EXCEPT ![c] = NoItem]
  /\ UNCHANGED <<tombstone, saved, tab, flush, retry, net, server>>

\* The cleanup effect: listed as synced here and as present there.
Clean(t, c) ==
  /\ tab[t].local[c] = "synced" /\ c \in tab[t].remote
  /\ outbox' = [outbox EXCEPT ![c] = NoItem]
  /\ UNCHANGED <<tombstone, saved, tab, flush, retry, net, server>>

-----------------------------------------------------------------------------
(* The owner: a new capture, a retry by hand, a deletion.                  *)

\* submit, enqueueCapture: the owner hears "Saved" after the put.
Submit(t, c) ==
  /\ tab[t].is = "open" /\ c \notin saved
  /\ outbox' = [outbox EXCEPT ![c] = Item("waiting", 0)]
  /\ saved' = saved \cup {c}
  /\ UNCHANGED <<tombstone, tab, flush, retry, net, server>>

\* retryLocal, offered on a row this tab lists as permanent.
RetryByHand(t, c) ==
  /\ tab[t].local[c] = "permanent" /\ c \notin tab[t].remote
  /\ Held(c)
  /\ retry' = [retry EXCEPT ![t] = @ \cup {c}]
  /\ UNCHANGED <<outbox, tombstone, saved, tab, flush, net, server>>

\* manualRetry
PutRetry(t, c) ==
  /\ c \in retry[t]
  /\ outbox' = [outbox EXCEPT ![c] = Item("waiting", 0)]
  /\ retry' = [retry EXCEPT ![t] = @ \ {c}]
  /\ UNCHANGED <<tombstone, saved, tab, flush, net, server>>

\* The server deletes a capture for this browser or for another device.
ServerDelete(c) ==
  /\ server[c] = "live"
  /\ server' = [server EXCEPT ![c] = "deleted"]
  /\ UNCHANGED <<outbox, tombstone, saved, tab, flush, retry, net>>

\* completeCaptureDeletion: answered, or already gone at the server (404).
CompleteDeletion(c) ==
  /\ server[c] = "deleted" /\ c \notin tombstone
  /\ outbox' = [outbox EXCEPT ![c] = NoItem]
  /\ tombstone' = tombstone \cup {c}
  /\ UNCHANGED <<saved, tab, flush, retry, net, server>>

-----------------------------------------------------------------------------
(* flushCaptureOutbox                                                      *)

Due(c) == outbox[c].state \in {"waiting", "retrying"}

\* listOutbox: the batch with the attempts each record had when listed.
StartFlush(t) ==
  /\ tab[t].is = "open" /\ flush[t] = Idle
  /\ \E batch \in SUBSET {c \in Captures : Due(c)} :
       /\ batch # {} /\ Cardinality(batch) <= MaxBatch
       /\ flush' = [flush EXCEPT ![t] =
            [pc |-> "next", ready |-> [c \in batch |-> outbox[c].attempts]]]
  /\ UNCHANGED <<outbox, tombstone, saved, tab, retry, net, server>>

\* The batch without its record c; the task ends with its last record.
Without(f, c) ==
  IF DOMAIN f.ready = {c} THEN Idle
  ELSE [pc |-> "next", ready |-> [d \in DOMAIN f.ready \ {c} |-> f.ready[d]]]

\* updateOutbox reads before it puts; a record that is gone ends the flush.
Take(t) ==
  /\ flush[t].pc = "next"
  /\ \E c \in DOMAIN flush[t].ready :
       flush' = [flush EXCEPT ![t] =
         IF Held(c) THEN [pc |-> "mark", ready |-> flush[t].ready, at |-> c] ELSE Idle]
  /\ UNCHANGED <<outbox, tombstone, saved, tab, retry, net, server>>

\* The record is put as "sending" and the request leaves.
Send(t) ==
  LET f == flush[t] IN
  /\ f.pc = "mark"
  /\ outbox' = [outbox EXCEPT ![f.at] = Item("sending", f.ready[f.at])]
  /\ net' = net \cup {f.at}
  /\ flush' = [flush EXCEPT ![t].pc = "asked"]
  /\ UNCHANGED <<tombstone, saved, tab, retry, server>>

\* createCapture finds the capture by its id or creates it.
Serve(c) ==
  /\ c \in net /\ server[c] = "none"
  /\ server' = [server EXCEPT ![c] = "live"]
  /\ UNCHANGED <<outbox, tombstone, saved, tab, flush, retry, net>>

\* A request is lost on its way.
Lose(c) ==
  /\ c \in net /\ net' = net \ {c}
  /\ UNCHANGED <<outbox, tombstone, saved, tab, flush, retry, server>>

\* What a tab can hear: success once the server has it; a deleted id, a lost session and other
\* definitive answers refuse it; no answer at all, or one that asks to wait.
Reply(c) ==
  {"lost", "busy", "refused"} \cup (IF server[c] = "live" THEN {"created"} ELSE {})

\* (mutant) attempts are counted past the limit
PlanCounting(n, offline) ==
  Item(IF offline \/ n + 1 < MaxAttempts THEN "retrying" ELSE "permanent", n + 1)

\* captureFailurePlan of a retryable failure after n attempts; counting stops at the limit.
Plan(n, offline) ==
  LET attempts == IF n < MaxAttempts THEN n + 1 ELSE n IN
  Item(IF offline \/ n + 1 < MaxAttempts THEN "retrying" ELSE "permanent", attempts)

Verdict(n, reply) ==
  CASE reply = "created" -> Item("synced", n)
    [] reply = "lost"    -> Plan(n, TRUE)
    [] reply = "busy"    -> Plan(n, FALSE)
    [] reply = "refused" -> [Plan(n, FALSE) EXCEPT !.state = "permanent"]

Hear(t) ==
  LET f == flush[t] IN
  /\ f.pc = "asked"
  /\ \E reply \in Reply(f.at) :
       flush' = [flush EXCEPT ![t] =
         [pc |-> "read", ready |-> f.ready, at |-> f.at, put |-> Verdict(f.ready[f.at], reply)]]
  /\ UNCHANGED <<outbox, tombstone, saved, tab, retry, net, server>>

\* The record to update is gone: a success is then handled as a failure without an answer,
\* and a failure ends the flush.
ReadBack(t) ==
  LET f == flush[t] IN
  /\ f.pc = "read"
  /\ flush' = [flush EXCEPT ![t] =
       IF Held(f.at) THEN [f EXCEPT !.pc = "put"]
       ELSE IF f.put.state = "synced" THEN [f EXCEPT !.put = Plan(f.ready[f.at], TRUE)]
       ELSE Idle]
  /\ UNCHANGED <<outbox, tombstone, saved, tab, retry, net, server>>

PutBack(t) ==
  LET f == flush[t] IN
  /\ f.pc = "put"
  /\ outbox' = [outbox EXCEPT ![f.at] = f.put]
  /\ flush' = [flush EXCEPT ![t] = Without(f, f.at)]
  /\ UNCHANGED <<tombstone, saved, tab, retry, net, server>>

-----------------------------------------------------------------------------
Flush(t) == StartFlush(t) \/ Take(t) \/ Send(t) \/ Hear(t) \/ ReadBack(t) \/ PutBack(t)

Next ==
  \/ \E t \in Tabs : Mount(t) \/ Recover(t) \/ Opened(t) \/ Close(t)
                      \/ ListLocal(t) \/ ListRemote(t) \/ Flush(t)
  \/ \E t \in Tabs, c \in Captures :
       Clean(t, c) \/ Submit(t, c) \/ RetryByHand(t, c) \/ PutRetry(t, c)
  \/ \E c \in Captures : ServerDelete(c) \/ CompleteDeletion(c) \/ Serve(c) \/ Lose(c)

Spec == Init /\ [][Next]_vars

-----------------------------------------------------------------------------
TypeOK ==
  /\ outbox \in [Captures -> Items]
  /\ tombstone \subseteq Captures /\ saved \subseteq Captures /\ net \subseteq Captures
  /\ \A t \in Tabs :
       /\ tab[t].is \in {"closed", "recovering", "open"}
       /\ tab[t].interrupted \subseteq Captures \X (0..MaxAttempts)
       /\ tab[t].local \in [Captures -> {"synced", "permanent", "other"}] /\ tab[t].remote \subseteq Captures
       /\ flush[t].pc \in {"idle", "next", "mark", "asked", "read", "put"}
       /\ flush[t] # Idle => DOMAIN flush[t].ready \in (SUBSET Captures) \ {{}}
       /\ retry[t] \subseteq Captures
  /\ server \in [Captures -> {"none", "live", "deleted"}]

\* What the owner was told is saved is in this browser until the server has it, whatever two tabs
\* overwrite, recover or clear under each other.
NothingLost == \A c \in saved : server[c] = "none" => Held(c)

\* No tab's answer marks a record synced that the server never took: the clean-up trusts it.
SyncedIsOnServer == \A c \in Captures : outbox[c].state = "synced" => server[c] # "none"

\* The server has seen the capture, or its row offers a retry by hand.
Settled(c) == server[c] # "none" \/ outbox[c].state = "permanent"
StaysMounted(t) == <>[](tab[t].is # "closed")

\* Once every tab of the profile has mounted for good, each saved capture reaches the server or
\* needs the owner, also one whose send a closed tab left unfinished.
SavedSettles ==
  (\A t \in Tabs : StaysMounted(t)) => \A c \in Captures : c \in saved ~> Settled(c)
=============================================================================
