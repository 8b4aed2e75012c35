--------------------------- MODULE Browser_proofs ---------------------------
(***************************************************************************)
(* The browser, proved: its capture outbox, its key, its intents, its      *)
(* search and its editor each have an inductive invariant over their own   *)
(* variables, and a step of the browser is a step of one of them.          *)
(***************************************************************************)
EXTENDS Browser, Cuts_proofs, SequenceTheorems

-----------------------------------------------------------------------------
(* The key.                                                                *)

KeyFlights == [pc : {"none", "get", "orphans", "add", "winner"}, key : 0 .. MaxGenerated]
KeyWrites == [pc : {"idle", "waits", "put", "done"}, key : 0 .. MaxGenerated]
KeyTypes ==
  /\ stored \in 0 .. MaxGenerated /\ generated \in 0 .. MaxGenerated
  /\ sealed \subseteq 1 .. MaxGenerated
  /\ pending \in [Sealers -> KeyFlights] /\ write \in [Sealers -> [Writes -> KeyWrites]]

\* What a tab is about to seal is sealed under the key that is kept.
PutsUnderStored ==
  \A t \in Sealers, w \in Writes :
    write[t][w].pc = "put" => write[t][w].key = stored /\ stored # 0
\* What a tab adds is a key; where it lost to another, there is one.
AddsAKey ==
  \A t \in Sealers :
    /\ pending[t].pc = "add" => pending[t].key # 0
    /\ pending[t].pc = "winner" => stored # 0

KeyInv == KeyTypes /\ Key!Openable /\ PutsUnderStored /\ AddsAKey

LEMMA KeyBegins ==
  ASSUME Key!Init PROVE KeyInv
<1>1. MaxGenerated \in Nat /\ 0 \in 0 .. MaxGenerated
  BY BrowserAssumption DEF Key!BrowserKeyAssumption
<1>2. Key!NoFlight \in KeyFlights /\ Key!Unwritten \in KeyWrites
  BY <1>1 DEF Key!NoFlight, KeyFlights, Key!Unwritten, KeyWrites
<1> QED BY <1>1, <1>2 DEF Key!Init, KeyInv, KeyTypes, Key!Openable, PutsUnderStored, AddsAKey,
           Key!NoFlight, Key!Unwritten

\* A tab's attempt ends with the key k, which is kept, or with none.
LEMMA ResolveKeeps ==
  ASSUME KeyInv, NEW t \in Sealers, NEW k \in 0 .. MaxGenerated, Key!Resolve(t, k),
         k = 0 \/ stored' = k, stored' = stored \/ (stored = 0 /\ stored' \in 0 .. MaxGenerated),
         UNCHANGED sealed, generated' \in 0 .. MaxGenerated
  PROVE  KeyInv'
<1> DEFINE w1(w) == IF write[t][w].pc # "waits" THEN write[t][w]
                    ELSE IF k = 0 THEN Key!Unwritten ELSE [pc |-> "put", key |-> k]
<1>0. 0 \in 0 .. MaxGenerated
  BY BrowserAssumption DEF Key!BrowserKeyAssumption
<1>1. Key!NoFlight \in KeyFlights /\ Key!NoFlight.pc = "none"
  BY <1>0 DEF Key!NoFlight, KeyFlights
<1>2. /\ pending' \in [Sealers -> KeyFlights] /\ pending'[t] = Key!NoFlight
      /\ \A u \in Sealers \ {t} : pending'[u] = pending[u]
  BY <1>1 DEF KeyInv, KeyTypes, Key!Resolve
<1>3. ASSUME NEW w \in Writes
      PROVE  /\ w1(w) \in KeyWrites
             /\ w1(w).pc = "put" => w1(w).key = stored' /\ stored' # 0
  <2>1. write[t][w] \in KeyWrites
    BY DEF KeyInv, KeyTypes
  <2>2. CASE write[t][w].pc # "waits"
    BY <2>1, <2>2 DEF KeyInv, PutsUnderStored
  <2>3. CASE write[t][w].pc = "waits" /\ k = 0
    BY <1>0, <2>3 DEF Key!Unwritten, KeyWrites
  <2>4. CASE write[t][w].pc = "waits" /\ k # 0
    BY <2>4 DEF KeyWrites
  <2> QED BY <2>2, <2>3, <2>4
<1>4. write' = [write EXCEPT ![t] = [w \in Writes |-> w1(w)]]
  BY DEF Key!Resolve
<1> HIDE DEF w1
<1>5. /\ write' \in [Sealers -> [Writes -> KeyWrites]]
      /\ \A w \in Writes : write'[t][w] = w1(w)
      /\ \A u \in Sealers \ {t} : write'[u] = write[u]
  BY <1>3, <1>4 DEF KeyInv, KeyTypes
<1>6. KeyTypes'
  BY <1>2, <1>5 DEF KeyInv, KeyTypes
<1>7. Key!Openable'
  BY DEF KeyInv, KeyTypes, Key!Openable
<1>8. PutsUnderStored'
  BY <1>3, <1>5 DEF KeyInv, PutsUnderStored
<1>9. AddsAKey'
  BY <1>1, <1>2 DEF KeyInv, AddsAKey
<1> QED BY <1>6, <1>7, <1>8, <1>9 DEF KeyInv

\* An attempt goes on, and the writes of the tab wait.
LEMMA AttemptKeeps ==
  ASSUME KeyInv, NEW t \in Sealers, NEW f \in KeyFlights, pending' = [pending EXCEPT ![t] = f],
         f.pc = "add" => f.key # 0, f.pc = "winner" => stored # 0,
         UNCHANGED <<stored, sealed, write>>, generated' \in 0 .. MaxGenerated
  PROVE  KeyInv'
<1>1. /\ pending' \in [Sealers -> KeyFlights] /\ pending'[t] = f
      /\ \A u \in Sealers \ {t} : pending'[u] = pending[u]
  BY DEF KeyInv, KeyTypes
<1> QED BY <1>1 DEF KeyInv, KeyTypes, Key!Openable, PutsUnderStored, AddsAKey

\* One write of a tab turns into another that does not put.
LEMMA WriteKeeps ==
  ASSUME KeyInv, NEW t \in Sealers, NEW w \in Writes, NEW d \in KeyWrites, d.pc # "put",
         write' = [write EXCEPT ![t][w] = d], UNCHANGED stored,
         sealed' \subseteq sealed \cup {write[t][w].key},
         sealed' # sealed => write[t][w].pc = "put",
         pending' \in [Sealers -> KeyFlights],
         \A u \in Sealers : pending'[u].pc \in {"add", "winner"} => pending'[u] = pending[u],
         generated' = generated
  PROVE  KeyInv'
<1>1. /\ write' \in [Sealers -> [Writes -> KeyWrites]] /\ write'[t][w] = d
      /\ \A u \in Sealers, v \in Writes : u # t \/ v # w => write'[u][v] = write[u][v]
  BY DEF KeyInv, KeyTypes
<1>2. sealed' \subseteq {stored} /\ sealed' \subseteq 1 .. MaxGenerated
  BY DEF KeyInv, KeyTypes, Key!Openable, PutsUnderStored
<1> QED BY <1>1, <1>2 DEF KeyInv, KeyTypes, Key!Openable, PutsUnderStored, AddsAKey

LEMMA BeginWriteKeeps ==
  ASSUME KeyInv, NEW t \in Sealers, NEW w \in Writes, Key!Begin(t, w) PROVE KeyInv'
<1> DEFINE d == [write[t][w] EXCEPT !.pc = "waits"]
           f == [pending[t] EXCEPT !.pc = "get"]
<1>1. d \in KeyWrites /\ d.pc = "waits" /\ write' = [write EXCEPT ![t][w] = d]
  BY DEF Key!Begin, KeyInv, KeyTypes, KeyWrites
<1>2. f \in KeyFlights /\ f.pc = "get"
  BY DEF KeyInv, KeyTypes, KeyFlights
<1>3. \/ pending' = pending \/ pending' = [pending EXCEPT ![t] = f]
  BY DEF Key!Begin, KeyInv, KeyTypes
<1> HIDE DEF d, f
<1>4. /\ pending' \in [Sealers -> KeyFlights]
      /\ \A u \in Sealers : pending'[u].pc \in {"add", "winner"} => pending'[u] = pending[u]
  BY <1>2, <1>3 DEF KeyInv, KeyTypes
<1> QED BY <1>1, <1>4, WriteKeeps DEF Key!Begin

LEMMA GetKeyKeeps ==
  ASSUME KeyInv, NEW t \in Sealers, Key!GetKey(t) PROVE KeyInv'
<1>1. stored \in 0 .. MaxGenerated /\ generated \in 0 .. MaxGenerated
  BY DEF KeyInv, KeyTypes
<1>2. CASE stored # 0 /\ Key!Resolve(t, stored)
  BY <1>1, <1>2, ResolveKeeps DEF Key!GetKey
<1>3. CASE stored = 0 /\ pending' = [pending EXCEPT ![t].pc = "orphans"] /\ UNCHANGED write
  <2> DEFINE f == [pending[t] EXCEPT !.pc = "orphans"]
  <2>1. f \in KeyFlights /\ f.pc = "orphans" /\ pending' = [pending EXCEPT ![t] = f]
    BY <1>3 DEF KeyInv, KeyTypes, KeyFlights
  <2> HIDE DEF f
  <2> QED BY <1>1, <1>3, <2>1, AttemptKeeps DEF Key!GetKey
<1> QED BY <1>2, <1>3 DEF Key!GetKey

LEMMA CheckOrphansKeeps ==
  ASSUME KeyInv, NEW t \in Sealers, Key!CheckOrphans(t) PROVE KeyInv'
<1>1. MaxGenerated \in Nat /\ 0 \in 0 .. MaxGenerated /\ generated \in 0 .. MaxGenerated
  BY BrowserAssumption DEF Key!BrowserKeyAssumption, KeyInv, KeyTypes
<1>2. CASE sealed # {} /\ Key!Resolve(t, 0) /\ UNCHANGED generated
  BY <1>1, <1>2, ResolveKeeps DEF Key!CheckOrphans
<1>3. CASE generated < MaxGenerated /\ generated' = generated + 1 /\ UNCHANGED write
           /\ pending' = [pending EXCEPT ![t] = [pc |-> "add", key |-> generated + 1]]
  <2> DEFINE f == [pc |-> "add", key |-> generated + 1]
  <2>1. f \in KeyFlights /\ f.pc = "add" /\ f.key # 0 /\ generated' \in 0 .. MaxGenerated
    BY <1>1, <1>3 DEF KeyFlights
  <2>2. pending' = [pending EXCEPT ![t] = f]
    BY <1>3
  <2> HIDE DEF f
  <2> QED BY <1>3, <2>1, <2>2, AttemptKeeps DEF Key!CheckOrphans
<1> QED BY <1>2, <1>3 DEF Key!CheckOrphans

LEMMA AddKeyKeeps ==
  ASSUME KeyInv, NEW t \in Sealers, Key!AddKey(t) PROVE KeyInv'
<1>1. /\ pending[t] \in KeyFlights /\ pending[t].key \in 0 .. MaxGenerated
      /\ generated' \in 0 .. MaxGenerated /\ UNCHANGED sealed
  BY DEF KeyInv, KeyTypes, KeyFlights, Key!AddKey
<1>2. CASE stored = 0 /\ stored' = pending[t].key /\ Key!Resolve(t, pending[t].key)
  BY <1>1, <1>2, ResolveKeeps
<1>3. CASE stored # 0 /\ pending' = [pending EXCEPT ![t].pc = "winner"] /\ UNCHANGED <<stored, write>>
  <2> DEFINE f == [pending[t] EXCEPT !.pc = "winner"]
  <2>1. f \in KeyFlights /\ f.pc = "winner" /\ pending' = [pending EXCEPT ![t] = f]
    BY <1>1, <1>3 DEF KeyInv, KeyTypes, KeyFlights
  <2> HIDE DEF f
  <2> QED BY <1>1, <1>3, <2>1, AttemptKeeps
<1> QED BY <1>2, <1>3 DEF Key!AddKey

LEMMA GetWinnerKeeps ==
  ASSUME KeyInv, NEW t \in Sealers, Key!GetWinner(t) PROVE KeyInv'
<1>1. stored \in 0 .. MaxGenerated /\ generated \in 0 .. MaxGenerated
  BY DEF KeyInv, KeyTypes
<1> QED BY <1>1, ResolveKeeps DEF Key!GetWinner

LEMMA PutKeeps ==
  ASSUME KeyInv, NEW t \in Sealers, NEW w \in Writes, Key!Put(t, w) PROVE KeyInv'
<1> DEFINE d == [pc |-> "done", key |-> 0]
<1>1. d \in KeyWrites /\ d.pc = "done"
  BY BrowserAssumption DEF Key!BrowserKeyAssumption, KeyWrites
<1>2. write' = [write EXCEPT ![t][w] = d]
  BY DEF Key!Put
<1> HIDE DEF d
<1> QED BY <1>1, <1>2, WriteKeeps DEF Key!Put, KeyInv, KeyTypes

LEMMA AgainKeeps ==
  ASSUME KeyInv, NEW t \in Sealers, NEW w \in Writes, Key!Again(t, w) PROVE KeyInv'
<1>1. Key!Unwritten \in KeyWrites /\ Key!Unwritten.pc = "idle"
  BY BrowserAssumption DEF Key!BrowserKeyAssumption, KeyWrites, Key!Unwritten
<1> QED BY <1>1, WriteKeeps DEF Key!Again, KeyInv, KeyTypes

LEMMA CloseSealerKeeps ==
  ASSUME KeyInv, NEW t \in Sealers, Key!Close(t) PROVE KeyInv'
<1>1. /\ Key!Unwritten \in KeyWrites /\ Key!Unwritten.pc = "idle"
      /\ Key!NoFlight \in KeyFlights /\ Key!NoFlight.pc = "none"
  BY BrowserAssumption
  DEF Key!BrowserKeyAssumption, KeyWrites, Key!Unwritten, KeyFlights, Key!NoFlight
<1>2. /\ pending' \in [Sealers -> KeyFlights] /\ pending'[t] = Key!NoFlight
      /\ \A u \in Sealers \ {t} : pending'[u] = pending[u]
  BY <1>1 DEF KeyInv, KeyTypes, Key!Close
<1>3. /\ write' \in [Sealers -> [Writes -> KeyWrites]]
      /\ \A w \in Writes : write'[t][w] = Key!Unwritten
      /\ \A u \in Sealers \ {t} : write'[u] = write[u]
  BY <1>1 DEF KeyInv, KeyTypes, Key!Close
<1> QED BY <1>1, <1>2, <1>3
        DEF Key!Close, KeyInv, KeyTypes, Key!Openable, PutsUnderStored, AddsAKey

LEMMA KeyStepKeeps ==
  ASSUME KeyInv, Key!Next PROVE KeyInv'
BY BeginWriteKeeps, GetKeyKeeps, CheckOrphansKeeps, AddKeyKeeps, GetWinnerKeeps, PutKeeps,
   AgainKeeps, CloseSealerKeeps
DEF Key!Next

LEMMA KeyStutterKeeps ==
  ASSUME KeyInv, UNCHANGED keyVars PROVE KeyInv'
BY DEF KeyInv, keyVars, KeyTypes, Key!Openable, PutsUnderStored, AddsAKey

LEMMA KeyInvSuffices ==
  ASSUME KeyInv PROVE Key!TypeOK /\ Key!Openable
BY DEF KeyInv, KeyTypes, KeyFlights, KeyWrites, Key!TypeOK, Key!Keys

-----------------------------------------------------------------------------
(* The capture outbox.                                                     *)

OutboxItems == [state : Outbox!States, attempts : 0 .. MaxAttempts]
Batches == UNION {[batch -> 0 .. MaxAttempts] : batch \in (SUBSET Captures) \ {{}}}
TabType == [is : {"closed", "recovering", "open"},
            interrupted : SUBSET (Captures \X (0 .. MaxAttempts)),
            local : [Captures -> {"synced", "permanent", "other"}],
            remote : SUBSET Captures]
Picked == [pc : {"next"}, ready : Batches]
Marked == [pc : {"mark", "asked"}, ready : Batches, at : Captures]
Answered == [pc : {"read", "put"}, ready : Batches, at : Captures, put : OutboxItems]
Flushing(f) ==
  \/ f = Outbox!Idle
  \/ f \in Picked
  \/ f \in Marked /\ f.at \in DOMAIN f.ready
  \/ f \in Answered /\ f.at \in DOMAIN f.ready /\ f.put.state # "none"
OutboxTypes ==
  /\ outbox \in [Captures -> OutboxItems]
  /\ tombstone \subseteq Captures /\ saved \subseteq Captures /\ net \subseteq Captures
  /\ tab \in [Tabs -> TabType]
  /\ DOMAIN flush = Tabs /\ \A t \in Tabs : Flushing(flush[t])
  /\ retry \in [Tabs -> SUBSET Captures]
  /\ server \in [Captures -> {"none", "live", "deleted"}]

\* What a tab has listed as synced or as the server's, or is about to mark
\* synced, the server has had.
ListedIsServed(t) ==
  \A c \in Captures : tab[t].local[c] = "synced" \/ c \in tab[t].remote => server[c] # "none"
MarksServed(t) ==
  flush[t].pc \in {"read", "put"} /\ flush[t].put.state = "synced" =>
    server[flush[t].at] # "none"

OutboxInv ==
  /\ OutboxTypes /\ Outbox!NothingLost /\ Outbox!SyncedIsOnServer
  /\ \A t \in Tabs : ListedIsServed(t) /\ MarksServed(t)

LEMMA OutboxBounds == MaxAttempts \in Nat \ {0} /\ 0 \in 0 .. MaxAttempts
BY BrowserAssumption DEF Outbox!BrowserOutboxAssumption

LEMMA ItemsAreItems ==
  /\ Outbox!NoItem \in OutboxItems /\ Outbox!NoItem.state = "none"
  /\ \A s \in Outbox!States, n \in 0 .. MaxAttempts :
       Outbox!Item(s, n) \in OutboxItems /\ Outbox!Item(s, n).state = s
BY OutboxBounds DEF Outbox!NoItem, Outbox!Item, OutboxItems, Outbox!States

LEMMA ClosedIsTab ==
  /\ Outbox!Closed \in TabType /\ Outbox!Closed.remote = {}
  /\ \A c \in Captures : Outbox!Closed.local[c] = "other"
BY DEF Outbox!Closed, TabType

LEMMA OutboxBegins ==
  ASSUME Outbox!Init PROVE OutboxInv
<1>1. OutboxTypes
  BY ItemsAreItems, ClosedIsTab DEF Outbox!Init, OutboxTypes, Flushing
<1>2. Outbox!NothingLost /\ Outbox!SyncedIsOnServer
  BY ItemsAreItems DEF Outbox!Init, Outbox!NothingLost, Outbox!SyncedIsOnServer
<1>3. ASSUME NEW t \in Tabs PROVE ListedIsServed(t) /\ MarksServed(t)
  BY ClosedIsTab DEF Outbox!Init, ListedIsServed, MarksServed, Outbox!Idle
<1> QED BY <1>1, <1>2, <1>3 DEF OutboxInv

\* One record is put: as synced only if the server has had it, away only if
\* then nothing is lost.
LEMMA OneItemKeeps ==
  ASSUME OutboxInv, NEW c \in Captures, NEW m \in OutboxItems, outbox' = [outbox EXCEPT ![c] = m],
         m.state = "synced" => server[c] # "none",
         m.state = "none" => server[c] # "none",
         saved' \subseteq saved \cup {c}, UNCHANGED server
  PROVE  /\ outbox' \in [Captures -> OutboxItems] /\ saved' \subseteq Captures
         /\ Outbox!NothingLost' /\ Outbox!SyncedIsOnServer'
<1>1. /\ outbox' \in [Captures -> OutboxItems] /\ outbox'[c] = m
      /\ \A d \in Captures \ {c} : outbox'[d] = outbox[d]
  BY DEF OutboxInv, OutboxTypes
<1>2. saved' \subseteq Captures
  BY DEF OutboxInv, OutboxTypes
<1> QED BY <1>1, <1>2 DEF OutboxInv, Outbox!NothingLost, Outbox!SyncedIsOnServer, Outbox!Held

\* The records, what the owner was told and the server stay.
LEMMA RecordsStay ==
  ASSUME OutboxInv, UNCHANGED <<outbox, saved, server>>
  PROVE  Outbox!NothingLost' /\ Outbox!SyncedIsOnServer'
BY DEF OutboxInv, Outbox!NothingLost, Outbox!SyncedIsOnServer, Outbox!Held

LEMMA TabsStay ==
  ASSUME OutboxInv, UNCHANGED <<tab, flush>>,
         \A c \in Captures : server[c] # "none" => server'[c] # "none"
  PROVE  \A t \in Tabs : ListedIsServed(t)' /\ MarksServed(t)'
<1>1. ASSUME NEW t \in Tabs PROVE MarksServed(t)'
  <2>1. flush[t].pc \in {"read", "put"} => flush[t].at \in Captures
    BY DEF OutboxInv, OutboxTypes, Flushing, Picked, Marked, Answered, Outbox!Idle
  <2> QED BY <2>1 DEF OutboxInv, MarksServed
<1> QED BY <1>1 DEF OutboxInv, ListedIsServed

\* A step of one tab's list.
LEMMA TabKeeps ==
  ASSUME OutboxInv, NEW t \in Tabs, NEW b \in TabType, tab' = [tab EXCEPT ![t] = b],
         \A c \in Captures : b.local[c] = "synced" \/ c \in b.remote => server[c] # "none",
         UNCHANGED <<saved, server>>,
         outbox' \in [Captures -> OutboxItems], Outbox!NothingLost', Outbox!SyncedIsOnServer',
         UNCHANGED <<tombstone, net>>,
         retry' \in [Tabs -> SUBSET Captures],
         flush' \in {flush, [flush EXCEPT ![t] = Outbox!Idle]}
  PROVE  OutboxInv'
<1>1. /\ tab' \in [Tabs -> TabType] /\ tab'[t] = b
      /\ \A u \in Tabs \ {t} : tab'[u] = tab[u]
  BY DEF OutboxInv, OutboxTypes
<1>2. /\ DOMAIN flush' = Tabs /\ \A u \in Tabs : Flushing(flush'[u]) /\ MarksServed(u)'
  <2>1. \A u \in Tabs : flush'[u] = flush[u] \/ flush'[u] = Outbox!Idle
    BY DEF OutboxInv, OutboxTypes
  <2>2. Flushing(Outbox!Idle) /\ Outbox!Idle.pc = "idle"
    BY DEF Flushing, Outbox!Idle
  <2>3. DOMAIN flush' = Tabs
    BY DEF OutboxInv, OutboxTypes
  <2> QED BY <2>1, <2>2, <2>3 DEF OutboxInv, OutboxTypes, MarksServed
<1>3. \A u \in Tabs : ListedIsServed(u)'
  BY <1>1 DEF OutboxInv, ListedIsServed
<1> QED BY <1>1, <1>2, <1>3 DEF OutboxInv, OutboxTypes

LEMMA MountKeeps ==
  ASSUME OutboxInv, NEW t \in Tabs, Outbox!Mount(t) PROVE OutboxInv'
<1> DEFINE b == [Outbox!Closed EXCEPT !.is = "recovering", !.interrupted = Outbox!Interrupted]
<1>1. Outbox!Interrupted \subseteq Captures \X (0 .. MaxAttempts)
  BY DEF OutboxInv, OutboxTypes, OutboxItems, Outbox!Interrupted
<1>2. b \in TabType /\ b.local = Outbox!Closed.local /\ b.remote = {}
  BY <1>1, ClosedIsTab DEF TabType
<1>3. tab' = [tab EXCEPT ![t] = b]
  BY DEF Outbox!Mount
<1> HIDE DEF b
<1>4. Outbox!NothingLost' /\ Outbox!SyncedIsOnServer'
  BY RecordsStay DEF Outbox!Mount
<1> QED BY <1>2, <1>3, <1>4, ClosedIsTab, TabKeeps DEF Outbox!Mount, OutboxInv, OutboxTypes

LEMMA RecoverKeeps ==
  ASSUME OutboxInv, NEW t \in Tabs, Outbox!Recover(t) PROVE OutboxInv'
<1>1. PICK r \in tab[t].interrupted :
        /\ outbox' = [outbox EXCEPT ![r[1]] = Outbox!Item("waiting", r[2])]
        /\ tab' = [tab EXCEPT ![t].interrupted = @ \ {r}]
  BY DEF Outbox!Recover
<1>2. tab[t] \in TabType /\ r[1] \in Captures /\ r[2] \in 0 .. MaxAttempts
  BY DEF OutboxInv, OutboxTypes, TabType
<1> DEFINE m == Outbox!Item("waiting", r[2])
           b == [tab[t] EXCEPT !.interrupted = @ \ {r}]
<1>3. m \in OutboxItems /\ m.state = "waiting"
  BY <1>2, ItemsAreItems DEF Outbox!States
<1>4. outbox' = [outbox EXCEPT ![r[1]] = m]
  BY <1>1
<1> HIDE DEF m
<1>5. /\ outbox' \in [Captures -> OutboxItems] /\ Outbox!NothingLost' /\ Outbox!SyncedIsOnServer'
  BY <1>2, <1>3, <1>4, OneItemKeeps DEF Outbox!Recover
<1>6. b \in TabType /\ b.local = tab[t].local /\ b.remote = tab[t].remote
  BY <1>2 DEF TabType
<1>7. tab' = [tab EXCEPT ![t] = b]
  BY <1>1, <1>2 DEF OutboxInv, OutboxTypes
<1> HIDE DEF b
<1>8. \A c \in Captures : b.local[c] = "synced" \/ c \in b.remote => server[c] # "none"
  BY <1>6 DEF OutboxInv, ListedIsServed
<1>9. /\ UNCHANGED <<saved, server, tombstone, net, flush>>
      /\ retry' \in [Tabs -> SUBSET Captures]
  BY DEF Outbox!Recover, OutboxInv, OutboxTypes
<1> QED BY <1>5, <1>6, <1>7, <1>8, <1>9, TabKeeps

LEMMA OpenedKeeps ==
  ASSUME OutboxInv, NEW t \in Tabs, Outbox!Opened(t) PROVE OutboxInv'
<1> DEFINE b == [tab[t] EXCEPT !.is = "open"]
<1>1. b \in TabType /\ b.local = tab[t].local /\ b.remote = tab[t].remote
  BY DEF OutboxInv, OutboxTypes, TabType
<1>2. tab' = [tab EXCEPT ![t] = b]
  BY DEF Outbox!Opened, OutboxInv, OutboxTypes
<1> HIDE DEF b
<1>3. \A c \in Captures : b.local[c] = "synced" \/ c \in b.remote => server[c] # "none"
  BY <1>1 DEF OutboxInv, ListedIsServed
<1>4. Outbox!NothingLost' /\ Outbox!SyncedIsOnServer'
  BY RecordsStay DEF Outbox!Opened
<1> QED BY <1>1, <1>2, <1>3, <1>4, TabKeeps DEF Outbox!Opened, OutboxInv, OutboxTypes

LEMMA CloseTabKeeps ==
  ASSUME OutboxInv, NEW t \in Tabs, Outbox!Close(t) PROVE OutboxInv'
<1>1. Outbox!NothingLost' /\ Outbox!SyncedIsOnServer'
  BY RecordsStay DEF Outbox!Close
<1>2. retry' \in [Tabs -> SUBSET Captures]
  BY DEF Outbox!Close, OutboxInv, OutboxTypes
<1>3. \A c \in Captures : Outbox!Closed.local[c] # "synced" /\ c \notin Outbox!Closed.remote
  BY ClosedIsTab
<1> QED BY <1>1, <1>2, <1>3, ClosedIsTab, TabKeeps DEF Outbox!Close, OutboxInv, OutboxTypes

LEMMA ListLocalKeeps ==
  ASSUME OutboxInv, NEW t \in Tabs, Outbox!ListLocal(t) PROVE OutboxInv'
<1> DEFINE l == [c \in Captures |-> Outbox!Listed(c)]
           b == [tab[t] EXCEPT !.local = l]
<1>1. l \in [Captures -> {"synced", "permanent", "other"}]
  BY DEF Outbox!Listed
<1>2. \A c \in Captures : l[c] = "synced" => server[c] # "none"
  BY DEF OutboxInv, Outbox!SyncedIsOnServer, Outbox!Listed
<1>4. tab' = [tab EXCEPT ![t] = b]
  BY DEF Outbox!ListLocal, OutboxInv, OutboxTypes
<1> HIDE DEF l
<1>3. b \in TabType /\ b.local = l /\ b.remote = tab[t].remote
  <2>1. tab[t] \in TabType
    BY DEF OutboxInv, OutboxTypes
  <2> QED BY <1>1, <2>1 DEF TabType
<1> HIDE DEF b
<1>5. \A c \in Captures : b.local[c] = "synced" \/ c \in b.remote => server[c] # "none"
  BY <1>2, <1>3 DEF OutboxInv, ListedIsServed
<1>6. Outbox!NothingLost' /\ Outbox!SyncedIsOnServer'
  BY RecordsStay DEF Outbox!ListLocal
<1> QED BY <1>3, <1>4, <1>5, <1>6, TabKeeps DEF Outbox!ListLocal, OutboxInv, OutboxTypes

LEMMA ListRemoteKeeps ==
  ASSUME OutboxInv, NEW t \in Tabs, Outbox!ListRemote(t) PROVE OutboxInv'
<1>1. PICK page \in SUBSET {c \in Captures : server[c] = "live"} :
        tab' = [tab EXCEPT ![t].remote = page]
  BY DEF Outbox!ListRemote
<1> DEFINE b == [tab[t] EXCEPT !.remote = page]
<1>2. b \in TabType /\ b.local = tab[t].local /\ b.remote = page
  BY DEF OutboxInv, OutboxTypes, TabType
<1>3. tab' = [tab EXCEPT ![t] = b]
  BY <1>1 DEF OutboxInv, OutboxTypes
<1> HIDE DEF b
<1>4. \A c \in Captures : b.local[c] = "synced" \/ c \in b.remote => server[c] # "none"
  BY <1>2 DEF OutboxInv, ListedIsServed
<1>5. Outbox!NothingLost' /\ Outbox!SyncedIsOnServer'
  BY RecordsStay DEF Outbox!ListRemote
<1> QED BY <1>2, <1>3, <1>4, <1>5, TabKeeps DEF Outbox!ListRemote, OutboxInv, OutboxTypes

\* One record is put, and no tab turns.
LEMMA RecordKeeps ==
  ASSUME OutboxInv, NEW c \in Captures, NEW m \in OutboxItems, outbox' = [outbox EXCEPT ![c] = m],
         m.state = "synced" => server[c] # "none",
         m.state = "none" => server[c] # "none",
         saved' \subseteq saved \cup {c}, tombstone' \subseteq tombstone \cup {c},
         retry' \in [Tabs -> SUBSET Captures], UNCHANGED <<tab, flush, net, server>>
  PROVE  OutboxInv'
<1>1. /\ outbox' \in [Captures -> OutboxItems] /\ saved' \subseteq Captures
      /\ Outbox!NothingLost' /\ Outbox!SyncedIsOnServer'
  BY OneItemKeeps
<1>2. \A t \in Tabs : ListedIsServed(t)' /\ MarksServed(t)'
  BY TabsStay
<1> QED BY <1>1, <1>2 DEF OutboxInv, OutboxTypes

LEMMA CleanKeeps ==
  ASSUME OutboxInv, NEW t \in Tabs, NEW c \in Captures, Outbox!Clean(t, c) PROVE OutboxInv'
<1>1. server[c] # "none"
  BY DEF Outbox!Clean, OutboxInv, ListedIsServed
<1> QED BY <1>1, ItemsAreItems, RecordKeeps DEF Outbox!Clean, OutboxInv, OutboxTypes

LEMMA SubmitKeeps ==
  ASSUME OutboxInv, NEW t \in Tabs, NEW c \in Captures, Outbox!Submit(t, c) PROVE OutboxInv'
<1>1. /\ Outbox!Item("waiting", 0) \in OutboxItems /\ Outbox!Item("waiting", 0).state = "waiting"
  BY OutboxBounds, ItemsAreItems DEF Outbox!States
<1> QED BY <1>1, RecordKeeps DEF Outbox!Submit, OutboxInv, OutboxTypes

LEMMA RetryByHandKeeps ==
  ASSUME OutboxInv, NEW t \in Tabs, NEW c \in Captures, Outbox!RetryByHand(t, c) PROVE OutboxInv'
<1>1. retry' \in [Tabs -> SUBSET Captures]
  BY DEF Outbox!RetryByHand, OutboxInv, OutboxTypes
<1>2. /\ Outbox!NothingLost' /\ Outbox!SyncedIsOnServer'
      /\ \A u \in Tabs : ListedIsServed(u)' /\ MarksServed(u)'
  BY RecordsStay, TabsStay DEF Outbox!RetryByHand
<1> QED BY <1>1, <1>2 DEF Outbox!RetryByHand, OutboxInv, OutboxTypes

LEMMA PutRetryKeeps ==
  ASSUME OutboxInv, NEW t \in Tabs, NEW c \in Captures, Outbox!PutRetry(t, c) PROVE OutboxInv'
<1>1. /\ Outbox!Item("waiting", 0) \in OutboxItems /\ Outbox!Item("waiting", 0).state = "waiting"
  BY OutboxBounds, ItemsAreItems DEF Outbox!States
<1>2. retry' \in [Tabs -> SUBSET Captures]
  BY DEF Outbox!PutRetry, OutboxInv, OutboxTypes
<1> QED BY <1>1, <1>2, RecordKeeps DEF Outbox!PutRetry

LEMMA CompleteDeletionKeeps ==
  ASSUME OutboxInv, NEW c \in Captures, Outbox!CompleteDeletion(c) PROVE OutboxInv'
BY ItemsAreItems, RecordKeeps DEF Outbox!CompleteDeletion, OutboxInv, OutboxTypes

\* The server's captures come and are deleted, never taken back.
LEMMA ServerKeeps ==
  ASSUME OutboxInv, NEW c \in Captures, NEW s \in {"live", "deleted"},
         server' = [server EXCEPT ![c] = s],
         UNCHANGED <<outbox, tombstone, saved, tab, flush, retry, net>>
  PROVE  OutboxInv'
<1>1. /\ server' \in [Captures -> {"none", "live", "deleted"}]
      /\ \A d \in Captures : server'[d] = IF d = c THEN s ELSE server[d]
  BY DEF OutboxInv, OutboxTypes
<1>2. \A t \in Tabs : ListedIsServed(t)' /\ MarksServed(t)'
  BY <1>1, TabsStay
<1> QED BY <1>1, <1>2
        DEF OutboxInv, OutboxTypes, Outbox!NothingLost, Outbox!SyncedIsOnServer, Outbox!Held

LEMMA LoseKeeps ==
  ASSUME OutboxInv, NEW c \in Captures, Outbox!Lose(c) PROVE OutboxInv'
<1>1. /\ Outbox!NothingLost' /\ Outbox!SyncedIsOnServer'
      /\ \A u \in Tabs : ListedIsServed(u)' /\ MarksServed(u)'
  BY RecordsStay, TabsStay DEF Outbox!Lose
<1> QED BY <1>1 DEF Outbox!Lose, OutboxInv, OutboxTypes

\* A flush goes on.
LEMMA FlushKeeps ==
  ASSUME OutboxInv, NEW t \in Tabs, NEW f, Flushing(f), flush' = [flush EXCEPT ![t] = f],
         f.pc \in {"read", "put"} /\ f.put.state = "synced" => server[f.at] # "none",
         outbox' \in [Captures -> OutboxItems], Outbox!NothingLost', Outbox!SyncedIsOnServer',
         net' \subseteq Captures, UNCHANGED <<tombstone, saved, tab, retry, server>>
  PROVE  OutboxInv'
<1>1. /\ DOMAIN flush' = Tabs /\ flush'[t] = f
      /\ \A u \in Tabs \ {t} : flush'[u] = flush[u]
  BY DEF OutboxInv, OutboxTypes
<1>2. \A u \in Tabs : Flushing(flush'[u]) /\ MarksServed(u)' /\ ListedIsServed(u)'
  BY <1>1 DEF OutboxInv, OutboxTypes, MarksServed, ListedIsServed
<1> QED BY <1>1, <1>2 DEF OutboxInv, OutboxTypes

\* The same when the records stay.
LEMMA FlushOnlyKeeps ==
  ASSUME OutboxInv, NEW t \in Tabs, NEW f, Flushing(f), flush' = [flush EXCEPT ![t] = f],
         f.pc \in {"read", "put"} /\ f.put.state = "synced" => server[f.at] # "none",
         UNCHANGED <<outbox, tombstone, saved, tab, retry, net, server>>
  PROVE  OutboxInv'
<1>1. /\ outbox' \in [Captures -> OutboxItems] /\ Outbox!NothingLost' /\ Outbox!SyncedIsOnServer'
      /\ net' \subseteq Captures
  BY RecordsStay DEF OutboxInv, OutboxTypes
<1> QED BY <1>1, FlushKeeps

LEMMA StartFlushKeeps ==
  ASSUME OutboxInv, NEW t \in Tabs, Outbox!StartFlush(t) PROVE OutboxInv'
<1>1. PICK batch \in SUBSET {c \in Captures : Outbox!Due(c)} :
        /\ batch # {}
        /\ flush' = [flush EXCEPT ![t] =
             [pc |-> "next", ready |-> [c \in batch |-> outbox[c].attempts]]]
  BY DEF Outbox!StartFlush
<1> DEFINE g == [c \in batch |-> outbox[c].attempts]
           f == [pc |-> "next", ready |-> g]
<1>2. g \in [batch -> 0 .. MaxAttempts]
  BY DEF OutboxInv, OutboxTypes, OutboxItems
<1>3. g \in Batches
  BY <1>1, <1>2 DEF Batches
<1>4. flush' = [flush EXCEPT ![t] = f]
  BY <1>1
<1> HIDE DEF g
<1>5. f \in Picked /\ f.pc = "next"
  BY <1>3 DEF Picked
<1> HIDE DEF f
<1> QED BY <1>4, <1>5, FlushOnlyKeeps DEF Outbox!StartFlush, Flushing

LEMMA BatchOf ==
  ASSUME NEW g \in Batches
  PROVE  /\ DOMAIN g \subseteq Captures /\ DOMAIN g # {} /\ \A c \in DOMAIN g : g[c] \in 0 .. MaxAttempts
         /\ \A S \in SUBSET DOMAIN g : S # {} => [c \in S |-> g[c]] \in Batches
<1>1. PICK batch \in (SUBSET Captures) \ {{}} : g \in [batch -> 0 .. MaxAttempts]
  BY DEF Batches
<1>2. ASSUME NEW S \in SUBSET DOMAIN g, S # {} PROVE [c \in S |-> g[c]] \in Batches
  <2>1. S \in (SUBSET Captures) \ {{}} /\ [c \in S |-> g[c]] \in [S -> 0 .. MaxAttempts]
    BY <1>1, <1>2
  <2> QED BY <2>1 DEF Batches
<1> QED BY <1>1, <1>2

LEMMA TakeKeeps ==
  ASSUME OutboxInv, NEW t \in Tabs, Outbox!Take(t) PROVE OutboxInv'
<1>1. PICK c \in DOMAIN flush[t].ready :
        flush' = [flush EXCEPT ![t] =
          IF Outbox!Held(c) THEN [pc |-> "mark", ready |-> flush[t].ready, at |-> c]
          ELSE Outbox!Idle]
  BY DEF Outbox!Take
<1>2. flush[t] \in Picked
  BY DEF Outbox!Take, OutboxInv, OutboxTypes, Flushing, Marked, Answered, Outbox!Idle
<1>3. flush[t].ready \in Batches
  BY <1>2 DEF Picked
<1> DEFINE f == [pc |-> "mark", ready |-> flush[t].ready, at |-> c]
<1>4. f \in Marked /\ f.pc = "mark" /\ f.at \in DOMAIN f.ready
  BY <1>3, BatchOf DEF Marked
<1>5. Outbox!Idle.pc = "idle"
  BY DEF Outbox!Idle
<1>6. flush' = [flush EXCEPT ![t] = f] \/ flush' = [flush EXCEPT ![t] = Outbox!Idle]
  BY <1>1
<1> HIDE DEF f
<1> QED BY <1>4, <1>5, <1>6, FlushOnlyKeeps DEF Outbox!Take, Flushing

\* A flush at a record.
LEMMA MarkedAt ==
  ASSUME OutboxInv, NEW t \in Tabs, flush[t].pc \in {"mark", "asked"}
  PROVE  /\ flush[t] \in Marked /\ flush[t].at \in DOMAIN flush[t].ready
         /\ flush[t].ready \in Batches /\ flush[t].at \in Captures
         /\ flush[t].ready[flush[t].at] \in 0 .. MaxAttempts
<1>1. flush[t] \in Marked /\ flush[t].at \in DOMAIN flush[t].ready
  BY DEF OutboxInv, OutboxTypes, Flushing, Picked, Answered, Outbox!Idle
<1>2. flush[t].ready \in Batches /\ flush[t].at \in Captures
  BY <1>1 DEF Marked
<1> QED BY <1>1, <1>2, BatchOf

LEMMA AnsweredAt ==
  ASSUME OutboxInv, NEW t \in Tabs, flush[t].pc \in {"read", "put"}
  PROVE  /\ flush[t] \in Answered /\ flush[t].at \in DOMAIN flush[t].ready
         /\ flush[t].put \in OutboxItems /\ flush[t].put.state # "none"
         /\ flush[t].ready \in Batches /\ flush[t].at \in Captures
         /\ flush[t].ready[flush[t].at] \in 0 .. MaxAttempts
<1>1. /\ flush[t] \in Answered /\ flush[t].at \in DOMAIN flush[t].ready
      /\ flush[t].put.state # "none"
  BY DEF OutboxInv, OutboxTypes, Flushing, Picked, Marked, Outbox!Idle
<1>2. flush[t].ready \in Batches /\ flush[t].at \in Captures /\ flush[t].put \in OutboxItems
  BY <1>1 DEF Answered
<1> QED BY <1>1, <1>2, BatchOf

LEMMA SendKeeps ==
  ASSUME OutboxInv, NEW t \in Tabs, Outbox!Send(t) PROVE OutboxInv'
<1>1. /\ flush[t] \in Marked /\ flush[t].at \in DOMAIN flush[t].ready /\ flush[t].at \in Captures
      /\ flush[t].ready[flush[t].at] \in 0 .. MaxAttempts
  BY MarkedAt DEF Outbox!Send
<1> DEFINE m == Outbox!Item("sending", flush[t].ready[flush[t].at])
           f == [flush[t] EXCEPT !.pc = "asked"]
<1>2. m \in OutboxItems /\ m.state = "sending"
  BY <1>1, ItemsAreItems DEF Outbox!States
<1>3. outbox' = [outbox EXCEPT ![flush[t].at] = m] /\ flush' = [flush EXCEPT ![t] = f]
      /\ net' = net \cup {flush[t].at} /\ UNCHANGED <<tombstone, saved, tab, retry, server>>
  BY DEF Outbox!Send, OutboxInv, OutboxTypes
<1>4. f \in Marked /\ f.pc = "asked" /\ f.at \in DOMAIN f.ready
  BY <1>1 DEF Marked
<1> HIDE DEF m, f
<1>5. outbox' \in [Captures -> OutboxItems] /\ Outbox!NothingLost' /\ Outbox!SyncedIsOnServer'
  BY <1>1, <1>2, <1>3, OneItemKeeps
<1>6. net' \subseteq Captures
  BY <1>1, <1>3 DEF OutboxInv, OutboxTypes
<1> QED BY <1>3, <1>4, <1>5, <1>6, FlushKeeps DEF Flushing

\* What comes of a failure is never "none" nor "synced".
LEMMA PlanIsItem ==
  ASSUME NEW n \in 0 .. MaxAttempts, NEW offline \in BOOLEAN
  PROVE  /\ Outbox!Plan(n, offline) \in OutboxItems
         /\ Outbox!Plan(n, offline).state \in {"retrying", "permanent"}
<1>1. (IF n < MaxAttempts THEN n + 1 ELSE n) \in 0 .. MaxAttempts
  BY OutboxBounds
<1> QED BY <1>1, ItemsAreItems DEF Outbox!Plan, Outbox!States

LEMMA VerdictIsItem ==
  ASSUME NEW n \in 0 .. MaxAttempts, NEW reply \in {"created", "lost", "busy", "refused"}
  PROVE  /\ Outbox!Verdict(n, reply) \in OutboxItems /\ Outbox!Verdict(n, reply).state # "none"
         /\ Outbox!Verdict(n, reply).state = "synced" => reply = "created"
<1>1. CASE reply = "created"
  BY <1>1, ItemsAreItems DEF Outbox!Verdict, Outbox!States
<1>2. CASE reply = "lost"
  <2>1. Outbox!Verdict(n, reply) = Outbox!Plan(n, TRUE)
    BY <1>2 DEF Outbox!Verdict
  <2> QED BY <2>1, PlanIsItem
<1>3. CASE reply = "busy"
  <2>1. Outbox!Verdict(n, reply) = Outbox!Plan(n, FALSE)
    BY <1>3 DEF Outbox!Verdict
  <2> QED BY <2>1, PlanIsItem
<1>4. CASE reply = "refused"
  <2> DEFINE p == Outbox!Plan(n, FALSE)
             q == [p EXCEPT !.state = "permanent"]
  <2>1. p \in OutboxItems
    BY PlanIsItem
  <2>2. Outbox!Verdict(n, reply) = q
    BY <1>4 DEF Outbox!Verdict
  <2> HIDE DEF p
  <2>3. q \in OutboxItems /\ q.state = "permanent"
    BY <2>1 DEF OutboxItems, Outbox!States
  <2> QED BY <2>2, <2>3
<1> QED BY <1>1, <1>2, <1>3, <1>4

LEMMA HearReplyKeeps ==
  ASSUME OutboxInv, NEW t \in Tabs, Outbox!Hear(t) PROVE OutboxInv'
<1>1. /\ flush[t] \in Marked /\ flush[t].at \in DOMAIN flush[t].ready
      /\ flush[t].ready \in Batches /\ flush[t].at \in Captures
      /\ flush[t].ready[flush[t].at] \in 0 .. MaxAttempts
  BY MarkedAt DEF Outbox!Hear
<1>2. PICK reply \in Outbox!Reply(flush[t].at) :
        flush' = [flush EXCEPT ![t] =
          [pc |-> "read", ready |-> flush[t].ready, at |-> flush[t].at,
           put |-> Outbox!Verdict(flush[t].ready[flush[t].at], reply)]]
  BY DEF Outbox!Hear
<1>3. /\ reply \in {"created", "lost", "busy", "refused"}
      /\ reply = "created" => server[flush[t].at] = "live"
  BY DEF Outbox!Reply
<1> DEFINE v == Outbox!Verdict(flush[t].ready[flush[t].at], reply)
           f == [pc |-> "read", ready |-> flush[t].ready, at |-> flush[t].at, put |-> v]
<1>4. v \in OutboxItems /\ v.state # "none" /\ (v.state = "synced" => reply = "created")
  BY <1>1, <1>3, VerdictIsItem
<1>5. flush' = [flush EXCEPT ![t] = f]
  BY <1>2
<1> HIDE DEF v
<1>6. f \in Answered /\ f.at = flush[t].at /\ f.ready = flush[t].ready /\ f.put = v
  BY <1>1, <1>4 DEF Answered
<1> HIDE DEF f
<1>7. Flushing(f)
  BY <1>1, <1>4, <1>6 DEF Flushing
<1>8. f.put.state = "synced" => server[f.at] # "none"
  BY <1>3, <1>4, <1>6
<1> QED BY <1>5, <1>7, <1>8, FlushOnlyKeeps DEF Outbox!Hear

LEMMA ReadBackKeeps ==
  ASSUME OutboxInv, NEW t \in Tabs, Outbox!ReadBack(t) PROVE OutboxInv'
<1>1. /\ flush[t] \in Answered /\ flush[t].at \in DOMAIN flush[t].ready
      /\ flush[t].put \in OutboxItems /\ flush[t].put.state # "none"
      /\ flush[t].ready[flush[t].at] \in 0 .. MaxAttempts
  BY AnsweredAt DEF Outbox!ReadBack
<1> DEFINE p == Outbox!Plan(flush[t].ready[flush[t].at], TRUE)
           f1 == [flush[t] EXCEPT !.pc = "put"]
           f2 == [flush[t] EXCEPT !.put = p]
<1>2. /\ f1 \in Answered /\ f1.at = flush[t].at /\ f1.ready = flush[t].ready
      /\ f1.put = flush[t].put
  BY <1>1 DEF Answered
<1>3. p \in OutboxItems /\ p.state \in {"retrying", "permanent"}
  BY <1>1, PlanIsItem
<1>4. \/ flush' = [flush EXCEPT ![t] = f1] \/ flush' = [flush EXCEPT ![t] = f2]
      \/ flush' = [flush EXCEPT ![t] = Outbox!Idle]
  BY DEF Outbox!ReadBack
<1> HIDE DEF p
<1>5. f2 \in Answered /\ f2.at = flush[t].at /\ f2.ready = flush[t].ready /\ f2.put = p
  BY <1>1, <1>3 DEF Answered
<1> HIDE DEF f1, f2
<1>6. Flushing(f1) /\ Flushing(f2) /\ Flushing(Outbox!Idle) /\ Outbox!Idle.pc = "idle"
  BY <1>1, <1>2, <1>3, <1>5 DEF Flushing, Outbox!Idle
<1>7. f1.put.state = "synced" => server[f1.at] # "none"
  BY <1>2 DEF OutboxInv, MarksServed, Outbox!ReadBack
<1>8. f2.put.state # "synced"
  BY <1>3, <1>5
<1> QED BY <1>4, <1>6, <1>7, <1>8, FlushOnlyKeeps DEF Outbox!ReadBack

LEMMA PutBackKeeps ==
  ASSUME OutboxInv, NEW t \in Tabs, Outbox!PutBack(t) PROVE OutboxInv'
<1>1. /\ flush[t].at \in DOMAIN flush[t].ready /\ flush[t].ready \in Batches
      /\ flush[t].at \in Captures
      /\ flush[t].put \in OutboxItems /\ flush[t].put.state # "none"
  BY AnsweredAt DEF Outbox!PutBack
<1> DEFINE f == Outbox!Without(flush[t], flush[t].at)
<1>2. /\ outbox' = [outbox EXCEPT ![flush[t].at] = flush[t].put]
      /\ flush' = [flush EXCEPT ![t] = f] /\ UNCHANGED <<tombstone, saved, tab, retry, net, server>>
  BY DEF Outbox!PutBack
<1>3. f = Outbox!Idle \/ f \in Picked
  <2> DEFINE S == DOMAIN flush[t].ready \ {flush[t].at}
             g == [d \in S |-> flush[t].ready[d]]
  <2>1. CASE S = {}
    BY <1>1, <2>1 DEF Outbox!Without
  <2>2. CASE S # {}
    <3>1. g \in Batches
      BY <1>1, <2>2, BatchOf
    <3>2. f = [pc |-> "next", ready |-> g]
      BY <2>2 DEF Outbox!Without
    <3> HIDE DEF g, f
    <3> QED BY <3>1, <3>2 DEF Picked
  <2> QED BY <2>1, <2>2
<1> HIDE DEF f
<1>4. Flushing(f) /\ f.pc \in {"idle", "next"}
  BY <1>3 DEF Flushing, Picked, Outbox!Idle
<1>5. flush[t].put.state = "synced" => server[flush[t].at] # "none"
  BY DEF OutboxInv, MarksServed, Outbox!PutBack
<1>6. outbox' \in [Captures -> OutboxItems] /\ Outbox!NothingLost' /\ Outbox!SyncedIsOnServer'
  BY <1>1, <1>2, <1>5, OneItemKeeps
<1>7. net' \subseteq Captures
  BY <1>2 DEF OutboxInv, OutboxTypes
<1> QED BY <1>2, <1>4, <1>6, <1>7, FlushKeeps

LEMMA OutboxStepKeeps ==
  ASSUME OutboxInv, Outbox!Next PROVE OutboxInv'
<1>1. ASSUME NEW c \in Captures, Outbox!ServerDelete(c) \/ Outbox!Serve(c) PROVE OutboxInv'
  BY <1>1, ServerKeeps DEF Outbox!ServerDelete, Outbox!Serve
<1>2. ASSUME NEW t \in Tabs, Outbox!Flush(t) PROVE OutboxInv'
  BY <1>2, StartFlushKeeps, TakeKeeps, SendKeeps, HearReplyKeeps, ReadBackKeeps, PutBackKeeps
  DEF Outbox!Flush
<1> QED BY <1>1, <1>2, MountKeeps, RecoverKeeps, OpenedKeeps, CloseTabKeeps, ListLocalKeeps,
           ListRemoteKeeps, CleanKeeps, SubmitKeeps, RetryByHandKeeps, PutRetryKeeps,
           CompleteDeletionKeeps, LoseKeeps
    DEF Outbox!Next

LEMMA OutboxStutterKeeps ==
  ASSUME OutboxInv, UNCHANGED outboxVars PROVE OutboxInv'
<1>1. /\ Outbox!NothingLost' /\ Outbox!SyncedIsOnServer'
      /\ \A u \in Tabs : ListedIsServed(u)' /\ MarksServed(u)'
  BY RecordsStay, TabsStay DEF outboxVars
<1> QED BY <1>1 DEF OutboxInv, OutboxTypes, outboxVars

LEMMA OutboxInvSuffices ==
  ASSUME OutboxInv PROVE Outbox!TypeOK /\ Outbox!NothingLost /\ Outbox!SyncedIsOnServer
<1>1. ASSUME NEW t \in Tabs
      PROVE  /\ tab[t].is \in {"closed", "recovering", "open"}
             /\ tab[t].interrupted \subseteq Captures \X (0 .. MaxAttempts)
             /\ tab[t].local \in [Captures -> {"synced", "permanent", "other"}]
             /\ tab[t].remote \subseteq Captures /\ retry[t] \subseteq Captures
  BY DEF OutboxInv, OutboxTypes, TabType
<1>2. ASSUME NEW t \in Tabs
      PROVE  /\ flush[t].pc \in {"idle", "next", "mark", "asked", "read", "put"}
             /\ flush[t] # Outbox!Idle => DOMAIN flush[t].ready \in (SUBSET Captures) \ {{}}
  <2>1. /\ flush[t].pc \in {"idle", "next", "mark", "asked", "read", "put"}
        /\ flush[t] # Outbox!Idle => flush[t].ready \in Batches
    BY DEF OutboxInv, OutboxTypes, Flushing, Picked, Marked, Answered, Outbox!Idle
  <2> QED BY <2>1, BatchOf
<1> QED BY <1>1, <1>2 DEF OutboxInv, OutboxTypes, OutboxItems, Outbox!Items, Outbox!TypeOK

-----------------------------------------------------------------------------
(* The intents.                                                            *)

IntentType == [state : {"available", "pending", "consumed"}, key : 1 .. MaxKey,
               attempts : 0 .. MaxAttempts, parked : BOOLEAN]
Intents == IntentType \cup {Actions!NoIntent}
Carrying == [pc : {"add", "get", "put", "drop", "erase", "erased"}, id : Actions!Ids,
             act : IntentType, ask : BOOLEAN]
Asking == [pc : {"ask", "asked"}, id : Actions!Ids, act : IntentType]
RunType(s) == s = Actions!Idle \/ s \in Carrying \/ s \in Asking
ActionTypes ==
  /\ local \in [Actions!Ids -> Intents]
  /\ hidden \in BOOLEAN /\ keys \in 0 .. MaxKey
  /\ DOMAIN run = Runs /\ \A r \in Runs : RunType(run[r])
  /\ asked \subseteq Actions!Ids \X (1 .. MaxKey)
  /\ done \in [Actions!Ids -> SUBSET (1 .. MaxKey)]
  /\ stale \in [Actions!Ids -> SUBSET (1 .. keys)]

\* Run r carries intent i, which it has found or put in IndexedDB.
Carries(r, i) == run[r].pc \notin {"idle", "add"} /\ run[r].id = i

\* As long as the notes are as they were when it was asked for, a change is
\* asked for and made under the key of its intent, which nothing removes.
OneKey(i) ==
  stale[i] = {} =>
    /\ \A r \in Runs :
         Carries(r, i) => /\ local[i].state # "none" /\ run[r].act.key = local[i].key
                          /\ run[r].pc # "drop"
    /\ \A k \in 1 .. MaxKey :
         <<i, k>> \in asked \/ k \in done[i] => local[i].state # "none" /\ k = local[i].key

\* The intent to delete is only ever pending.
DeletesPending ==
  /\ local["delete"].state \in {"none", "pending"}
  /\ \A r \in Runs : run[r].pc # "idle" /\ run[r].id = "delete" => run[r].act.state = "pending"
Undeleted ==
  /\ done["delete"] = {} /\ \A k \in 1 .. MaxKey : <<"delete", k>> \notin asked
  /\ \A r \in Runs : ~Carries(r, "delete")
\* It stays until the tombstone is there.
Remembered ==
  stale["delete"] = {} =>
    /\ \A r \in Runs : Carries(r, "delete") => run[r].pc # "drop"
    /\ hidden \/ local["delete"].state = "pending" \/ Undeleted

ActionsInv ==
  /\ ActionTypes /\ DeletesPending /\ Remembered
  /\ \A i \in Receipts : OneKey(i)

LEMMA ActionBounds ==
  /\ MaxKey \in Nat /\ MaxAttempts \in Nat \ {0} /\ Receipts \cap Removals = {}
  /\ Receipts \subseteq Actions!Ids /\ Removals \subseteq Actions!Ids
  /\ "delete" \in Actions!Ids /\ "retry" \in Actions!Ids
  /\ "delete" \notin Receipts \cup Removals /\ "retry" \notin Receipts \cup Removals
BY BrowserAssumption DEF Actions!BrowserActionsAssumption, Actions!Ids, Actions!Undos

LEMMA NoIntentIs == Actions!NoIntent.state = "none" /\ Actions!NoIntent \notin IntentType
BY DEF Actions!NoIntent, Actions!Intent, IntentType

LEMMA NewIntent ==
  ASSUME NEW s \in {"available", "pending", "consumed"}, NEW k \in 1 .. MaxKey
  PROVE  /\ Actions!Intent(s, k) \in IntentType
         /\ Actions!Intent(s, k).state = s /\ Actions!Intent(s, k).key = k
BY ActionBounds DEF Actions!Intent, IntentType

LEMMA IntentHeld ==
  ASSUME ActionsInv, NEW i \in Actions!Ids, local[i].state # "none"
  PROVE  local[i] \in IntentType
BY NoIntentIs DEF ActionsInv, ActionTypes, Intents

LEMMA IdleIs == RunType(Actions!Idle) /\ Actions!Idle.pc = "idle"
BY DEF RunType, Actions!Idle

\* What a run in flight carries.
LEMMA RunAt ==
  ASSUME ActionsInv, NEW r \in Runs, run[r].pc # "idle"
  PROVE  /\ run[r].id \in Actions!Ids /\ run[r].act \in IntentType
         /\ run[r].pc \in {"ask", "asked"} => run[r] \in Asking
         /\ run[r].pc \notin {"ask", "asked"} => run[r] \in Carrying
<1>1. run[r] \in Carrying \/ run[r] \in Asking
  BY IdleIs DEF ActionsInv, ActionTypes, RunType
<1> QED BY <1>1 DEF Carrying, Asking

LEMMA ActionsBegin ==
  ASSUME Actions!Init PROVE ActionsInv
<1>1. DOMAIN local = Actions!Ids /\ \A i \in Actions!Ids : local[i] = Actions!NoIntent
  BY DEF Actions!Init
<1>2. DOMAIN run = Runs /\ \A r \in Runs : run[r] = Actions!Idle
  BY DEF Actions!Init
<1>3. ActionTypes
  <2>1. local \in [Actions!Ids -> Intents]
    BY DEF Actions!Init, Intents
  <2>2. hidden \in BOOLEAN /\ keys \in 0 .. MaxKey /\ asked \subseteq Actions!Ids \X (1 .. MaxKey)
    <3>1. hidden = FALSE /\ keys = 0 /\ asked = {}
      BY DEF Actions!Init
    <3>2. 0 \in 0 .. MaxKey
      BY ActionBounds
    <3> QED BY <3>1, <3>2
  <2>3. done \in [Actions!Ids -> SUBSET (1 .. MaxKey)]
    BY DEF Actions!Init
  <2>4. stale \in [Actions!Ids -> SUBSET (1 .. keys)]
    BY DEF Actions!Init
  <2> QED BY <1>2, <2>1, <2>2, <2>3, <2>4, IdleIs DEF ActionTypes
<1>4. DeletesPending /\ Remembered
  BY <1>1, <1>2, IdleIs, NoIntentIs, ActionBounds
  DEF Actions!Init, DeletesPending, Remembered, Undeleted, Carries
<1>5. \A i \in Receipts : OneKey(i)
  BY <1>1, <1>2, IdleIs, ActionBounds DEF Actions!Init, OneKey, Carries
<1> QED BY <1>3, <1>4, <1>5 DEF ActionsInv

LEMMA OneRun ==
  ASSUME ActionsInv, NEW r \in Runs, NEW s, RunType(s), Actions!Goto(r, s)
  PROVE  /\ DOMAIN run' = Runs /\ \A q \in Runs : RunType(run'[q])
         /\ run'[r] = s /\ \A q \in Runs \ {r} : run'[q] = run[q]
BY DEF ActionsInv, ActionTypes, Actions!Goto

\* A run goes on with an intent it carried, or with one that is stored.
LEMMA RunKeeps ==
  ASSUME ActionsInv, NEW r \in Runs, NEW s, RunType(s), Actions!Goto(r, s),
         UNCHANGED <<local, hidden, asked, done, stale>>,
         keys' \in 0 .. MaxKey, keys <= keys',
         s.pc # "idle" /\ s.id = "delete" => s.act.state = "pending",
         s.pc \notin {"idle", "add"} =>
           \/ local[s.id].state # "none" /\ s.act.key = local[s.id].key
           \/ Carries(r, s.id) /\ s.act.key = run[r].act.key,
         s.pc = "drop" => s.id \notin Receipts \cup {"delete"} \/ stale[s.id] # {}
  PROVE  ActionsInv'
<1>1. /\ DOMAIN run' = Runs /\ \A q \in Runs : RunType(run'[q])
      /\ run'[r] = s /\ \A q \in Runs \ {r} : run'[q] = run[q]
  BY OneRun
<1>2. ActionTypes'
  <2>1. keys \in Nat /\ 1 .. keys \subseteq 1 .. keys'
    BY ActionBounds DEF ActionsInv, ActionTypes
  <2>2. stale' \in [Actions!Ids -> SUBSET (1 .. keys')]
    BY <2>1 DEF ActionsInv, ActionTypes
  <2> QED BY <1>1, <2>2 DEF ActionsInv, ActionTypes
<1>3. DeletesPending'
  BY <1>1 DEF ActionsInv, DeletesPending
<1>4. Remembered'
  <2> SUFFICES ASSUME stale["delete"] = {}
               PROVE  /\ \A q \in Runs : Carries(q, "delete")' => run'[q].pc # "drop"
                      /\ hidden \/ local["delete"].state = "pending" \/ Undeleted'
    BY DEF Remembered
  <2>1. \A q \in Runs : Carries(q, "delete")' => run'[q].pc # "drop"
    BY <1>1 DEF ActionsInv, Remembered, Carries
  <2>2. CASE hidden \/ local["delete"].state = "pending"
    BY <2>1, <2>2
  <2>3. CASE ~hidden /\ local["delete"].state = "none"
    <3>1. Undeleted
      BY <2>3 DEF ActionsInv, Remembered
    <3>2. ~Carries(r, "delete")'
      BY <1>1, <2>3, <3>1 DEF Undeleted, Carries
    <3> QED BY <1>1, <2>1, <3>1, <3>2 DEF Undeleted, Carries
  <2> QED BY <2>2, <2>3 DEF ActionsInv, DeletesPending
<1>5. ASSUME NEW i \in Receipts PROVE OneKey(i)'
  <2> SUFFICES ASSUME stale[i] = {}
               PROVE  /\ \A q \in Runs :
                           Carries(q, i)' => /\ local[i].state # "none" /\ run'[q].act.key = local[i].key
                                             /\ run'[q].pc # "drop"
                      /\ \A k \in 1 .. MaxKey :
                           <<i, k>> \in asked \/ k \in done[i] =>
                             local[i].state # "none" /\ k = local[i].key
    BY DEF OneKey
  <2>1. /\ \A q \in Runs :
             Carries(q, i) => /\ local[i].state # "none" /\ run[q].act.key = local[i].key
                              /\ run[q].pc # "drop"
        /\ \A k \in 1 .. MaxKey :
             <<i, k>> \in asked \/ k \in done[i] => local[i].state # "none" /\ k = local[i].key
    BY DEF ActionsInv, OneKey
  <2>2. Carries(r, i)' => /\ local[i].state # "none" /\ s.act.key = local[i].key /\ s.pc # "drop"
    BY <1>1, <2>1 DEF Carries
  <2> QED BY <1>1, <2>1, <2>2 DEF Carries
<1> QED BY <1>2, <1>3, <1>4, <1>5 DEF ActionsInv

\* An intent is put under the key it has, or where there is none.
LEMMA IntentPut ==
  ASSUME ActionsInv, NEW r \in Runs, NEW i \in Actions!Ids, NEW a \in IntentType,
         local' = [local EXCEPT ![i] = a], UNCHANGED <<hidden, keys, asked, done, stale>>,
         NEW s, RunType(s), Actions!Goto(r, s),
         s.pc # "idle" => s.pc # "drop" /\ s.id = i /\ s.act = a,
         i = "delete" => a.state = "pending",
         \/ Carries(r, i) /\ a.key = run[r].act.key
         \/ local[i].state = "none" \/ a.key = local[i].key
  PROVE  ActionsInv'
<1>1. /\ DOMAIN run' = Runs /\ \A q \in Runs : RunType(run'[q])
      /\ run'[r] = s /\ \A q \in Runs \ {r} : run'[q] = run[q]
  BY OneRun
<1>2. /\ DOMAIN local' = Actions!Ids /\ local'[i] = a
      /\ \A j \in Actions!Ids \ {i} : local'[j] = local[j]
  BY DEF ActionsInv, ActionTypes
<1>3. a.state # "none"
  BY DEF IntentType
<1>4. ActionTypes'
  BY <1>1, <1>2 DEF ActionsInv, ActionTypes, Intents
<1>5. DeletesPending'
  BY <1>1, <1>2, ActionBounds DEF ActionsInv, DeletesPending
<1>6. Remembered'
  <2>1. \A q \in Runs : Carries(q, "delete")' =>
          run'[q].pc # "drop" \/ (q # r /\ Carries(q, "delete") /\ run[q].pc = "drop")
    BY <1>1 DEF Carries
  <2>2. CASE i = "delete"
    BY <1>2, <2>1, <2>2 DEF ActionsInv, Remembered
  <2>3. CASE i # "delete"
    BY <1>1, <1>2, <2>1, <2>3, ActionBounds DEF ActionsInv, Remembered, Undeleted, Carries
  <2> QED BY <2>2, <2>3
<1>7. ASSUME NEW j \in Receipts PROVE OneKey(j)'
  <2>0. j \in Actions!Ids
    BY ActionBounds
  <2>1. CASE j # i
    <3>1. \A q \in Runs : Carries(q, j)' => Carries(q, j) /\ run'[q] = run[q]
      BY <1>1, <2>1 DEF Carries
    <3> QED BY <1>2, <2>0, <2>1, <3>1 DEF ActionsInv, OneKey
  <2>2. CASE j = i
    <3> SUFFICES ASSUME stale[i] = {}
                 PROVE  /\ \A q \in Runs :
                             Carries(q, i)' => /\ a.state # "none" /\ run'[q].act.key = a.key
                                               /\ run'[q].pc # "drop"
                        /\ \A k \in 1 .. MaxKey :
                             <<i, k>> \in asked \/ k \in done[i] => a.state # "none" /\ k = a.key
      BY <1>2, <2>2 DEF OneKey
    <3>1. /\ \A q \in Runs :
               Carries(q, i) => /\ local[i].state # "none" /\ run[q].act.key = local[i].key
                                /\ run[q].pc # "drop"
          /\ \A k \in 1 .. MaxKey :
               <<i, k>> \in asked \/ k \in done[i] => local[i].state # "none" /\ k = local[i].key
      BY <2>2 DEF ActionsInv, OneKey
    <3>2. local[i].state = "none" \/ a.key = local[i].key
      BY <3>1
    <3>3. \A q \in Runs \ {r} : Carries(q, i)' => Carries(q, i) /\ run'[q] = run[q]
      BY <1>1 DEF Carries
    <3>4. Carries(r, i)' => run'[r].act.key = a.key /\ run'[r].pc # "drop"
      BY <1>1 DEF Carries
    <3> QED BY <1>3, <3>1, <3>2, <3>3, <3>4
  <2> QED BY <2>1, <2>2
<1> QED BY <1>4, <1>5, <1>6, <1>7 DEF ActionsInv

LEMMA TapKeeps ==
  ASSUME ActionsInv, NEW r \in Runs, NEW i \in Actions!Ids, Actions!Tap(r, i) PROVE ActionsInv'
<1>0. UNCHANGED <<local, hidden, asked, done, stale>> /\ keys \in 0 .. MaxKey
  BY DEF Actions!Tap, Actions!Server, ActionsInv, ActionTypes
<1>1. CASE local[i].state # "none" /\ UNCHANGED keys
           /\ Actions!Goto(r, [pc |-> "get", id |-> i, act |-> local[i], ask |-> TRUE])
  <2> DEFINE s == [pc |-> "get", id |-> i, act |-> local[i], ask |-> TRUE]
  <2>1. local[i] \in IntentType
    BY <1>1, IntentHeld
  <2>2. s \in Carrying /\ s.pc = "get" /\ s.id = i /\ s.act = local[i] /\ Actions!Goto(r, s)
    BY <1>1, <2>1 DEF Carrying
  <2>3. i = "delete" => local[i].state = "pending"
    BY <1>1 DEF ActionsInv, DeletesPending
  <2> HIDE DEF s
  <2>4. RunType(s)
    BY <2>2 DEF RunType
  <2> QED BY <1>0, <1>1, <2>2, <2>3, <2>4, RunKeeps
<1>2. CASE keys < MaxKey /\ keys' = keys + 1
           /\ Actions!Goto(r, [pc |-> "add", id |-> i, act |-> Actions!Intent("pending", keys + 1),
                               ask |-> TRUE])
  <2> DEFINE a == Actions!Intent("pending", keys + 1)
             s == [pc |-> "add", id |-> i, act |-> a, ask |-> TRUE]
  <2>1. keys + 1 \in 1 .. MaxKey /\ keys' \in 0 .. MaxKey /\ keys <= keys'
    BY <1>0, <1>2, ActionBounds
  <2>2. a \in IntentType /\ a.state = "pending"
    BY <2>1, NewIntent
  <2>3. Actions!Goto(r, s)
    BY <1>2
  <2> HIDE DEF a
  <2>4. s \in Carrying /\ s.pc = "add" /\ s.act = a
    BY <2>2 DEF Carrying
  <2> HIDE DEF s
  <2>5. RunType(s)
    BY <2>4 DEF RunType
  <2> QED BY <1>0, <2>1, <2>2, <2>3, <2>4, <2>5, RunKeeps
<1> QED BY <1>1, <1>2 DEF Actions!Tap

LEMMA AddKeeps ==
  ASSUME ActionsInv, NEW r \in Runs, Actions!Add(r) PROVE ActionsInv'
<1> DEFINE i == run[r].id
           a == IF local[i].state = "none" THEN run[r].act ELSE local[i]
           s == [run[r] EXCEPT !.pc = "get", !.act = a]
<1>1. run[r].pc = "add" /\ i \in Actions!Ids /\ run[r].act \in IntentType /\ run[r] \in Carrying
  BY RunAt DEF Actions!Add
<1>2. a \in IntentType
  BY <1>1, IntentHeld
<1>3. /\ local' = [local EXCEPT ![i] = a] /\ local'[i] = a
      /\ UNCHANGED <<hidden, keys, asked, done, stale>>
  BY <1>1 DEF Actions!Add, Actions!Server, ActionsInv, ActionTypes
<1>4. Actions!Goto(r, s)
  BY <1>3 DEF Actions!Add
<1>5. i = "delete" => a.state = "pending"
  BY <1>1 DEF ActionsInv, DeletesPending
<1>6. local[i].state = "none" \/ a.key = local[i].key
  OBVIOUS
<1> HIDE DEF a
<1>7. s \in Carrying /\ s.pc = "get" /\ s.id = i /\ s.act = a
  BY <1>1, <1>2 DEF Carrying
<1> HIDE DEF s, i
<1>8. RunType(s)
  BY <1>7 DEF RunType
<1> QED BY <1>1, <1>2, <1>3, <1>4, <1>5, <1>6, <1>7, <1>8, IntentPut

LEMMA SaveGetKeeps ==
  ASSUME ActionsInv, NEW r \in Runs, Actions!SaveGet(r) PROVE ActionsInv'
<1>0. /\ run[r].pc = "get" /\ run[r].id \in Actions!Ids /\ run[r].act \in IntentType
      /\ run[r] \in Carrying /\ keys \in 0 .. MaxKey /\ keys' = keys
      /\ UNCHANGED <<local, hidden, asked, done, stale>>
  BY RunAt DEF Actions!SaveGet, Actions!Server, ActionsInv, ActionTypes
<1>1. keys' \in 0 .. MaxKey /\ keys <= keys'
  BY <1>0, ActionBounds
<1>2. CASE Actions!Goto(r, Actions!Idle)
  BY <1>0, <1>1, <1>2, IdleIs, RunKeeps
<1>3. CASE ~Actions!Goto(r, Actions!Idle)
  <2> DEFINE b == Actions!Resumed(run[r].act)
             a == IF run[r].ask THEN b ELSE run[r].act
             s == [run[r] EXCEPT !.pc = "put", !.act = a]
  <2>1. b \in IntentType /\ b.key = run[r].act.key /\ b.state = "pending"
    <3>1. 0 \in 0 .. MaxAttempts
      BY ActionBounds
    <3> QED BY <1>0, <3>1 DEF Actions!Resumed, IntentType
  <2>2. Actions!Goto(r, s)
    <3>1. s = [run[r] EXCEPT !.pc = "put",
                             !.act = IF run[r].ask THEN Actions!Resumed(@) ELSE @]
      BY <1>0 DEF Carrying
    <3> QED BY <1>3, <3>1 DEF Actions!SaveGet
  <2> HIDE DEF b
  <2>3. /\ a \in IntentType /\ a.key = run[r].act.key
        /\ a.state \in {"pending", run[r].act.state}
    BY <1>0, <2>1
  <2> HIDE DEF a
  <2>4. s \in Carrying /\ s.pc = "put" /\ s.id = run[r].id /\ s.act = a
    BY <1>0, <2>3 DEF Carrying
  <2> HIDE DEF s
  <2>5. RunType(s)
    BY <2>4 DEF RunType
  <2>6. s.id = "delete" => s.act.state = "pending"
    BY <1>0, <2>3, <2>4 DEF ActionsInv, DeletesPending
  <2>7. Carries(r, s.id) /\ s.act.key = run[r].act.key
    BY <1>0, <2>3, <2>4 DEF Carries
  <2> QED BY <1>0, <1>1, <2>2, <2>4, <2>5, <2>6, <2>7, RunKeeps
<1> QED BY <1>2, <1>3

LEMMA SavePutKeeps ==
  ASSUME ActionsInv, NEW r \in Runs, Actions!SavePut(r) PROVE ActionsInv'
<1> DEFINE i == run[r].id
           a == run[r].act
           s == IF run[r].ask THEN [pc |-> "ask", id |-> i, act |-> a] ELSE Actions!Idle
<1>1. /\ run[r].pc = "put" /\ i \in Actions!Ids /\ a \in IntentType
      /\ local' = [local EXCEPT ![i] = a] /\ UNCHANGED <<hidden, keys, asked, done, stale>>
      /\ Actions!Goto(r, s)
  BY RunAt DEF Actions!SavePut, Actions!Server
<1>2. Carries(r, i)
  BY <1>1 DEF Carries
<1>3. i = "delete" => a.state = "pending"
  BY <1>1 DEF ActionsInv, DeletesPending
<1>4. RunType(s) /\ (s.pc # "idle" => s.pc # "drop" /\ s.id = i /\ s.act = a)
  <2>1. CASE run[r].ask
    <3>1. s \in Asking /\ s.pc = "ask" /\ s.id = i /\ s.act = a
      BY <1>1, <2>1 DEF Asking
    <3> HIDE DEF s
    <3> QED BY <3>1 DEF RunType
  <2>2. CASE ~run[r].ask
    BY <2>2, IdleIs
  <2> QED BY <2>1, <2>2
<1> HIDE DEF s, i
<1> QED BY <1>1, <1>2, <1>3, <1>4, IntentPut

LEMMA ReplayKeeps ==
  ASSUME ActionsInv, NEW r \in Runs, NEW i \in Actions!Ids, Actions!Replay(r, i) PROVE ActionsInv'
<1> DEFINE s == [pc |-> "ask", id |-> i, act |-> local[i]]
<1>1. /\ local[i].state = "pending" /\ Actions!Goto(r, s)
      /\ UNCHANGED <<local, hidden, keys, asked, done, stale>>
  BY DEF Actions!Replay, Actions!Ready, Actions!Server
<1>2. local[i] \in IntentType
  BY <1>1, IntentHeld
<1>3. s \in Asking /\ s.pc = "ask" /\ s.id = i /\ s.act = local[i]
  BY <1>2 DEF Asking
<1> HIDE DEF s
<1>4. RunType(s) /\ keys' \in 0 .. MaxKey /\ keys <= keys'
  BY <1>1, <1>3, ActionBounds DEF RunType, ActionsInv, ActionTypes
<1> QED BY <1>1, <1>3, <1>4, RunKeeps

LEMMA AskKeeps ==
  ASSUME ActionsInv, NEW r \in Runs, Actions!Ask(r) PROVE ActionsInv'
<1> DEFINE i == run[r].id
           k == run[r].act.key
           s == [run[r] EXCEPT !.pc = "asked"]
<1>1. /\ run[r].pc = "ask" /\ i \in Actions!Ids /\ run[r].act \in IntentType /\ run[r] \in Asking
      /\ asked' = asked \cup {<<i, k>>} /\ UNCHANGED <<local, hidden, keys, done, stale>>
      /\ Actions!Goto(r, s)
  BY RunAt DEF Actions!Ask
<1>2. k \in 1 .. MaxKey
  BY <1>1 DEF IntentType
<1>3. s \in Asking /\ s.pc = "asked" /\ s.id = i /\ s.act = run[r].act
  BY <1>1 DEF Asking
<1> HIDE DEF s, k
<1>4. RunType(s) /\ Carries(r, i)
  BY <1>1, <1>3 DEF RunType, Carries
<1>5. /\ DOMAIN run' = Runs /\ \A q \in Runs : RunType(run'[q])
      /\ run'[r] = s /\ \A q \in Runs \ {r} : run'[q] = run[q]
  BY <1>1, <1>4, OneRun
<1>6. \A q \in Runs, j \in Actions!Ids :
        /\ Carries(q, j)' <=> Carries(q, j)
        /\ run'[q].act = run[q].act /\ (run'[q].pc = "drop" <=> run[q].pc = "drop")
        /\ run'[q].pc = "idle" <=> run[q].pc = "idle"
        /\ run'[q].id = run[q].id
  <2>1. ASSUME NEW q \in Runs
        PROVE  \/ run'[q] = run[q]
               \/ /\ run[q].pc = "ask" /\ run'[q].pc = "asked" /\ run'[q].id = run[q].id
                  /\ run'[q].act = run[q].act
    BY <1>1, <1>3, <1>5
  <2> QED BY <2>1 DEF Carries
<1>7. ActionTypes'
  BY <1>1, <1>2, <1>5 DEF ActionsInv, ActionTypes
<1>8. DeletesPending'
  BY <1>1, <1>6, ActionBounds DEF ActionsInv, DeletesPending
<1>9. Remembered'
  <2>1. CASE i = "delete"
    <3>1. ~Undeleted
      BY <1>4, <2>1 DEF Undeleted
    <3> QED BY <1>1, <1>6, <3>1, ActionBounds DEF ActionsInv, Remembered
  <2>2. CASE i # "delete"
    <3>1. Undeleted => Undeleted'
      BY <1>1, <1>6, <2>2, ActionBounds DEF Undeleted
    <3> QED BY <1>1, <1>6, <3>1, ActionBounds DEF ActionsInv, Remembered
  <2> QED BY <2>1, <2>2
<1>10. ASSUME NEW j \in Receipts PROVE OneKey(j)'
  <2>1. j \in Actions!Ids
    BY ActionBounds
  <2>2. j = i /\ stale[j] = {} => local[j].state # "none" /\ k = local[j].key
    BY <1>4 DEF ActionsInv, OneKey, k
  <2>3. \A l \in 1 .. MaxKey : <<j, l>> \in asked' => <<j, l>> \in asked \/ (j = i /\ l = k)
    BY <1>1
  <2> QED BY <1>1, <1>6, <2>1, <2>2, <2>3 DEF ActionsInv, OneKey
<1> QED BY <1>7, <1>8, <1>9, <1>10 DEF ActionsInv

LEMMA ServeIntentKeeps ==
  ASSUME ActionsInv, NEW i \in Actions!Ids, NEW k \in 1 .. MaxKey, Actions!Serve(i, k)
  PROVE  ActionsInv'
<1>1. /\ <<i, k>> \in asked /\ UNCHANGED <<local, hidden, run, keys, asked, stale>>
      /\ done' \in [Actions!Ids -> SUBSET (1 .. MaxKey)]
      /\ done'[i] = done[i] \cup {k} /\ \A j \in Actions!Ids \ {i} : done'[j] = done[j]
  BY DEF Actions!Serve, ActionsInv, ActionTypes
<1>2. ActionTypes' /\ DeletesPending'
  BY <1>1 DEF ActionsInv, ActionTypes, DeletesPending
<1>3. Remembered'
  <2>1. Undeleted => Undeleted'
    BY <1>1, ActionBounds DEF Undeleted, Carries
  <2> QED BY <1>1, <2>1 DEF ActionsInv, Remembered, Carries
<1>4. ASSUME NEW j \in Receipts PROVE OneKey(j)'
  <2>1. j \in Actions!Ids
    BY ActionBounds
  <2> QED BY <1>1, <2>1 DEF ActionsInv, OneKey, Carries
<1> QED BY <1>2, <1>3, <1>4 DEF ActionsInv

LEMMA EditKeeps ==
  ASSUME ActionsInv, NEW i \in Actions!Ids, Actions!Edit(i) PROVE ActionsInv'
<1>1. /\ UNCHANGED <<local, hidden, run, keys, asked, done>> /\ stale' # stale
      /\ stale' \in [Actions!Ids -> SUBSET (1 .. keys)]
      /\ stale'[i] = 1 .. keys /\ \A j \in Actions!Ids \ {i} : stale'[j] = stale[j]
  BY DEF Actions!Edit, ActionsInv, ActionTypes
<1>2. stale'[i] # {}
  <2> SUFFICES ASSUME stale'[i] = {} PROVE FALSE
    OBVIOUS
  <2>1. stale[i] = {}
    BY <1>1 DEF ActionsInv, ActionTypes
  <2>2. \A j \in Actions!Ids : stale'[j] = stale[j]
    BY <1>1, <2>1
  <2>3. stale \in [Actions!Ids -> SUBSET (1 .. keys)]
    BY DEF ActionsInv, ActionTypes
  <2> QED BY <1>1, <2>2, <2>3
<1>3. ActionTypes' /\ DeletesPending'
  BY <1>1 DEF ActionsInv, ActionTypes, DeletesPending
<1>4. Remembered'
  BY <1>1, <1>2, ActionBounds DEF ActionsInv, Remembered, Undeleted, Carries
<1>5. ASSUME NEW j \in Receipts PROVE OneKey(j)'
  <2>1. j \in Actions!Ids
    BY ActionBounds
  <2> QED BY <1>1, <1>2, <2>1 DEF ActionsInv, OneKey, Carries
<1> QED BY <1>3, <1>4, <1>5 DEF ActionsInv

\* A run hears an answer: it goes on with its intent, under its key.
LEMMA HeardKeeps ==
  ASSUME ActionsInv, NEW r \in Runs, run[r].pc = "asked",
         NEW pc \in {"get", "drop", "erase", "erased"}, NEW a \in IntentType,
         Actions!Heard(r, pc, a), a.key = run[r].act.key,
         run[r].id = "delete" => a.state = "pending",
         pc = "drop" => run[r].id \notin Receipts \cup {"delete"} \/ stale[run[r].id] # {},
         UNCHANGED <<local, hidden, keys, asked, done, stale>>
  PROVE  ActionsInv'
<1> DEFINE s == [pc |-> pc, id |-> run[r].id, act |-> a, ask |-> FALSE]
<1>1. /\ s \in Carrying /\ s.pc = pc /\ s.id = run[r].id /\ s.act = a /\ Actions!Goto(r, s)
  BY RunAt DEF Carrying, Actions!Heard
<1> HIDE DEF s
<1>2. RunType(s) /\ keys' \in 0 .. MaxKey /\ keys <= keys' /\ Carries(r, s.id)
  BY <1>1, ActionBounds DEF RunType, Carries, ActionsInv, ActionTypes
<1> QED BY <1>1, <1>2, RunKeeps

LEMMA DeferredIs ==
  ASSUME NEW a \in IntentType, NEW offline \in BOOLEAN
  PROVE  /\ Actions!Deferred(a, offline) \in IntentType
         /\ Actions!Deferred(a, offline).key = a.key /\ Actions!Deferred(a, offline).state = a.state
<1>1. (IF a.attempts < MaxAttempts THEN a.attempts + 1 ELSE a.attempts) \in 0 .. MaxAttempts
  BY ActionBounds DEF IntentType
<1>2. (~offline /\ a.attempts + 1 >= MaxAttempts) \in BOOLEAN
  OBVIOUS
<1> DEFINE m == IF a.attempts < MaxAttempts THEN a.attempts + 1 ELSE a.attempts
           p == ~offline /\ a.attempts + 1 >= MaxAttempts
<1>3. Actions!Deferred(a, offline) = [a EXCEPT !.attempts = m, !.parked = p]
  BY DEF Actions!Deferred, IntentType
<1>4. m \in 0 .. MaxAttempts /\ p \in BOOLEAN
  BY <1>1, <1>2
<1> HIDE DEF m, p
<1> QED BY <1>3, <1>4 DEF IntentType

\* While nothing was edited the server refuses neither a change nor a deletion.
LEMMA RefusedForEdits ==
  ASSUME ActionsInv, NEW r \in Runs, run[r].pc = "asked",
         Actions!Refusable(run[r].id, run[r].act.key)
  PROVE  run[r].id \notin Receipts \cup {"delete"} \/ stale[run[r].id] # {}
<1> DEFINE i == run[r].id
           k == run[r].act.key
<1>1. i \in Actions!Ids /\ Carries(r, i)
  BY RunAt DEF Carries
<1>2. CASE i = "delete"
  BY <1>2 DEF Actions!Refusable
<1>3. CASE i \in Receipts
  <2> SUFFICES ASSUME stale[i] = {} PROVE FALSE
    OBVIOUS
  <2>1. i # "delete" /\ i # "retry"
    BY <1>3, ActionBounds
  <2>2. k \notin done[i] /\ ~Actions!Executable(i, k)
    BY <2>1 DEF Actions!Refusable
  <2>3. done[i] # {}
    BY <2>1, <2>2 DEF Actions!Executable
  <2>4. PICK l \in 1 .. MaxKey : l \in done[i]
    BY <1>1, <2>3 DEF ActionsInv, ActionTypes
  <2>5. l = local[i].key /\ k = local[i].key
    BY <1>1, <1>3, <2>4 DEF ActionsInv, OneKey
  <2> QED BY <2>2, <2>4, <2>5
<1> QED BY <1>2, <1>3

LEMMA HearAnswerKeeps ==
  ASSUME ActionsInv, NEW r \in Runs, Actions!Hear(r) PROVE ActionsInv'
<1>0. /\ run[r].pc = "asked" /\ run[r].id \in Actions!Ids /\ run[r].act \in IntentType
      /\ UNCHANGED <<local, hidden, keys, asked, done, stale>>
      /\ run[r].id = "delete" => run[r].act.state = "pending"
  BY RunAt DEF Actions!Hear, Actions!Server, ActionsInv, DeletesPending
<1>1. PICK reply \in Actions!Reply(run[r].id, run[r].act.key) :
        \/ reply = "ok" /\ run[r].id \in Actions!Undos
           /\ Actions!Heard(r, "get", [run[r].act EXCEPT !.state = "consumed"])
        \/ reply = "ok" /\ run[r].id = "delete" /\ Actions!Heard(r, "erase", run[r].act)
        \/ reply = "ok" /\ run[r].id = "retry" /\ Actions!Heard(r, "drop", run[r].act)
        \/ reply = "missing" /\ Actions!Heard(r, "erased", run[r].act)
        \/ reply = "refused" /\ Actions!Heard(r, "drop", run[r].act)
        \/ reply \in {"lost", "busy"} /\ Actions!Heard(r, "get", Actions!Deferred(run[r].act, reply = "lost"))
  BY DEF Actions!Hear
<1>2. CASE run[r].id \in Actions!Undos
           /\ Actions!Heard(r, "get", [run[r].act EXCEPT !.state = "consumed"])
  <2> DEFINE a == [run[r].act EXCEPT !.state = "consumed"]
  <2>1. a \in IntentType /\ a.key = run[r].act.key
    BY <1>0 DEF IntentType
  <2>2. run[r].id # "delete"
    BY <1>2, ActionBounds DEF Actions!Undos
  <2> HIDE DEF a
  <2>3. Actions!Heard(r, "get", a)
    BY <1>2 DEF a
  <2> QED BY <1>0, <2>1, <2>2, <2>3, HeardKeeps
<1>3. CASE Actions!Heard(r, "erase", run[r].act) \/ Actions!Heard(r, "erased", run[r].act)
  BY <1>0, <1>3, HeardKeeps
<1>4. CASE run[r].id = "retry" /\ Actions!Heard(r, "drop", run[r].act)
  BY <1>0, <1>4, ActionBounds, HeardKeeps
<1>5. CASE reply = "refused" /\ Actions!Heard(r, "drop", run[r].act)
  <2>1. Actions!Refusable(run[r].id, run[r].act.key)
    BY <1>5 DEF Actions!Reply
  <2> QED BY <1>0, <1>5, <2>1, RefusedForEdits, HeardKeeps
<1>6. CASE Actions!Heard(r, "get", Actions!Deferred(run[r].act, reply = "lost"))
  <2> DEFINE a == Actions!Deferred(run[r].act, reply = "lost")
  <2>1. a \in IntentType /\ a.key = run[r].act.key /\ a.state = run[r].act.state
    BY <1>0, DeferredIs
  <2> HIDE DEF a
  <2>2. Actions!Heard(r, "get", a)
    BY <1>6 DEF a
  <2> QED BY <1>0, <2>1, <2>2, HeardKeeps
<1> QED BY <1>1, <1>2, <1>3, <1>4, <1>5, <1>6

LEMMA DropKeeps ==
  ASSUME ActionsInv, NEW r \in Runs, Actions!Drop(r) PROVE ActionsInv'
<1> DEFINE i == run[r].id
<1>1. /\ run[r].pc = "drop" /\ i \in Actions!Ids /\ Actions!Goto(r, Actions!Idle)
      /\ DOMAIN local' = Actions!Ids /\ local'[i] = Actions!NoIntent
      /\ \A j \in Actions!Ids \ {i} : local'[j] = local[j]
      /\ UNCHANGED <<hidden, keys, asked, done, stale>>
  BY RunAt DEF Actions!Drop, Actions!Server, ActionsInv, ActionTypes
<1>2. /\ DOMAIN run' = Runs /\ \A q \in Runs : RunType(run'[q])
      /\ run'[r] = Actions!Idle /\ \A q \in Runs \ {r} : run'[q] = run[q]
  BY <1>1, IdleIs, OneRun
<1>3. Carries(r, i)
  BY <1>1 DEF Carries
<1>4. \A q \in Runs, j \in Actions!Ids : Carries(q, j)' => Carries(q, j) /\ run'[q] = run[q]
  BY <1>2, IdleIs DEF Carries
<1>5. ActionTypes'
  <2>1. local' \in [Actions!Ids -> Intents]
    <3>1. local' = [local EXCEPT ![i] = Actions!NoIntent] /\ Actions!NoIntent \in Intents
      BY DEF Actions!Drop, Intents
    <3> QED BY <3>1 DEF ActionsInv, ActionTypes
  <2> QED BY <1>1, <1>2, <2>1 DEF ActionsInv, ActionTypes
<1>6. DeletesPending'
  BY <1>1, <1>2, IdleIs, NoIntentIs, ActionBounds DEF ActionsInv, DeletesPending
<1>7. Remembered'
  <2> SUFFICES ASSUME stale["delete"] = {} PROVE Remembered'
    BY <1>1 DEF Remembered
  <2>1. i # "delete"
    BY <1>1, <1>3 DEF ActionsInv, Remembered
  <2> QED BY <1>1, <1>4, <2>1, ActionBounds DEF ActionsInv, Remembered, Undeleted
<1>8. ASSUME NEW j \in Receipts PROVE OneKey(j)'
  <2> SUFFICES ASSUME stale[j] = {} PROVE OneKey(j)'
    BY <1>1 DEF OneKey
  <2>1. j # i /\ j \in Actions!Ids
    BY <1>1, <1>3, ActionBounds DEF ActionsInv, OneKey
  <2> QED BY <1>1, <1>4, <2>1 DEF ActionsInv, OneKey
<1> QED BY <1>5, <1>6, <1>7, <1>8 DEF ActionsInv

LEMMA CompleteKeeps ==
  ASSUME ActionsInv, NEW r \in Runs, Actions!CompleteDeletion(r) PROVE ActionsInv'
<1>1. hidden' = TRUE /\ Actions!Goto(r, Actions!Idle) /\ UNCHANGED <<asked, done, stale>>
  BY DEF Actions!CompleteDeletion, Actions!Server
<1>2. /\ DOMAIN run' = Runs /\ \A q \in Runs : RunType(run'[q])
      /\ run'[r] = Actions!Idle /\ \A q \in Runs \ {r} : run'[q] = run[q]
  BY <1>1, IdleIs, OneRun
<1>3. \A q \in Runs, j \in Actions!Ids : Carries(q, j)' => Carries(q, j) /\ run'[q] = run[q]
  BY <1>2, IdleIs DEF Carries
<1>4. /\ keys \in 0 .. MaxKey /\ keys' \in 0 .. MaxKey /\ 1 .. keys \subseteq 1 .. keys'
      /\ local' = [j \in Actions!Ids |-> local'[j]] /\ local'["delete"] = Actions!NoIntent
      /\ \A j \in Actions!Ids \ {"delete"} :
           \/ local'[j] = local[j]
           \/ j \in Removals /\ local'[j] \in IntentType
  <2>1. keys \in 0 .. MaxKey /\ local \in [Actions!Ids -> Intents]
    BY DEF ActionsInv, ActionTypes
  <2>2. CASE /\ keys < MaxKey /\ keys' = keys + 1
             /\ local' = [i \in Actions!Ids |->
                  IF i = "delete" THEN Actions!NoIntent
                  ELSE IF i \in Removals THEN Actions!Intent("available", keys + 1) ELSE local[i]]
    <3>1. keys + 1 \in 1 .. MaxKey
      BY <2>1, <2>2, ActionBounds
    <3>2. Actions!Intent("available", keys + 1) \in IntentType
      BY <3>1, NewIntent
    <3> QED BY <2>1, <2>2, <3>1, <3>2, ActionBounds
  <2>3. CASE local' = [local EXCEPT !["delete"] = Actions!NoIntent] /\ UNCHANGED keys
    BY <2>1, <2>3, ActionBounds
  <2> QED BY <2>2, <2>3 DEF Actions!CompleteDeletion
<1>5. ActionTypes'
  <2>1. \A j \in Actions!Ids : local'[j] \in Intents
    BY <1>4 DEF ActionsInv, ActionTypes, Intents
  <2>2. stale' \in [Actions!Ids -> SUBSET (1 .. keys')]
    BY <1>1, <1>4 DEF ActionsInv, ActionTypes
  <2>3. local' \in [Actions!Ids -> Intents]
    BY <1>4, <2>1
  <2> QED BY <1>1, <1>2, <1>4, <2>2, <2>3 DEF ActionsInv, ActionTypes
<1>6. DeletesPending'
  BY <1>2, <1>4, IdleIs, NoIntentIs DEF ActionsInv, DeletesPending
<1>7. Remembered'
  BY <1>1, <1>3, ActionBounds DEF ActionsInv, Remembered
<1>8. ASSUME NEW j \in Receipts PROVE OneKey(j)'
  <2>1. j \in Actions!Ids /\ local'[j] = local[j]
    BY <1>4, ActionBounds
  <2> QED BY <1>1, <1>3, <2>1 DEF ActionsInv, OneKey
<1> QED BY <1>5, <1>6, <1>7, <1>8 DEF ActionsInv

LEMMA CloseRunKeeps ==
  ASSUME ActionsInv, NEW r \in Runs, Actions!Close(r) PROVE ActionsInv'
<1>1. /\ Actions!Goto(r, Actions!Idle) /\ UNCHANGED <<local, hidden, keys, asked, done, stale>>
      /\ keys' \in 0 .. MaxKey /\ keys <= keys'
  BY ActionBounds DEF Actions!Close, Actions!Server, ActionsInv, ActionTypes
<1> QED BY <1>1, IdleIs, RunKeeps

LEMMA ActionsStepKeeps ==
  ASSUME ActionsInv, Actions!Next PROVE ActionsInv'
<1>1. ASSUME NEW r \in Runs, Actions!Step(r) PROVE ActionsInv'
  BY <1>1, AddKeeps, SaveGetKeeps, SavePutKeeps, AskKeeps, HearAnswerKeeps, DropKeeps, CompleteKeeps
  DEF Actions!Step
<1> QED BY <1>1, CloseRunKeeps, TapKeeps, ReplayKeeps, EditKeeps, ServeIntentKeeps
    DEF Actions!Next

LEMMA ActionsStutterKeeps ==
  ASSUME ActionsInv, UNCHANGED actionVars PROVE ActionsInv'
BY DEF ActionsInv, actionVars, ActionTypes, DeletesPending, Remembered, Undeleted, OneKey, Carries

LEMMA ActionsInvSuffices ==
  ASSUME ActionsInv
  PROVE  Actions!TypeOK /\ Actions!ReaskedUnderItsKey /\ Actions!DeletionRemembered
<1> DEFINE T == [state : {"none", "available", "pending", "consumed"}, key : 0 .. MaxKey,
                 attempts : 0 .. MaxAttempts, parked : BOOLEAN]
<1>1. local \in [Actions!Ids -> T]
  <2>1. Actions!NoIntent \in T
    BY ActionBounds DEF Actions!NoIntent, Actions!Intent
  <2>2. IntentType \subseteq T
    BY DEF IntentType
  <2>3. local = [i \in Actions!Ids |-> local[i]]
    BY DEF ActionsInv, ActionTypes, Intents
  <2> HIDE DEF T
  <2>4. \A i \in Actions!Ids : local[i] \in T
    BY <2>1, <2>2 DEF ActionsInv, ActionTypes, Intents
  <2> QED BY <2>3, <2>4
<1>2. ASSUME NEW r \in Runs
      PROVE  /\ run[r].pc \in {"idle", "add", "get", "put", "ask", "asked", "drop", "erase", "erased"}
             /\ run[r] # Actions!Idle => run[r].id \in Actions!Ids
  BY DEF ActionsInv, ActionTypes, RunType, Carrying, Asking, Actions!Idle
<1>3. stale \in [Actions!Ids -> SUBSET (1 .. MaxKey)]
  BY ActionBounds DEF ActionsInv, ActionTypes
<1>4. Actions!TypeOK
  BY <1>1, <1>2, <1>3 DEF ActionsInv, ActionTypes, Actions!TypeOK
<1>5. Actions!ReaskedUnderItsKey
  <2> SUFFICES ASSUME NEW i \in Receipts, done[i] # {}, stale[i] = {}
               PROVE  local[i].key \in done[i]
    BY DEF Actions!ReaskedUnderItsKey
  <2>1. PICK k \in 1 .. MaxKey : k \in done[i]
    BY ActionBounds DEF ActionsInv, ActionTypes
  <2> QED BY <2>1 DEF ActionsInv, OneKey
<1>6. Actions!DeletionRemembered
  BY DEF ActionsInv, Remembered, Undeleted, Actions!DeletionRemembered
<1> QED BY <1>4, <1>5, <1>6

-----------------------------------------------------------------------------
(* The search.                                                             *)

Lists == [items : SUBSET Notes, cursor : Search!Cursors, filter : Search!Filters,
          base : [Notes -> Search!NoteType]]
HookType == [filter : Search!Filters, shown : Lists \cup {Search!Nothing}, loading : BOOLEAN,
             more : BOOLEAN, failed : BOOLEAN, toggles : 0 .. MaxToggles]
Asks == [latest : BOOLEAN, filter : Search!Filters, cursor : Search!Cursors, append : BOOLEAN]
Failures == [latest : BOOLEAN, append : BOOLEAN, ok : {FALSE}]
Pages == [items : SUBSET Notes, cursor : Search!Cursors]
Replies == [latest : BOOLEAN, append : BOOLEAN, ok : {TRUE}, filter : Search!Filters,
            base : [Notes -> Search!NoteType], page : Pages]
SearchTypes ==
  /\ note \in [Notes -> Search!NoteType] /\ hook \in HookType
  /\ sent \subseteq Asks /\ answered \subseteq Failures \cup Replies

\* A note with the content m comes after the cursor c.
After(c, m, n) == c.score > m.score \/ (c.score = m.score /\ c.note < n)

\* The notes were once as in base, and an edit shows in their revision.
Kept(base) ==
  \A n \in Notes : /\ base[n].rev <= note[n].rev
                   /\ base[n].rev = note[n].rev => base[n] = note[n]

\* A page has all that matched between its two cursors; its own is of its filter.
HasAll(base, filter, from, page) ==
  /\ page.cursor = Search!NoCursor \/ page.cursor.filter = filter
  /\ \A n \in Notes :
       /\ Search!Matches(base[n], filter)
       /\ from # Search!NoCursor => After(from, base[n], n)
       /\ page.cursor = Search!NoCursor \/ ~After(page.cursor, base[n], n)
       => n \in page.items

\* A list has all that matched up to its cursor and has not changed since.
Covers(list) ==
  /\ list.cursor = Search!NoCursor \/ list.cursor.filter = list.filter
  /\ \A n \in Notes :
       /\ Search!Matches(list.base[n], list.filter) /\ note[n] = list.base[n]
       /\ list.cursor = Search!NoCursor \/ ~After(list.cursor, note[n], n)
       => n \in list.items

Listed == hook.shown # Search!Nothing => Kept(hook.shown.base) /\ Covers(hook.shown)

\* Whatever is asked or answered last, if it is to be appended it begins where
\* the list that is shown ends.
Appendable == hook.shown # Search!Nothing /\ hook.shown.cursor # Search!NoCursor
OneLatest ==
  /\ \A r1, r2 \in sent : r1.latest /\ r2.latest => r1 = r2
  /\ \A a1, a2 \in answered : a1.latest /\ a2.latest => a1 = a2
  /\ \A r \in sent, a \in answered : ~(r.latest /\ a.latest)
Asked(r) ==
  r.latest => IF r.append THEN Appendable /\ r.cursor = hook.shown.cursor
              ELSE r.cursor = Search!NoCursor
Told(a) ==
  a.latest =>
    /\ a.append => Appendable
    /\ a.ok => /\ Kept(a.base)
               /\ a.append => /\ a.filter = hook.shown.filter
                              /\ \A n \in Notes : hook.shown.base[n].rev <= a.base[n].rev
               /\ HasAll(a.base, a.filter,
                         IF a.append THEN hook.shown.cursor ELSE Search!NoCursor, a.page)

SearchInv ==
  /\ SearchTypes /\ Listed /\ OneLatest
  /\ \A r \in sent : Asked(r)
  /\ \A a \in answered : Told(a)

LEMMA SearchSets ==
  ASSUME NEW S
  PROVE  /\ Search!IsFiniteSet(S) <=> IsFiniteSet(S)
         /\ Search!Cardinality(S) = Cardinality(S)
<1>1. Search!IsFiniteSet(S) <=> IsFiniteSet(S)
  BY DEF Search!IsFiniteSet, IsFiniteSet
<1>2. Search!Cardinality(S) = Cardinality(S)
  BY DEF Search!Cardinality, Cardinality
<1> QED BY <1>1, <1>2

LEMMA SearchBounds ==
  /\ Notes \subseteq Nat \ {0} /\ IsFiniteSet(Notes)
  /\ MaxScore \in Nat /\ Limit \in Nat \ {0} /\ MaxToggles \in Nat
BY BrowserAssumption, SearchSets DEF Search!SearchAssumption, Search!TogglesAssumption

LEMMA NoCursorIsCursor ==
  /\ Search!NoCursor \in Search!Cursors /\ Search!NoCursor.note = 0
BY SearchBounds DEF Search!NoCursor, Search!Cursors, Search!Filters

LEMMA NothingIsNoList ==
  /\ Search!Nothing.cursor = Search!NoCursor /\ Search!Nothing.items = {}
  /\ Search!Nothing \notin Lists
BY DEF Search!Nothing, Lists, Search!Filters

\* The results of a search are in one order, the best first.
Order == {p \in Notes \X Notes : Search!Before(p[1], p[2])}

LEMMA OrderIsStrict ==
  ASSUME note \in [Notes -> Search!NoteType], NEW S, S \subseteq Notes
  PROVE  StrictOrder(Order, S)
<1>1. \A n \in Notes : note[n].score \in Int /\ n \in Int
  BY SearchBounds DEF Search!NoteType
<1>2. \A x, y \in Notes :
        <<x, y>> \in Order <=>
          note[x].score > note[y].score \/ (note[x].score = note[y].score /\ x < y)
  BY DEF Order, Search!Before
<1> QED BY <1>1, <1>2 DEF StrictOrder

\* A page holds all the pool has up to the page's cursor.
LEMMA PageIsWhole ==
  ASSUME note \in [Notes -> Search!NoteType], NEW filter \in Search!Filters, NEW c \in Search!Cursors
  PROVE  /\ Search!Page(filter, c) \in Pages
         /\ HasAll(note, filter, c, Search!Page(filter, c))
<1> DEFINE P == Search!Pool(filter, c)
           I == {n \in P : Search!Cardinality({m \in P : Search!Before(m, n)}) < Limit}
           last == CHOOSE n \in I : \A m \in I \ {n} : Search!Before(m, n)
           next == [note |-> last, rev |-> note[last].rev, score |-> note[last].score,
                    filter |-> filter]
           page == Search!Page(filter, c)
<1>1. page = [items |-> I, cursor |-> IF I = P THEN Search!NoCursor ELSE next]
  BY DEF Search!Page
<1>2. P \subseteq Notes /\ IsFiniteSet(P)
  <2>1. P \subseteq Notes
    BY DEF Search!Pool, Search!Found
  <2> QED BY <2>1, SearchBounds, FS_Subset
<1>4. \A n \in Notes :
        /\ Search!Matches(note[n], filter)
        /\ c # Search!NoCursor => After(c, note[n], n)
        => n \in P
  BY DEF Search!Pool, Search!Found, Search!Stands, Search!Before, After
<1> HIDE DEF P, I, next, page
<1>3. /\ page.items = I
      /\ page.cursor = IF I = P THEN Search!NoCursor ELSE next
  BY <1>1
<1>5. I = FirstOf(Limit, Order, P)
  <2>1. ASSUME NEW n \in P PROVE {m \in P : Search!Before(m, n)} = Ahead(n, Order, P)
    BY <1>2 DEF Ahead, Order
  <2> QED BY <2>1, SearchSets DEF FirstOf, I
<1>6. StrictOrder(Order, P)
  BY <1>2, OrderIsStrict
<1>7. I \subseteq P
  BY DEF I
<1>8. CASE I = P
  <2>1. page \in Pages
    BY <1>1, <1>2, <1>8, NoCursorIsCursor DEF Pages, page
  <2>2. HasAll(note, filter, c, page)
    BY <1>3, <1>4, <1>8 DEF HasAll
  <2> QED BY <2>1, <2>2 DEF page
<1>9. CASE I # P
  <2>1. \E n \in I : \A m \in I \ {n} : <<m, n>> \in Order
    BY <1>2, <1>5, <1>6, <1>9, SearchBounds, FirstHasLast
  <2>2. last \in I /\ \A m \in I \ {last} : Search!Before(m, last)
    BY <1>2, <1>7, <2>1 DEF Order
  <2> HIDE DEF last
  <2>3. last \in Notes /\ last # 0
    BY <1>2, <1>7, <2>2, SearchBounds
  <2>4. next \in Search!Cursors /\ next.note = last /\ next.score = note[last].score
    BY <2>3 DEF Search!Cursors, Search!NoteType, next
  <2>10. next.filter = filter
    BY DEF next
  <2>5. page.cursor = next
    BY <1>3, <1>9
  <2>6. page \in Pages
    BY <1>1, <1>2, <1>7, <1>9, <2>4 DEF Pages, page
  <2>7. ASSUME NEW n \in P, ~After(next, note[n], n) PROVE n \in I
    <3>1. n \in Notes /\ note[n].score \in Int /\ n \in Int
          /\ note[last].score \in Int /\ last \in Int
      BY <1>2, <2>3, SearchBounds DEF Search!NoteType
    <3>2. n = last \/ Search!Before(n, last)
      BY <2>4, <2>7, <3>1 DEF After, Search!Before
    <3>3. CASE Search!Before(n, last)
      <4>1. <<n, last>> \in Order
        BY <2>3, <3>1, <3>3 DEF Order
      <4> QED BY <1>2, <1>5, <1>6, <2>2, <4>1, SearchBounds, FirstIsDownward
    <3> QED BY <2>2, <3>2, <3>3
  <2>8. next # Search!NoCursor
    BY <2>3, <2>4, NoCursorIsCursor
  <2>9. HasAll(note, filter, c, page)
    BY <1>3, <1>4, <2>5, <2>7, <2>8, <2>10 DEF HasAll
  <2> QED BY <2>6, <2>9 DEF page
<1> QED BY <1>8, <1>9

LEMMA SearchBegins ==
  ASSUME Search!Init PROVE SearchInv
<1>1. note \in [Notes -> Search!NoteType]
  <2>1. [score : 0 .. MaxScore, archived : BOOLEAN, rev : {0}] \subseteq Search!NoteType
    BY DEF Search!NoteType
  <2> HIDE DEF Search!NoteType
  <2> QED BY <2>1 DEF Search!Init
<1>2. hook \in HookType /\ hook.shown = Search!Nothing
  <2>1. 0 \in 0 .. MaxToggles
    BY SearchBounds
  <2> QED BY <2>1 DEF Search!Init, HookType, Search!Filters
<1> DEFINE ask == [latest |-> TRUE, filter |-> "live", cursor |-> Search!NoCursor, append |-> FALSE]
<1>3. ask \in Asks /\ ~ask.append /\ ask.cursor = Search!NoCursor
  BY NoCursorIsCursor DEF Asks, Search!Filters
<1>4. sent = {ask} /\ answered = {}
  BY DEF Search!Init
<1> HIDE DEF ask
<1> QED BY <1>1, <1>2, <1>3, <1>4
        DEF SearchInv, SearchTypes, Listed, OneLatest, Asked

LEMMA SearchEditKeeps ==
  ASSUME SearchInv, NEW n \in Notes, Search!Edit(n) PROVE SearchInv'
<1>1. PICK score \in 0 .. MaxScore, archived \in BOOLEAN :
        note' = [note EXCEPT ![n] = [score |-> score, archived |-> archived, rev |-> @.rev + 1]]
  BY DEF Search!Edit, Search!Edited
<1> DEFINE m == [score |-> score, archived |-> archived, rev |-> note[n].rev + 1]
<1>2. note \in [Notes -> Search!NoteType] /\ note[n].rev \in Nat
  BY DEF SearchInv, SearchTypes, Search!NoteType
<1>3. m \in Search!NoteType /\ m.rev = note[n].rev + 1
  BY <1>2, SearchBounds DEF Search!NoteType
<1> HIDE DEF m
<1>4. /\ note' \in [Notes -> Search!NoteType] /\ note'[n] = m
      /\ \A k \in Notes \ {n} : note'[k] = note[k]
  BY <1>1, <1>2, <1>3 DEF m
<1>5. UNCHANGED <<hook, sent, answered>>
  BY DEF Search!Edit
<1>6. ASSUME NEW base \in [Notes -> Search!NoteType], Kept(base)
      PROVE  /\ \A k \in Notes : /\ base[k].rev <= note'[k].rev
                                 /\ base[k].rev = note'[k].rev => base[k] = note'[k]
             /\ \A k \in Notes : note'[k] = base[k] => note[k] = base[k]
  <2>1. base[n].rev \in Nat /\ base[n].rev <= note[n].rev
    BY <1>6 DEF Kept, Search!NoteType
  <2> QED BY <1>2, <1>3, <1>4, <1>6, <2>1 DEF Kept
<1>7. Listed'
  <2> SUFFICES ASSUME hook.shown # Search!Nothing
               PROVE  Kept(hook.shown.base)' /\ Covers(hook.shown)'
    BY <1>5 DEF Listed
  <2>1. hook.shown \in Lists /\ Kept(hook.shown.base) /\ Covers(hook.shown)
    BY DEF SearchInv, SearchTypes, HookType, Listed
  <2>2. hook.shown.base \in [Notes -> Search!NoteType]
    BY <2>1 DEF Lists
  <2>3. Kept(hook.shown.base)'
    BY <1>5, <1>6, <2>1, <2>2 DEF Kept
  <2>4. Covers(hook.shown)'
    BY <1>5, <1>6, <2>1, <2>2 DEF Covers
  <2> QED BY <2>3, <2>4
<1>8. ASSUME NEW a \in answered PROVE Told(a)'
  <2>1. a.ok => a \in Replies
    BY DEF SearchInv, SearchTypes, Failures
  <2>2. a.ok => a.base \in [Notes -> Search!NoteType]
    BY <2>1 DEF Replies
  <2>3. a.latest /\ a.ok => Kept(a.base)'
    BY <1>6, <2>2 DEF SearchInv, Told, Kept
  <2> QED BY <1>5, <2>3 DEF SearchInv, Told, Appendable
<1> QED BY <1>4, <1>5, <1>7, <1>8
        DEF SearchInv, SearchTypes, OneLatest, Asked, Appendable

\* What is still on its way when the hook asks again.
LEMMA OutdatedMessages ==
  ASSUME SearchInv
  PROVE  /\ Search!Outdated(sent) \subseteq Asks /\ \A r \in Search!Outdated(sent) : ~r.latest
         /\ Search!Outdated(answered) \subseteq Failures \cup Replies
         /\ \A a \in Search!Outdated(answered) : ~a.latest
<1>1. ASSUME NEW m \in sent
      PROVE  [m EXCEPT !.latest = FALSE] \in Asks /\ ~[m EXCEPT !.latest = FALSE].latest
  BY DEF SearchInv, SearchTypes, Asks
<1>2. ASSUME NEW m \in answered
      PROVE  LET a == [m EXCEPT !.latest = FALSE] IN a \in Failures \cup Replies /\ ~a.latest
  <2>1. CASE m \in Failures
    BY <2>1 DEF Failures
  <2>2. CASE m \in Replies
    BY <2>2 DEF Replies
  <2> QED BY <2>1, <2>2 DEF SearchInv, SearchTypes
<1> QED BY <1>1, <1>2 DEF Search!Outdated

\* The hook asks; what it shows stays.
LEMMA RunKeepsSearch ==
  ASSUME SearchInv, NEW h \in HookType, h.shown = hook.shown,
         NEW filter \in Search!Filters, NEW c \in Search!Cursors, NEW append \in BOOLEAN,
         IF append THEN Appendable /\ c = hook.shown.cursor ELSE c = Search!NoCursor,
         Search!Run(h, filter, c, append), note' = note
  PROVE  SearchInv'
<1> DEFINE ask == [latest |-> TRUE, filter |-> filter, cursor |-> c, append |-> append]
<1>1. ask \in Asks /\ ask.cursor = c /\ ask.append = append
  BY DEF Asks
<1>2. /\ sent' = Search!Outdated(sent) \cup {ask} /\ answered' = Search!Outdated(answered)
      /\ hook' = h
  BY DEF Search!Run
<1> HIDE DEF ask
<1>3. /\ Search!Outdated(sent) \subseteq Asks /\ \A r \in Search!Outdated(sent) : ~r.latest
      /\ Search!Outdated(answered) \subseteq Failures \cup Replies
      /\ \A a \in Search!Outdated(answered) : ~a.latest
  BY OutdatedMessages
<1> HIDE DEF Search!Outdated
<1>4. SearchTypes'
  BY <1>1, <1>2, <1>3 DEF SearchInv, SearchTypes
<1>5. Listed'
  BY <1>2 DEF SearchInv, Listed, Kept, Covers
<1>6. OneLatest'
  BY <1>2, <1>3 DEF OneLatest
<1>7. \A r \in sent' : Asked(r)'
  BY <1>1, <1>2, <1>3 DEF Asked, Appendable
<1>8. \A a \in answered' : Told(a)'
  BY <1>2, <1>3 DEF Told
<1> QED BY <1>4, <1>5, <1>6, <1>7, <1>8 DEF SearchInv

LEMMA ToggleKeeps ==
  ASSUME SearchInv, Search!Toggle PROVE SearchInv'
<1> DEFINE other == IF hook.filter = "live" THEN "all" ELSE "live"
           h == [hook EXCEPT !.filter = other, !.loading = TRUE, !.toggles = @ + 1, !.failed = FALSE]
<1>1. other \in Search!Filters
  BY DEF Search!Filters
<1>2. Search!Run(h, other, Search!NoCursor, FALSE) /\ note' = note
  BY DEF Search!Toggle
<1> HIDE DEF other
<1>3. hook \in HookType /\ hook.toggles + 1 \in 0 .. MaxToggles
  BY SearchBounds DEF SearchInv, SearchTypes, HookType, Search!Toggle
<1>4. h \in HookType /\ h.shown = hook.shown
  BY <1>1, <1>3 DEF HookType
<1> HIDE DEF h
<1> QED BY <1>1, <1>2, <1>4, NoCursorIsCursor, RunKeepsSearch

LEMMA LoadMoreKeeps ==
  ASSUME SearchInv, Search!LoadMore PROVE SearchInv'
<1> DEFINE h == [hook EXCEPT !.more = TRUE]
           c == hook.shown.cursor
<1>1. Search!Run(h, hook.filter, c, TRUE) /\ note' = note /\ c # Search!NoCursor
  BY DEF Search!LoadMore
<1>2. hook \in HookType
  BY DEF SearchInv, SearchTypes
<1>3. h \in HookType /\ h.shown = hook.shown
  BY <1>2 DEF HookType
<1>4. hook.shown # Search!Nothing
  BY <1>1, NothingIsNoList
<1>5. hook.filter \in Search!Filters /\ c \in Search!Cursors
  BY <1>2, <1>4 DEF HookType, Lists
<1>6. Appendable
  BY <1>1, <1>4 DEF Appendable
<1> HIDE DEF h
<1> QED BY <1>1, <1>3, <1>5, <1>6, RunKeepsSearch

LEMMA RetryKeeps ==
  ASSUME SearchInv, Search!Retry PROVE SearchInv'
<1> DEFINE h == [hook EXCEPT !.loading = TRUE, !.failed = FALSE]
<1>1. Search!Run(h, hook.filter, Search!NoCursor, FALSE) /\ note' = note
  BY DEF Search!Retry
<1>2. hook \in HookType
  BY DEF SearchInv, SearchTypes
<1>3. h \in HookType /\ h.shown = hook.shown /\ hook.filter \in Search!Filters
  BY <1>2 DEF HookType
<1> HIDE DEF h
<1> QED BY <1>1, <1>3, NoCursorIsCursor, RunKeepsSearch

\* A request r comes to an answer a.
LEMMA AnswerKeeps ==
  ASSUME SearchInv, NEW r \in sent, NEW a \in Failures \cup Replies,
         sent' = sent \ {r}, answered' = answered \cup {a}, UNCHANGED <<note, hook>>,
         a.latest = r.latest, Told(a)
  PROVE  SearchInv'
<1>1. SearchTypes'
  BY DEF SearchInv, SearchTypes
<1>2. Listed'
  BY DEF SearchInv, Listed, Kept, Covers
<1>3. OneLatest'
  <2>1. OneLatest
    BY DEF SearchInv
  <2>2. \A r1, r2 \in sent' : r1.latest /\ r2.latest => r1 = r2
    BY <2>1 DEF OneLatest
  <2>3. r.latest => \A b \in answered : ~b.latest
    BY <2>1 DEF OneLatest
  <2>4. \A a1, a2 \in answered' : a1.latest /\ a2.latest => a1 = a2
    BY <2>1, <2>3 DEF OneLatest
  <2>5. r.latest => \A q \in sent' : ~q.latest
    BY <2>1 DEF OneLatest
  <2>6. \A q \in sent', b \in answered' : ~(q.latest /\ b.latest)
    BY <2>1, <2>5 DEF OneLatest
  <2> QED BY <2>2, <2>4, <2>6 DEF OneLatest
<1>4. \A q \in sent' : Asked(q)'
  BY DEF SearchInv, Asked, Appendable
<1>5. \A b \in answered' : Told(b)'
  BY DEF SearchInv, Told, Appendable, Kept
<1> QED BY <1>1, <1>2, <1>3, <1>4, <1>5 DEF SearchInv

LEMMA UnansweredKeeps ==
  ASSUME SearchInv, NEW r \in sent, sent' = sent \ {r},
         answered' = answered \cup {Search!Unanswered(r)}, UNCHANGED <<note, hook>>
  PROVE  SearchInv'
<1> DEFINE a == Search!Unanswered(r)
<1>1. /\ a \in Failures /\ a.latest = r.latest /\ a.append = r.append /\ ~a.ok
  BY DEF SearchInv, SearchTypes, Asks, Failures, Search!Unanswered
<1>2. answered' = answered \cup {a}
  OBVIOUS
<1> HIDE DEF a
<1>3. Told(a)
  BY <1>1 DEF SearchInv, Asked, Told
<1> QED BY <1>1, <1>2, <1>3, AnswerKeeps

LEMMA SearchLoseKeeps ==
  ASSUME SearchInv, NEW r \in sent, Search!Lose(r) PROVE SearchInv'
BY UnansweredKeeps DEF Search!Lose

LEMMA SearchServeKeeps ==
  ASSUME SearchInv, NEW r \in sent, Search!Serve(r) PROVE SearchInv'
<1>1. CASE ~Search!Admitted(r.filter, r.cursor)
  BY <1>1, UnansweredKeeps DEF Search!Serve
<1>2. CASE Search!Admitted(r.filter, r.cursor)
  <2> DEFINE page == Search!Page(r.filter, r.cursor)
             a == [latest |-> r.latest, append |-> r.append, ok |-> TRUE, filter |-> r.filter,
                   base |-> note, page |-> page]
  <2>1. /\ sent' = sent \ {r} /\ answered' = answered \cup {a} /\ UNCHANGED <<note, hook>>
    BY <1>2 DEF Search!Serve
  <2>2. /\ r.filter \in Search!Filters /\ r.cursor \in Search!Cursors /\ r.latest \in BOOLEAN
        /\ r.append \in BOOLEAN /\ note \in [Notes -> Search!NoteType]
    BY DEF SearchInv, SearchTypes, Asks
  <2>3. page \in Pages /\ HasAll(note, r.filter, r.cursor, page)
    BY <2>2, PageIsWhole
  <2> HIDE DEF page
  <2>4. /\ a \in Replies /\ a.latest = r.latest /\ a.append = r.append /\ a.filter = r.filter
        /\ a.base = note /\ a.page = page
    BY <2>2, <2>3 DEF Replies
  <2> HIDE DEF a
  <2>5. Kept(a.base)
    BY <2>2, <2>4 DEF Kept, Search!NoteType
  <2>6. ASSUME r.latest PROVE Told(a)
    <3>1. Asked(r) /\ Listed
      BY DEF SearchInv
    <3>2. CASE r.append
      <4>1. Appendable /\ r.cursor = hook.shown.cursor
        BY <2>6, <3>1, <3>2 DEF Asked
      <4>2. Kept(hook.shown.base) /\ Covers(hook.shown)
        BY <3>1, <4>1 DEF Appendable, Listed
      <4>3. r.filter = hook.shown.filter
        BY <1>2, <4>1, <4>2 DEF Search!Admitted, Appendable, Covers
      <4>4. \A n \in Notes : hook.shown.base[n].rev <= note[n].rev
        BY <4>2 DEF Kept
      <4> QED BY <2>3, <2>4, <2>5, <3>2, <4>1, <4>3, <4>4 DEF Told
    <3>3. CASE ~r.append
      <4>1. r.cursor = Search!NoCursor
        BY <2>6, <3>1, <3>3 DEF Asked
      <4> QED BY <2>3, <2>4, <2>5, <3>3, <4>1 DEF Told
    <3> QED BY <3>2, <3>3
  <2>7. Told(a)
    BY <2>4, <2>6 DEF Told
  <2> QED BY <2>1, <2>4, <2>7, AnswerKeeps
<1> QED BY <1>1, <1>2

LEMMA HearKeepsSearch ==
  ASSUME SearchInv, NEW a \in answered, Search!Hear(a) PROVE SearchInv'
<1>0. /\ answered' = answered \ {a} /\ UNCHANGED <<note, sent>>
      /\ hook \in HookType /\ a \in Failures \cup Replies /\ a.append \in BOOLEAN
      /\ a.ok \in BOOLEAN
  BY DEF Search!Hear, SearchInv, SearchTypes, Failures, Replies
<1>1. a.ok => a \in Replies
  BY <1>0 DEF Failures
<1>2. CASE ~a.latest
  <2>1. hook' = hook
    BY <1>2 DEF Search!Hear
  <2> QED BY <1>0, <2>1 DEF SearchInv, SearchTypes, Listed, Kept, Covers, OneLatest,
          Asked, Told, Appendable
<1>3. CASE a.latest
  <2> DEFINE list == IF a.ok THEN Search!Shown(a) ELSE IF a.append THEN hook.shown ELSE Search!Nothing
             h == [hook EXCEPT !.shown = list, !.failed = ~a.ok /\ ~a.append,
                     !.more = IF a.append THEN FALSE ELSE @, !.loading = IF a.append THEN @ ELSE FALSE]
  <2>1. hook' = h
    BY <1>3 DEF Search!Hear
  <2>2. /\ \A r \in sent : ~r.latest
        /\ \A b \in answered \ {a} : ~b.latest
    <3>1. \A r \in sent : ~r.latest
      BY <1>3 DEF SearchInv, OneLatest
    <3>2. \A b \in answered \ {a} : ~b.latest
      BY <1>3 DEF SearchInv, OneLatest
    <3> QED BY <3>1, <3>2
  <2>3. /\ list \in Lists \cup {Search!Nothing}
        /\ list # Search!Nothing => Kept(list.base) /\ Covers(list)
    <3>1. CASE ~a.ok
      BY <1>0, <3>1 DEF SearchInv, HookType, Listed
    <3>2. CASE a.ok /\ ~a.append
      <4>1. /\ a.page \in Pages /\ a.filter \in Search!Filters
            /\ a.base \in [Notes -> Search!NoteType]
        BY <1>1, <3>2 DEF Replies
      <4>2. list = [items |-> a.page.items, cursor |-> a.page.cursor, filter |-> a.filter,
                    base |-> a.base]
        BY <3>2 DEF Search!Shown
      <4>3. /\ list \in Lists /\ list.items = a.page.items /\ list.cursor = a.page.cursor
            /\ list.filter = a.filter /\ list.base = a.base
        BY <4>1, <4>2 DEF Lists, Pages
      <4> HIDE DEF list
      <4>4. Kept(a.base) /\ HasAll(a.base, a.filter, Search!NoCursor, a.page)
        BY <1>3, <3>2 DEF SearchInv, Told
      <4>5. Covers(list)
        BY <4>3, <4>4 DEF Covers, HasAll
      <4> QED BY <4>3, <4>4, <4>5
    <3>3. CASE a.ok /\ a.append
      <4> DEFINE l == hook.shown
      <4>1. /\ Appendable /\ a.filter = l.filter /\ Kept(a.base)
            /\ \A n \in Notes : l.base[n].rev <= a.base[n].rev
            /\ HasAll(a.base, a.filter, l.cursor, a.page)
        BY <1>3, <3>3 DEF SearchInv, Told
      <4>2. l \in Lists /\ Kept(l.base) /\ Covers(l) /\ l.cursor # Search!NoCursor
        BY <1>0, <4>1 DEF Appendable, SearchInv, HookType, Listed
      <4>3. a.page \in Pages /\ a.base \in [Notes -> Search!NoteType]
        BY <1>1, <3>3 DEF Replies
      <4>4. list = [l EXCEPT !.items = @ \cup a.page.items, !.cursor = a.page.cursor]
        BY <3>3, <4>1 DEF Search!Shown, Appendable
      <4>5. /\ list \in Lists /\ list.items = l.items \cup a.page.items
            /\ list.cursor = a.page.cursor /\ list.filter = l.filter /\ list.base = l.base
        BY <4>2, <4>3, <4>4 DEF Lists, Pages
      <4> HIDE DEF list
      <4>6. ASSUME NEW n \in Notes, Search!Matches(list.base[n], list.filter), note[n] = list.base[n],
                   list.cursor = Search!NoCursor \/ ~After(list.cursor, note[n], n)
            PROVE  n \in list.items
        <5>1. /\ l.base[n].rev \in Nat /\ a.base[n].rev \in Nat
              /\ l.base[n].rev <= a.base[n].rev /\ a.base[n].rev <= note[n].rev
              /\ a.base[n].rev = note[n].rev => a.base[n] = note[n]
          BY <4>1, <4>2, <4>3 DEF Kept, Lists, Search!NoteType
        <5>2. a.base[n] = note[n]
          BY <4>5, <4>6, <5>1
        <5>3. CASE After(l.cursor, note[n], n)
          BY <4>1, <4>5, <4>6, <5>2, <5>3 DEF HasAll
        <5>4. CASE ~After(l.cursor, note[n], n)
          BY <4>2, <4>5, <4>6, <5>4 DEF Covers
        <5> QED BY <5>3, <5>4
      <4>7. list.cursor = Search!NoCursor \/ list.cursor.filter = list.filter
        BY <4>1, <4>5 DEF HasAll
      <4>8. Covers(list)
        BY <4>6, <4>7 DEF Covers
      <4> QED BY <4>2, <4>5, <4>8
    <3> QED BY <1>0, <3>1, <3>2, <3>3
  <2> HIDE DEF list
  <2>4. h \in HookType /\ h.shown = list
    BY <1>0, <2>3 DEF HookType
  <2> HIDE DEF h
  <2>5. SearchTypes' /\ OneLatest'
    BY <1>0, <2>1, <2>2, <2>4 DEF SearchInv, SearchTypes, OneLatest
  <2>6. Listed'
    BY <1>0, <2>1, <2>3, <2>4 DEF Listed, Kept, Covers
  <2>7. \A r \in sent' : Asked(r)'
    BY <1>0, <2>2 DEF Asked
  <2>8. \A b \in answered' : Told(b)'
    BY <1>0, <2>2 DEF Told
  <2> QED BY <2>5, <2>6, <2>7, <2>8 DEF SearchInv
<1> QED BY <1>2, <1>3

LEMMA SearchStepKeeps ==
  ASSUME SearchInv, Search!Next PROVE SearchInv'
BY SearchEditKeeps, ToggleKeeps, LoadMoreKeeps, RetryKeeps, SearchServeKeeps, SearchLoseKeeps,
   HearKeepsSearch
DEF Search!Next, Search!Answer, Search!Deliver

LEMMA SearchStutterKeeps ==
  ASSUME SearchInv, UNCHANGED searchVars PROVE SearchInv'
BY DEF SearchInv, searchVars, SearchTypes, Listed, Kept, Covers, OneLatest, Asked, Told, Appendable

LEMMA SearchInvSuffices ==
  ASSUME SearchInv
  PROVE  Search!TypeOK /\ Search!EndedIsComplete
<1>1. Search!TypeOK
  <2> DEFINE L == {m \in sent \cup answered : m.latest}
  <2>1. L = {} \/ \E m \in L : L = {m}
    BY DEF SearchInv, OneLatest
  <2> HIDE DEF L
  <2>2. Search!Cardinality(L) <= 1
    BY <2>1, SearchSets, FS_EmptySet, FS_Singleton
  <2>3. /\ hook.filter \in Search!Filters /\ hook.toggles \in 0 .. MaxToggles
        /\ {hook.loading, hook.more, hook.failed} \subseteq BOOLEAN
    BY DEF SearchInv, SearchTypes, HookType
  <2>4. hook.shown.items \subseteq Notes /\ hook.shown.cursor \in Search!Cursors
    <3>1. CASE hook.shown = Search!Nothing
      BY <3>1, NothingIsNoList, NoCursorIsCursor
    <3>2. CASE hook.shown \in Lists
      BY <3>2 DEF Lists
    <3> QED BY <3>1, <3>2 DEF SearchInv, SearchTypes, HookType
  <2>5. \A r \in sent : r.filter \in Search!Filters /\ r.cursor \in Search!Cursors
    BY DEF SearchInv, SearchTypes, Asks
  <2> QED BY <2>2, <2>3, <2>4, <2>5 DEF SearchInv, SearchTypes, Search!TypeOK, L
<1>2. Search!EndedIsComplete
  BY DEF SearchInv, Listed, Covers, Search!EndedIsComplete
<1> QED BY <1>1, <1>2

-----------------------------------------------------------------------------
(* The note editor.                                                        *)

Drafts == Editor!Texts \cup {None}
LogType == [text : Editor!Texts, by : Editor!Requests \cup {None}]
EditorType == [note : Nat, draft : Drafts, base : Nat, dirty : BOOLEAN, conflict : BOOLEAN,
               attempt : Nat \cup {None}, undo : Nat \cup {None}, pending : BOOLEAN]
LoadType == [read : Nat, by : {"window", "timer", "toggle", "none"}]
SpentType == [edits : Nat, clicks : Nat, elsewhere : Nat, faults : Nat, keys : Nat]
EditorTypes ==
  /\ log \in Seq(LogType) /\ editor \in EditorType /\ load \in LoadType
  /\ polling \in BOOLEAN /\ call \in [Editor!Panes -> Editor!Calls \cup {None}]
  /\ posted \subseteq Editor!Requests /\ shown \subseteq Nat /\ spent \in SpentType

\* Revisions known anywhere are revisions of the note.
Known ==
  /\ Len(log) > 0 /\ log[1].by = None
  /\ editor.note <= Len(log) /\ load.read <= Len(log)
  /\ editor.undo # None => editor.undo \in 2 .. Len(log) /\ editor.note # 0
RequestKnown(q) ==
  /\ q.kind = "undo" => q.to \in 1 .. Len(log)
  /\ q.kind = "save" => q.over \in shown
CallKnown(p) ==
  call[p] # None =>
    /\ call[p].before \in 1 .. Len(log)
    /\ call[p].word = "done" => call[p].rev \in 2 .. Len(log)
    /\ p = "inspector" => call[p].q.kind # "toggle" /\ call[p].then = "hear"
\* The editor's parts agree, and what its draft is based on it has shown.
Agrees ==
  /\ editor.pending = (call["editor"] # None)
  /\ (editor.note = 0) = (editor.draft = None)
  /\ load.by = "timer" => polling
  /\ (editor.note = 0) = (editor.base = 0)
  /\ editor.base # 0 => editor.base \in shown /\ editor.base <= Len(log)

EditorInv ==
  /\ EditorTypes /\ Known /\ Agrees
  /\ \A q \in posted : RequestKnown(q)
  /\ \A p \in Editor!Panes : CallKnown(p)
  /\ Editor!OverwritesOnlyWhatWasShown

LEMMA EditorBounds ==
  /\ None \notin Editor!Texts /\ None \notin Nat /\ None \notin Editor!Requests
  /\ None \notin Editor!Calls /\ None \notin {"done", "stale", "lost"}
BY BrowserAssumption DEF Editor!NoteEditorAssumption

\* What the editor may be about to become: its draft is based on a revision it
\* has shown, or is the text of that revision.
Fits(e) ==
  /\ e \in EditorType /\ e.note <= Len(log)
  /\ e.note = 0 => e.base = 0 /\ e.draft = None
  /\ e.base # 0 => /\ e.draft # None /\ e.base <= Len(log)
                   /\ e.base \in shown \/ e.draft = Editor!TextOf(e.base)
  /\ e.undo # None => e.undo \in 2 .. Len(log) /\ e.note # 0

LEMMA TextAt ==
  ASSUME EditorInv, NEW n \in 1 .. Len(log)
  PROVE  Editor!TextOf(n) \in Editor!Texts /\ Editor!TextOf(n) # None
<1>1. log[n] \in LogType
  BY DEF EditorInv, EditorTypes
<1> QED BY <1>1, EditorBounds DEF LogType, Editor!TextOf

LEMMA EditorFits ==
  ASSUME EditorInv
  PROVE  /\ Fits(editor)
         /\ editor.note # 0 => editor.base # 0 /\ editor.base \in shown /\ editor.draft \in Editor!Texts
<1>1. editor \in EditorType /\ editor.draft \in Drafts /\ editor.note \in Nat /\ editor.base \in Nat
  BY DEF EditorInv, EditorTypes, EditorType
<1>2. /\ editor.note <= Len(log)
      /\ editor.undo # None => editor.undo \in 2 .. Len(log) /\ editor.note # 0
  BY DEF EditorInv, Known
<1>3. /\ (editor.note = 0) <=> (editor.draft = None)
      /\ (editor.note = 0) <=> (editor.base = 0)
      /\ editor.base # 0 => editor.base \in shown /\ editor.base <= Len(log)
  BY DEF EditorInv, Agrees
<1> QED BY <1>1, <1>2, <1>3 DEF Fits, Drafts

\* The same with a part of the editor changed that does not tell what its draft is.
LEMMA FitsLike ==
  ASSUME EditorInv, NEW e \in EditorType, e.note = editor.note \/ e.note \in 1 .. Len(log),
         e.base = editor.base, e.draft = editor.draft, e.undo = editor.undo
  PROVE  Fits(e)
<1>1. Fits(editor) /\ (editor.note # 0 => editor.base # 0)
  BY EditorFits
<1> QED BY <1>1 DEF Fits

\* The effect leaves an editor whose draft is based on what it has shown.
LEMMA RebasedAgrees ==
  ASSUME EditorInv, NEW e, Fits(e), Editor!Becomes(e)
  PROVE  /\ editor' \in EditorType /\ editor'.note = e.note /\ editor'.undo = e.undo
         /\ editor'.pending = e.pending
         /\ (editor'.note = 0) <=> (editor'.draft = None)
         /\ (editor'.note = 0) <=> (editor'.base = 0)
         /\ editor'.base # 0 => editor'.base \in shown' /\ editor'.base <= Len(log)
         /\ shown \subseteq shown' /\ shown' \subseteq Nat
<1> DEFINE n == Editor!Rebased(e)
<1>1. /\ e \in EditorType /\ e.note \in Nat /\ e.base \in Nat /\ e.draft \in Drafts
      /\ Len(log) \in Nat /\ shown \subseteq Nat
  BY DEF Fits, EditorType, EditorInv, EditorTypes
<1>2. editor' = n /\ shown' = IF n.base > 0 /\ n.draft = Editor!TextOf(n.base)
                              THEN shown \cup {n.base} ELSE shown
  BY DEF Editor!Becomes
<1>3. CASE n = e /\ (e.note = 0 \/ e.base = e.note)
  <2> HIDE DEF n
  <2>1. editor' = e /\ shown \subseteq shown' /\ shown' \subseteq Nat
    BY <1>1, <1>2, <1>3
  <2>2. e.base # 0 => e.base \in shown' /\ e.base <= Len(log) /\ e.draft # None
    BY <1>1, <1>2, <1>3 DEF Fits
  <2>3. e.note = 0 => e.base = 0 /\ e.draft = None
    BY DEF Fits
  <2> QED BY <1>1, <1>3, <2>1, <2>2, <2>3
<1>4. CASE n = Editor!Reset(e) /\ e.note # 0
  <2>1. e.note \in 1 .. Len(log)
    BY <1>1, <1>4 DEF Fits
  <2> DEFINE t == Editor!TextOf(e.note)
  <2>2. t \in Editor!Texts /\ t # None
    BY <2>1, TextAt
  <2>3. n = [e EXCEPT !.draft = t, !.base = e.note, !.dirty = FALSE, !.conflict = FALSE,
                      !.attempt = None]
    BY <1>4 DEF Editor!Reset
  <2> HIDE DEF t, n
  <2>4. /\ n \in EditorType /\ n.note = e.note /\ n.undo = e.undo /\ n.pending = e.pending
        /\ n.draft = t /\ n.base = e.note
    BY <1>1, <2>2, <2>3 DEF EditorType, Drafts
  <2>5. shown' = shown \cup {n.base}
    BY <1>2, <2>1, <2>4 DEF t
  <2>6. editor' = n /\ n.base # 0 /\ n.base \in shown' /\ n.base <= Len(log) /\ n.draft # None
    BY <1>2, <2>1, <2>2, <2>4, <2>5
  <2>7. shown \subseteq shown' /\ shown' \subseteq Nat
    BY <1>1, <2>4, <2>5
  <2> QED BY <1>4, <2>4, <2>6, <2>7
<1>5. CASE n = [e EXCEPT !.conflict = TRUE] /\ e.note # 0 /\ e.base # 0
  <2> HIDE DEF n
  <2>1. /\ n \in EditorType /\ n.note = e.note /\ n.undo = e.undo /\ n.pending = e.pending
        /\ n.draft = e.draft /\ n.base = e.base
    BY <1>1, <1>5 DEF EditorType
  <2>2. e.draft # None /\ e.base <= Len(log) /\ (e.base \in shown \/ e.draft = Editor!TextOf(e.base))
    BY <1>5 DEF Fits
  <2>3. e.base \in shown'
    BY <1>1, <1>2, <1>5, <2>1, <2>2
  <2>4. shown \subseteq shown' /\ shown' \subseteq Nat
    BY <1>1, <1>2, <2>1
  <2> QED BY <1>2, <1>5, <2>1, <2>2, <2>3, <2>4
<1> QED BY <1>3, <1>4, <1>5 DEF Editor!Rebased

\* The editor changes, the note does not.
LEMMA BecomesKeeps ==
  ASSUME EditorInv, NEW e, Fits(e), Editor!Becomes(e), log' = log,
         load' \in LoadType, load'.read <= Len(log), polling' \in BOOLEAN,
         load'.by = "timer" => polling',
         call' \in [Editor!Panes -> Editor!Calls \cup {None}],
         \A p \in Editor!Panes : CallKnown(p)',
         e.pending = (call'["editor"] # None),
         posted' \subseteq Editor!Requests, \A q \in posted' : RequestKnown(q),
         spent' \in SpentType
  PROVE  EditorInv'
<1>1. /\ editor' \in EditorType /\ editor'.note = e.note /\ editor'.undo = e.undo
      /\ editor'.pending = e.pending
      /\ (editor'.note = 0) <=> (editor'.draft = None)
      /\ (editor'.note = 0) <=> (editor'.base = 0)
      /\ editor'.base # 0 => editor'.base \in shown' /\ editor'.base <= Len(log)
      /\ shown \subseteq shown' /\ shown' \subseteq Nat
  BY RebasedAgrees
<1>2. EditorTypes'
  BY <1>1 DEF EditorInv, EditorTypes
<1>3. Known'
  BY <1>1 DEF EditorInv, Known, Fits
<1>4. Agrees'
  BY <1>1 DEF Agrees
<1>5. \A q \in posted' : RequestKnown(q)'
  BY <1>1 DEF RequestKnown
<1>6. Editor!OverwritesOnlyWhatWasShown'
  BY <1>1 DEF EditorInv, Editor!OverwritesOnlyWhatWasShown, Editor!Rev
<1> QED BY <1>2, <1>3, <1>4, <1>5, <1>6 DEF EditorInv

\* Only the loads change.
LEMMA LoadKeeps ==
  ASSUME EditorInv, UNCHANGED <<log, editor, call, posted, shown>>,
         load' \in LoadType, load'.read <= Len(log), polling' \in BOOLEAN,
         load'.by = "timer" => polling', spent' \in SpentType
  PROVE  EditorInv'
<1>1. EditorTypes' /\ Known' /\ Agrees'
  BY DEF EditorInv, EditorTypes, Known, Agrees
<1>2. /\ \A q \in posted' : RequestKnown(q)'
      /\ \A p \in Editor!Panes : CallKnown(p)'
  BY DEF EditorInv, RequestKnown, CallKnown
<1>3. Editor!OverwritesOnlyWhatWasShown'
  BY DEF EditorInv, Editor!OverwritesOnlyWhatWasShown, Editor!Rev
<1> QED BY <1>1, <1>2, <1>3 DEF EditorInv

\* Another revision of the note.
LEMMA LogGrows ==
  ASSUME EditorInv, NEW x \in LogType, log' = Append(log, x)
  PROVE  /\ log' \in Seq(LogType) /\ Len(log) \in Nat /\ Len(log') = Len(log) + 1
         /\ log'[Len(log) + 1] = x /\ \A n \in 1 .. Len(log) : log'[n] = log[n]
BY DEF EditorInv, EditorTypes

LEMMA RevisionKeeps ==
  ASSUME EditorInv, NEW x \in LogType, log' = Append(log, x),
         x.by # None /\ x.by.kind = "save" => Len(log) \in shown,
         UNCHANGED <<editor, load, polling, shown>>,
         call' \in [Editor!Panes -> Editor!Calls \cup {None}],
         \A p \in Editor!Panes : CallKnown(p)', (call'["editor"] = None) <=> (call["editor"] = None),
         posted' \subseteq posted, spent' \in SpentType
  PROVE  EditorInv'
<1>1. /\ log' \in Seq(LogType) /\ Len(log) \in Nat /\ Len(log') = Len(log) + 1
      /\ log'[Len(log) + 1] = x /\ \A n \in 1 .. Len(log) : log'[n] = log[n]
  BY LogGrows
<1>2. EditorTypes'
  BY <1>1 DEF EditorInv, EditorTypes
<1>3. Known'
  <2>1. editor.note \in Nat /\ load.read \in Nat
    BY DEF EditorInv, EditorTypes, EditorType, LoadType
  <2> QED BY <1>1, <2>1 DEF EditorInv, Known
<1>4. Agrees'
  <2>1. editor.base \in Nat
    BY DEF EditorInv, EditorTypes, EditorType
  <2> QED BY <1>1, <2>1 DEF EditorInv, Agrees
<1>5. \A q \in posted' : RequestKnown(q)'
  BY <1>1 DEF EditorInv, RequestKnown
<1>6. Editor!OverwritesOnlyWhatWasShown'
  BY <1>1 DEF EditorInv, Editor!OverwritesOnlyWhatWasShown, Editor!Rev
<1> QED BY <1>2, <1>3, <1>4, <1>5, <1>6 DEF EditorInv

LEMMA EditorBegins ==
  ASSUME Editor!Init PROVE EditorInv
<1>1. PICK t \in Editor!Texts : log = <<[text |-> t, by |-> None]>>
  BY DEF Editor!Init
<1>2. log \in Seq(LogType) /\ Len(log) = 1 /\ log[1].by = None
  BY <1>1 DEF LogType
<1>3. /\ editor \in EditorType /\ editor.note = 0 /\ editor.base = 0 /\ editor.draft = None
      /\ editor.undo = None /\ editor.pending = FALSE
  BY DEF Editor!Init, EditorType, Drafts
<1>4. /\ load \in LoadType /\ load.read = 0 /\ load.by = "window" /\ polling = FALSE
      /\ posted = {} /\ shown = {}
  BY DEF Editor!Init, LoadType
<1>5. spent \in SpentType
  BY DEF Editor!Init, SpentType
<1>6. /\ call \in [Editor!Panes -> Editor!Calls \cup {None}]
      /\ \A p \in Editor!Panes : call[p] = None
  BY DEF Editor!Init
<1>7. "editor" \in Editor!Panes
  BY DEF Editor!Panes
<1>8. EditorTypes
  BY <1>2, <1>3, <1>4, <1>5, <1>6 DEF EditorTypes
<1>9. Known
  BY <1>2, <1>3, <1>4 DEF Known
<1>10. Agrees
  BY <1>3, <1>4, <1>6, <1>7 DEF Agrees
<1>11. Editor!OverwritesOnlyWhatWasShown
  BY <1>2 DEF Editor!OverwritesOnlyWhatWasShown, Editor!Rev
<1> QED BY <1>4, <1>6, <1>8, <1>9, <1>10, <1>11 DEF EditorInv, CallKnown

\* What every proof of a step begins with.
LEMMA EditorParts ==
  ASSUME EditorInv
  PROVE  /\ log \in Seq(LogType) /\ Len(log) \in Nat /\ Len(log) > 0
         /\ load \in LoadType /\ load.read \in Nat /\ load.read <= Len(log) /\ polling \in BOOLEAN
         /\ load.by = "timer" => polling
         /\ call \in [Editor!Panes -> Editor!Calls \cup {None}]
         /\ \A p \in Editor!Panes : CallKnown(p)
         /\ posted \subseteq Editor!Requests /\ \A q \in posted : RequestKnown(q)
         /\ spent \in SpentType /\ shown \subseteq Nat
         /\ editor \in EditorType /\ editor.pending = (call["editor"] # None)
         /\ "editor" \in Editor!Panes /\ "inspector" \in Editor!Panes
         /\ Editor!Nothing \in LoadType /\ Editor!Nothing.read = 0 /\ Editor!Nothing.by = "none"
<1>1. Len(log) \in Nat /\ load.read \in Nat
  BY DEF EditorInv, EditorTypes, LoadType
<1>2. /\ Editor!Nothing \in LoadType /\ Editor!Nothing.read = 0 /\ Editor!Nothing.by = "none"
  BY DEF Editor!Nothing, LoadType
<1> QED BY <1>1, <1>2 DEF EditorInv, EditorTypes, Known, Agrees, Editor!Panes

LEMMA AskAgainIs ==
  ASSUME NEW by \in {"window", "toggle"}, Editor!AskAgain(by)
  PROVE  load' \in LoadType /\ load'.read = 0 /\ load'.by = by /\ polling' = polling
BY DEF Editor!AskAgain, LoadType

LEMMA SpendIs ==
  ASSUME EditorInv, NEW what \in {"edits", "clicks", "elsewhere", "faults"}, Editor!Spend(what)
  PROVE  spent' \in SpentType
BY DEF Editor!Spend, EditorInv, EditorTypes, SpentType

LEMMA ClickedIs ==
  ASSUME EditorInv, Editor!Clicked
  PROVE  spent' \in SpentType /\ spent.keys + 1 \in Nat
<1>1. spent \in SpentType
  BY DEF EditorInv, EditorTypes
<1> DEFINE c == spent.clicks + 1
           k == spent.keys + 1
<1>2. c \in Nat /\ k \in Nat
  BY <1>1 DEF SpentType
<1>3. spent' = [spent EXCEPT !.clicks = c, !.keys = k]
  BY DEF Editor!Clicked
<1> HIDE DEF c, k
<1>4. spent' \in SpentType
  BY <1>1, <1>2, <1>3 DEF SpentType
<1> QED BY <1>2, <1>4 DEF k

\* A timer, a load, the window.
LEMMA LoadsKeep ==
  ASSUME EditorInv, Editor!Poll \/ Editor!PollEnds \/ Editor!Read \/ Editor!Refresh
  PROVE  EditorInv'
<1>1. CASE Editor!Poll
  <2>1. /\ UNCHANGED <<log, editor, call, posted, shown, spent>> /\ polling' = TRUE
        /\ load' = [read |-> 0, by |-> "timer"]
    BY <1>1 DEF Editor!Poll
  <2>2. load' \in LoadType /\ load'.read = 0
    BY <2>1 DEF LoadType
  <2> QED BY <2>1, <2>2, EditorParts, LoadKeeps
<1>2. CASE Editor!PollEnds
  <2>1. UNCHANGED <<log, editor, call, posted, shown, spent, load>> /\ polling' = FALSE
        /\ load.by # "timer"
    BY <1>2 DEF Editor!PollEnds
  <2> QED BY <2>1, EditorParts, LoadKeeps
<1>3. CASE Editor!Read
  <2>1. /\ UNCHANGED <<log, editor, call, posted, shown, spent, polling>>
        /\ load' = [load EXCEPT !.read = Len(log)]
    BY <1>3 DEF Editor!Read, Editor!Rev
  <2>2. load' \in LoadType /\ load'.read = Len(log) /\ load'.by = load.by
    BY <2>1, EditorParts DEF LoadType
  <2> QED BY <2>1, <2>2, EditorParts, LoadKeeps
<1>4. CASE Editor!Refresh
  <2>1. /\ UNCHANGED <<log, editor, call, posted, shown>> /\ Editor!AskAgain("window")
        /\ spent' \in SpentType
    BY <1>4, SpendIs DEF Editor!Refresh
  <2>2. load' \in LoadType /\ load'.read = 0 /\ load'.by = "window" /\ polling' = polling
    BY <2>1, AskAgainIs
  <2> QED BY <2>1, <2>2, EditorParts, LoadKeeps
<1> QED BY <1>1, <1>2, <1>3, <1>4

\* The pane p is answered for good, or the other pane keeps waiting.
LEMMA CallDropped ==
  ASSUME EditorInv, NEW p \in Editor!Panes, call' = [call EXCEPT ![p] = None], log' = log
  PROVE  /\ call' \in [Editor!Panes -> Editor!Calls \cup {None}]
         /\ \A o \in Editor!Panes : CallKnown(o)'
         /\ call'[p] = None /\ \A o \in Editor!Panes \ {p} : call'[o] = call[o]
<1>1. /\ call \in [Editor!Panes -> Editor!Calls \cup {None}]
      /\ \A o \in Editor!Panes : CallKnown(o)
  BY DEF EditorInv, EditorTypes
<1>2. /\ call' \in [Editor!Panes -> Editor!Calls \cup {None}]
      /\ call'[p] = None /\ \A o \in Editor!Panes \ {p} : call'[o] = call[o]
  BY <1>1
<1>3. ASSUME NEW o \in Editor!Panes PROVE CallKnown(o)'
  BY <1>1, <1>2 DEF CallKnown
<1> QED BY <1>2, <1>3

LEMMA CallStays ==
  ASSUME EditorInv, UNCHANGED <<log, call>>
  PROVE  /\ call' \in [Editor!Panes -> Editor!Calls \cup {None}]
         /\ \A o \in Editor!Panes : CallKnown(o)'
BY DEF EditorInv, EditorTypes, CallKnown

\* Only what the panes wait for and what is on its way changes.
LEMMA CallsKeep ==
  ASSUME EditorInv, UNCHANGED <<log, editor, load, polling, shown>>,
         call' \in [Editor!Panes -> Editor!Calls \cup {None}],
         \A p \in Editor!Panes : CallKnown(p)', (call'["editor"] = None) <=> (call["editor"] = None),
         posted' \subseteq Editor!Requests, \A q \in posted' : RequestKnown(q),
         spent' \in SpentType
  PROVE  EditorInv'
<1>1. EditorTypes' /\ Known' /\ Agrees'
  BY DEF EditorInv, EditorTypes, Known, Agrees
<1>2. \A q \in posted' : RequestKnown(q)'
  BY DEF RequestKnown
<1>3. Editor!OverwritesOnlyWhatWasShown'
  BY DEF EditorInv, Editor!OverwritesOnlyWhatWasShown, Editor!Rev
<1> QED BY <1>1, <1>2, <1>3 DEF EditorInv

\* A pane asks.
LEMMA AskIs ==
  ASSUME EditorInv, NEW p \in Editor!Panes, NEW q \in Editor!Requests, Editor!Ask(p, q),
         editor.note # 0, RequestKnown(q), p = "inspector" => q.kind # "toggle", log' = log
  PROVE  /\ call' \in [Editor!Panes -> Editor!Calls \cup {None}]
         /\ \A o \in Editor!Panes : CallKnown(o)'
         /\ call'[p] # None /\ \A o \in Editor!Panes \ {p} : call'[o] = call[o]
         /\ posted' \subseteq Editor!Requests /\ \A r \in posted' : RequestKnown(r)
<1> DEFINE c == [q |-> q, word |-> None, rev |-> 0, then |-> "hear", before |-> editor.note]
<1>1. editor.note \in 1 .. Len(log) /\ editor.note \in Nat
  BY DEF EditorInv, EditorTypes, EditorType, Known
<1>2. /\ c \in Editor!Calls /\ c.word = None /\ c.before = editor.note /\ c.then = "hear"
      /\ c.q = q
  BY <1>1 DEF Editor!Calls
<1>3. call' = [call EXCEPT ![p] = c] /\ posted' = posted \cup {q}
  BY DEF Editor!Ask
<1> HIDE DEF c
<1>4. /\ call' \in [Editor!Panes -> Editor!Calls \cup {None}]
      /\ call'[p] = c /\ \A o \in Editor!Panes \ {p} : call'[o] = call[o]
  BY <1>2, <1>3, EditorParts
<1>5. ASSUME NEW o \in Editor!Panes PROVE CallKnown(o)'
  <2>1. CASE o = p
    BY <1>1, <1>2, <1>4, <2>1, EditorBounds DEF CallKnown
  <2>2. CASE o # p
    BY <1>4, <2>2, EditorParts DEF CallKnown
  <2> QED BY <2>1, <2>2
<1>6. posted' \subseteq Editor!Requests /\ \A r \in posted' : RequestKnown(r)
  BY <1>3, EditorParts
<1> QED BY <1>2, <1>4, <1>5, <1>6, EditorBounds

\* The last load ends.
LEMMA EndsKeeps ==
  ASSUME EditorInv, NEW n, n = editor.note \/ n \in 1 .. Len(log), Editor!Ends(n),
         spent' \in SpentType
  PROVE  EditorInv'
<1> DEFINE e == [editor EXCEPT !.note = n]
           told == Editor!Told(e)
           tells == Editor!Waits /\ load.by = "toggle"
<1>1. /\ load' = Editor!Nothing /\ polling' = (polling /\ load.by # "timer")
      /\ log' = log /\ posted' = posted
  BY DEF Editor!Ends
<1>2. /\ load' \in LoadType /\ load'.read <= Len(log) /\ load'.by # "timer" /\ polling' \in BOOLEAN
  BY <1>1, EditorParts
<1>3. /\ e \in EditorType /\ e.note = n /\ e.base = editor.base /\ e.draft = editor.draft
      /\ e.undo = editor.undo /\ e.pending = editor.pending
  BY EditorParts DEF EditorType
<1>4. CASE tells
  <2>1. told = [e EXCEPT !.pending = FALSE, !.conflict = @ \/ call["editor"].word = "stale"]
    BY DEF Editor!Told
  <2>2. /\ told \in EditorType /\ told.note = n /\ told.base = editor.base
        /\ told.draft = editor.draft /\ told.undo = editor.undo /\ told.pending = FALSE
    <3> HIDE DEF e, told
    <3> QED BY <1>3, <2>1 DEF EditorType
  <2>3. Editor!Becomes(told) /\ call' = [call EXCEPT !["editor"] = None]
    BY <1>4 DEF Editor!Ends
  <2> HIDE DEF told
  <2>4. Fits(told)
    BY <2>2, FitsLike
  <2> QED BY <1>1, <1>2, <2>2, <2>3, <2>4, EditorParts, CallDropped, BecomesKeeps
<1>5. CASE ~tells
  <2>1. Editor!Becomes(e) /\ call' = call
    BY <1>5 DEF Editor!Ends
  <2> HIDE DEF e
  <2>2. Fits(e)
    BY <1>3, FitsLike
  <2> QED BY <1>1, <1>2, <1>3, <2>1, <2>2, EditorParts, CallStays, BecomesKeeps
<1> QED BY <1>4, <1>5

LEMMA ArriveKeeps ==
  ASSUME EditorInv, Editor!Arrive \/ Editor!LoadFails PROVE EditorInv'
<1>1. CASE Editor!Arrive
  <2>1. load.read \in 1 .. Len(log) /\ Editor!Ends(load.read) /\ spent' = spent
    BY <1>1, EditorParts DEF Editor!Arrive
  <2> QED BY <2>1, EditorParts, EndsKeeps
<1>2. CASE Editor!LoadFails
  <2>1. Editor!Ends(editor.note) /\ spent' \in SpentType
    BY <1>2, SpendIs DEF Editor!LoadFails
  <2> QED BY <2>1, EndsKeeps
<1> QED BY <1>1, <1>2

LEMMA TellLateKeeps ==
  ASSUME EditorInv, Editor!TellLate PROVE EditorInv'
<1> DEFINE e == Editor!Told(editor)
<1>1. e = [editor EXCEPT !.pending = FALSE, !.conflict = @ \/ call["editor"].word = "stale"]
  BY DEF Editor!Told
<1>2. /\ Editor!Becomes(e) /\ call' = [call EXCEPT !["editor"] = None]
      /\ UNCHANGED <<log, load, polling, posted, spent>>
  BY DEF Editor!TellLate
<1> HIDE DEF e
<1>3. /\ e \in EditorType /\ e.note = editor.note /\ e.base = editor.base
      /\ e.draft = editor.draft /\ e.undo = editor.undo /\ e.pending = FALSE
  BY <1>1, EditorParts DEF EditorType
<1>4. Fits(e)
  BY <1>3, FitsLike
<1> QED BY <1>2, <1>3, <1>4, EditorParts, CallDropped, BecomesKeeps

LEMMA TypeKeeps ==
  ASSUME EditorInv, NEW t \in Editor!Texts, Editor!Type(t) PROVE EditorInv'
<1> DEFINE e == [editor EXCEPT !.draft = t, !.dirty = (t # Editor!TextOf(editor.note)),
                               !.attempt = None]
<1>1. /\ Editor!Becomes(e) /\ editor.note # 0 /\ UNCHANGED <<log, load, polling, call, posted>>
      /\ spent' \in SpentType
  BY SpendIs DEF Editor!Type
<1>2. /\ e \in EditorType /\ e.note = editor.note /\ e.base = editor.base
      /\ e.draft = t /\ e.undo = editor.undo /\ e.pending = editor.pending
  BY EditorParts DEF EditorType, Drafts
<1> HIDE DEF e
<1>3. Fits(e)
  BY <1>1, <1>2, EditorFits, EditorBounds DEF Fits
<1> QED BY <1>1, <1>2, <1>3, EditorParts, CallStays, BecomesKeeps

LEMMA SaveKeeps ==
  ASSUME EditorInv, Editor!Save PROVE EditorInv'
<1> DEFINE again == editor.attempt # None
           key == IF again THEN editor.attempt ELSE spent.keys + 1
           e == [editor EXCEPT !.pending = TRUE, !.attempt = key]
           q == [kind |-> "save", key |-> key, over |-> editor.base, to |-> editor.draft]
<1>1. /\ Editor!Becomes(e) /\ Editor!Ask("editor", q) /\ editor.note # 0
      /\ UNCHANGED <<log, load, polling>>
      /\ spent' = IF again THEN spent ELSE [spent EXCEPT !.keys = @ + 1]
  BY DEF Editor!Save
<1>2. /\ spent \in SpentType /\ editor \in EditorType
  BY EditorParts
<1>3. key \in Nat
  BY <1>2 DEF SpentType, EditorType
<1>4. spent' \in SpentType
  <2>1. spent.keys + 1 \in Nat
    BY <1>2 DEF SpentType
  <2> QED BY <1>1, <1>2, <2>1 DEF SpentType
<1> HIDE DEF key
<1>5. /\ e \in EditorType /\ e.note = editor.note /\ e.base = editor.base
      /\ e.draft = editor.draft /\ e.undo = editor.undo /\ e.pending = TRUE
  BY <1>2, <1>3 DEF EditorType
<1>6. editor.base \in Nat /\ editor.base \in shown /\ editor.draft \in Editor!Texts
  BY <1>1, <1>2, EditorFits DEF EditorType
<1>7. q \in Editor!Requests /\ q.kind = "save" /\ q.over = editor.base
  BY <1>3, <1>6 DEF Editor!Requests
<1> HIDE DEF e, q
<1>8. RequestKnown(q)
  BY <1>6, <1>7 DEF RequestKnown
<1>9. Fits(e)
  BY <1>5, FitsLike
<1> QED BY <1>1, <1>4, <1>5, <1>7, <1>8, <1>9, EditorParts, AskIs, BecomesKeeps

LEMMA ToggleKeepsEditor ==
  ASSUME EditorInv, Editor!Toggle PROVE EditorInv'
<1> DEFINE e == [editor EXCEPT !.pending = TRUE]
           key == spent.keys + 1
           to == ~Editor!TextOf(editor.note).ticked
           q == [kind |-> "toggle", key |-> key, over |-> editor.note, to |-> to]
<1>1. /\ Editor!Becomes(e) /\ Editor!Ask("editor", q) /\ editor.note # 0
      /\ load' = Editor!Nothing /\ polling' = polling /\ log' = log /\ Editor!Clicked
  BY DEF Editor!Toggle, Editor!CallOff
<1>2. spent' \in SpentType /\ key \in Nat
  BY <1>1, ClickedIs
<1>3. /\ e \in EditorType /\ e.note = editor.note /\ e.base = editor.base
      /\ e.draft = editor.draft /\ e.undo = editor.undo /\ e.pending = TRUE
      /\ editor.note \in Nat
  BY EditorParts DEF EditorType
<1>4. to \in BOOLEAN
  OBVIOUS
<1> HIDE DEF e, to, key
<1>5. q \in Editor!Requests /\ q.kind = "toggle"
  BY <1>2, <1>3, <1>4 DEF Editor!Requests
<1> HIDE DEF q
<1>6. RequestKnown(q)
  BY <1>5 DEF RequestKnown
<1>7. Fits(e)
  BY <1>3, FitsLike
<1>8. load' \in LoadType /\ load'.read <= Len(log) /\ load'.by # "timer" /\ polling' \in BOOLEAN
  BY <1>1, EditorParts
<1>9. /\ call' \in [Editor!Panes -> Editor!Calls \cup {None}]
      /\ \A o \in Editor!Panes : CallKnown(o)'
      /\ call'["editor"] # None
      /\ posted' \subseteq Editor!Requests /\ \A r \in posted' : RequestKnown(r)
  BY <1>1, <1>5, <1>6, EditorParts, AskIs
<1> QED BY <1>1, <1>2, <1>3, <1>7, <1>8, <1>9, BecomesKeeps

LEMMA UndoLastKeeps ==
  ASSUME EditorInv, Editor!UndoLast PROVE EditorInv'
<1> DEFINE e == [editor EXCEPT !.pending = TRUE]
           key == spent.keys + 1
           q == [kind |-> "undo", key |-> key, over |-> editor.undo, to |-> editor.undo - 1]
<1>1. /\ Editor!Becomes(e) /\ Editor!Ask("editor", q) /\ editor.undo # None
      /\ UNCHANGED <<log, load, polling>> /\ Editor!Clicked
  BY DEF Editor!UndoLast
<1>2. spent' \in SpentType /\ key \in Nat
  BY <1>1, ClickedIs
<1>3. /\ e \in EditorType /\ e.note = editor.note /\ e.base = editor.base
      /\ e.draft = editor.draft /\ e.undo = editor.undo /\ e.pending = TRUE
  BY EditorParts DEF EditorType
<1>4. editor.undo \in 2 .. Len(log) /\ editor.note # 0
  BY <1>1 DEF EditorInv, Known
<1> HIDE DEF e, key
<1>5. q \in Editor!Requests /\ q.kind = "undo" /\ q.to \in 1 .. Len(log)
  <2>1. editor.undo \in Nat /\ editor.undo - 1 \in Nat /\ editor.undo - 1 \in 1 .. Len(log)
    BY <1>4, EditorParts
  <2> QED BY <1>2, <2>1 DEF Editor!Requests
<1> HIDE DEF q
<1>6. RequestKnown(q)
  BY <1>5 DEF RequestKnown
<1>7. Fits(e)
  BY <1>3, FitsLike
<1> QED BY <1>1, <1>2, <1>3, <1>4, <1>5, <1>6, <1>7, EditorParts, AskIs, BecomesKeeps

LEMMA InspectKeeps ==
  ASSUME EditorInv, Editor!Inspect PROVE EditorInv'
<1>1. PICK kind \in {"file", "undo"}, n \in 1 .. editor.note :
        Editor!Ask("inspector", [kind |-> kind, key |-> spent.keys + 1, over |-> editor.note,
                                 to |-> n])
  BY DEF Editor!Inspect
<1> DEFINE key == spent.keys + 1
           q == [kind |-> kind, key |-> key, over |-> editor.note, to |-> n]
<1>2. /\ editor.note # 0 /\ UNCHANGED <<log, editor, load, polling, shown>> /\ Editor!Clicked
  BY DEF Editor!Inspect
<1>3. spent' \in SpentType /\ key \in Nat
  BY <1>2, ClickedIs
<1>4. editor.note \in Nat /\ editor.note <= Len(log) /\ n \in Nat /\ n \in 1 .. Len(log)
  BY EditorParts DEF EditorType, EditorInv, Known
<1>5. Editor!Ask("inspector", q)
  BY <1>1
<1> HIDE DEF key
<1>6. q \in Editor!Requests /\ q.kind \in {"file", "undo"} /\ q.to = n
  BY <1>3, <1>4 DEF Editor!Requests
<1> HIDE DEF q
<1>7. RequestKnown(q)
  BY <1>4, <1>6 DEF RequestKnown
<1>8. /\ call' \in [Editor!Panes -> Editor!Calls \cup {None}]
      /\ \A o \in Editor!Panes : CallKnown(o)'
      /\ \A o \in Editor!Panes \ {"inspector"} : call'[o] = call[o]
      /\ posted' \subseteq Editor!Requests /\ \A r \in posted' : RequestKnown(r)
  BY <1>2, <1>5, <1>6, <1>7, EditorParts, AskIs
<1>9. call'["editor"] = call["editor"]
  BY <1>8, EditorParts
<1> QED BY <1>2, <1>3, <1>8, <1>9, CallsKeep

LEMMA LoadLatestKeeps ==
  ASSUME EditorInv, Editor!LoadLatest PROVE EditorInv'
<1> DEFINE e == [editor EXCEPT !.dirty = FALSE, !.base = 0, !.conflict = FALSE]
<1>1. /\ Editor!Becomes(e) /\ Editor!AskAgain("window") /\ UNCHANGED <<log, call, posted, spent>>
  BY DEF Editor!LoadLatest
<1>2. load' \in LoadType /\ load'.read = 0 /\ load'.by = "window" /\ polling' = polling
  BY <1>1, AskAgainIs
<1>3. /\ e \in EditorType /\ e.note = editor.note /\ e.base = 0
      /\ e.draft = editor.draft /\ e.undo = editor.undo /\ e.pending = editor.pending
  BY EditorParts DEF EditorType
<1> HIDE DEF e
<1>4. Fits(e)
  BY <1>3, EditorFits DEF Fits
<1> QED BY <1>1, <1>2, <1>3, <1>4, EditorParts, CallStays, BecomesKeeps

\* The server answers q; the panes that wait for it know.
LEMMA AnswerIs ==
  ASSUME EditorInv, NEW q, NEW word \in {"done", "stale"}, NEW rev \in Nat,
         Editor!Answer(q, word, rev), Len(log') \in Nat, Len(log) <= Len(log'),
         word = "done" => rev \in 2 .. Len(log')
  PROVE  /\ call' \in [Editor!Panes -> Editor!Calls \cup {None}]
         /\ \A p \in Editor!Panes : CallKnown(p)'
         /\ \A p \in Editor!Panes : (call'[p] = None) <=> (call[p] = None)
<1>1. ASSUME NEW p \in Editor!Panes
      PROVE  /\ call'[p] \in Editor!Calls \cup {None} /\ CallKnown(p)'
             /\ (call'[p] = None) <=> (call[p] = None)
  <2>1. /\ call[p] \in Editor!Calls \cup {None} /\ CallKnown(p) /\ Len(log) \in Nat
    BY EditorParts
  <2>2. CASE call'[p] = call[p]
    BY <2>1, <2>2 DEF CallKnown
  <2>3. CASE call[p] # None /\ call'[p] = [call[p] EXCEPT !.word = word, !.rev = rev]
    <3> DEFINE c == [call[p] EXCEPT !.word = word, !.rev = rev]
    <3>1. /\ c \in Editor!Calls /\ c.word = word /\ c.rev = rev /\ c.q = call[p].q
          /\ c.before = call[p].before /\ c.then = call[p].then
      BY <2>1, <2>3 DEF Editor!Calls
    <3> HIDE DEF c
    <3>2. call'[p] = c
      BY <2>3 DEF c
    <3>3. call'[p] # None
      BY <3>1, <3>2, EditorBounds
    <3>4. call[p].before \in 1 .. Len(log')
      BY <2>1, <2>3 DEF CallKnown
    <3> QED BY <2>1, <2>3, <3>1, <3>2, <3>3, <3>4 DEF CallKnown
  <2> QED BY <2>2, <2>3 DEF Editor!Answer
<1>2. call' = [p \in Editor!Panes |-> call'[p]]
  BY DEF Editor!Answer
<1> QED BY <1>1, <1>2

LEMMA ResultIs ==
  ASSUME EditorInv, NEW q \in posted PROVE Editor!Result(q) \in Editor!Texts
<1>1. q \in Editor!Requests /\ RequestKnown(q) /\ Len(log) \in 1 .. Len(log)
  BY EditorParts
<1>2. Editor!TextOf(Len(log)) \in Editor!Texts
  BY <1>1, TextAt
<1>3. CASE q.kind = "save"
  BY <1>1, <1>3 DEF Editor!Requests, Editor!Result
<1>4. CASE q.kind = "toggle"
  <2>1. q.to \in BOOLEAN
    BY <1>1, <1>4 DEF Editor!Requests
  <2> QED BY <1>2, <1>4, <2>1 DEF Editor!Result, Editor!Rev, Editor!Texts
<1>5. CASE q.kind = "file"
  BY <1>2, <1>5 DEF Editor!Result, Editor!Rev
<1>6. CASE q.kind = "undo"
  <2>1. Editor!TextOf(q.to) \in Editor!Texts
    BY <1>1, <1>6, TextAt DEF RequestKnown
  <2> QED BY <1>6, <2>1 DEF Editor!Result
<1> QED BY <1>1, <1>3, <1>4, <1>5, <1>6 DEF Editor!Requests

LEMMA EditorServeKeeps ==
  ASSUME EditorInv, NEW q \in posted, Editor!Serve(q) PROVE EditorInv'
<1>1. /\ UNCHANGED <<editor, load, polling, shown, spent>> /\ posted' \subseteq posted
  BY DEF Editor!Serve
<1>2. /\ posted' \subseteq Editor!Requests /\ \A r \in posted' : RequestKnown(r)
      /\ spent' \in SpentType
  BY <1>1, EditorParts
<1>3. CASE Editor!Done(q) # {} /\ log' = log /\ \E n \in Editor!Done(q) : Editor!Answer(q, "done", n)
  <2>1. PICK n \in Editor!Done(q) : Editor!Answer(q, "done", n)
    BY <1>3
  <2>2. n \in 2 .. Len(log) /\ n \in Nat
    <3>1. n \in 1 .. Len(log) /\ log[n].by # None
      BY DEF Editor!Done, Editor!Rev
    <3> QED BY <3>1, EditorParts DEF EditorInv, Known
  <2>3. /\ call' \in [Editor!Panes -> Editor!Calls \cup {None}]
        /\ \A p \in Editor!Panes : CallKnown(p)'
        /\ \A p \in Editor!Panes : (call'[p] = None) <=> (call[p] = None)
    <3>1. Len(log') \in Nat /\ Len(log) <= Len(log') /\ n \in 2 .. Len(log')
      BY <1>3, <2>2, EditorParts
    <3> QED BY <2>1, <2>2, <3>1, AnswerIs
  <2> QED BY <1>1, <1>2, <1>3, <2>3, EditorParts, CallsKeep
<1>4. CASE log' = log /\ Editor!Answer(q, "stale", 0)
  <2>1. /\ call' \in [Editor!Panes -> Editor!Calls \cup {None}]
        /\ \A p \in Editor!Panes : CallKnown(p)'
        /\ \A p \in Editor!Panes : (call'[p] = None) <=> (call[p] = None)
    <3>1. Len(log') \in Nat /\ Len(log) <= Len(log') /\ 0 \in Nat
      BY <1>4, EditorParts
    <3> QED BY <1>4, <3>1, AnswerIs
  <2> QED BY <1>1, <1>2, <1>4, <2>1, EditorParts, CallsKeep
<1>5. CASE /\ q.over = Editor!Rev
           /\ log' = Append(log, [text |-> Editor!Result(q), by |-> q])
           /\ Editor!Answer(q, "done", Editor!Rev + 1)
  <2> DEFINE x == [text |-> Editor!Result(q), by |-> q]
  <2>1. x \in LogType /\ x.by = q /\ q \in Editor!Requests
    BY ResultIs, EditorParts DEF LogType
  <2>2. log' = Append(log, x)
    BY <1>5
  <2> HIDE DEF x
  <2>3. Len(log) \in Nat /\ Len(log) > 0 /\ Len(log') = Len(log) + 1
    BY <2>1, <2>2, LogGrows, EditorParts
  <2>4. /\ call' \in [Editor!Panes -> Editor!Calls \cup {None}]
        /\ \A p \in Editor!Panes : CallKnown(p)'
        /\ \A p \in Editor!Panes : (call'[p] = None) <=> (call[p] = None)
    <3>1. Editor!Answer(q, "done", Len(log) + 1) /\ Len(log) + 1 \in Nat
          /\ Len(log) + 1 \in 2 .. Len(log') /\ Len(log') \in Nat
      BY <1>5, <2>3 DEF Editor!Rev
    <3>2. Len(log) <= Len(log')
      BY <2>3
    <3> QED BY <3>1, <3>2, AnswerIs
  <2>5. q.kind = "save" => Len(log) \in shown
    BY <1>5, EditorParts DEF RequestKnown, Editor!Rev
  <2>6. (call'["editor"] = None) <=> (call["editor"] = None)
    BY <2>4, EditorParts
  <2> QED BY <1>1, <1>2, <2>1, <2>2, <2>4, <2>5, <2>6, RevisionKeeps
<1> QED BY <1>3, <1>4, <1>5 DEF Editor!Serve

LEMMA ElsewhereKeeps ==
  ASSUME EditorInv, Editor!Elsewhere PROVE EditorInv'
<1>1. PICK t \in Editor!Texts : log' = Append(log, [text |-> t, by |-> None])
  BY DEF Editor!Elsewhere
<1> DEFINE x == [text |-> t, by |-> None]
<1>2. x \in LogType /\ x.by = None
  BY DEF LogType
<1>3. UNCHANGED <<editor, load, polling, call, posted, shown>> /\ spent' \in SpentType
  BY SpendIs DEF Editor!Elsewhere
<1>4. log' = Append(log, x)
  BY <1>1
<1> HIDE DEF x
<1>5. Len(log) \in Nat /\ Len(log') = Len(log) + 1
  BY <1>2, <1>4, LogGrows
<1>6. call' \in [Editor!Panes -> Editor!Calls \cup {None}]
  BY <1>3, EditorParts
<1>7. ASSUME NEW p \in Editor!Panes PROVE CallKnown(p)'
  BY <1>3, <1>5, EditorParts DEF CallKnown
<1> QED BY <1>2, <1>3, <1>4, <1>6, <1>7, RevisionKeeps

\* A pane hears that its request is done.
LEMMA AcceptKeeps ==
  ASSUME EditorInv, NEW p \in Editor!Panes, Editor!Accept(p) PROVE EditorInv'
<1> DEFINE c == call[p]
           u == IF p = "editor" /\ c.q.kind = "undo" THEN None ELSE c.rev
           t == Editor!TextOf(c.rev)
           moved == [editor EXCEPT !.note = c.rev]
           fresh == [Editor!Reset(moved) EXCEPT !.undo = u]
           e == Editor!Free(p, fresh)
<1>1. /\ Editor!Becomes(e) /\ call' = [call EXCEPT ![p] = None] /\ Editor!AskAgain("window")
      /\ UNCHANGED <<log, posted, spent>> /\ c # None /\ c.word = "done"
  BY DEF Editor!Accept
<1>2. c.rev \in 2 .. Len(log) /\ c.rev \in 1 .. Len(log) /\ c.rev \in Nat
  BY <1>1, EditorParts DEF CallKnown
<1>3. t \in Editor!Texts /\ t # None /\ u \in Nat \cup {None}
  BY <1>2, TextAt
<1>4. u # None => u \in 2 .. Len(log)
  BY <1>2
<1> HIDE DEF u
<1>5. /\ moved \in EditorType /\ moved.note = c.rev /\ moved.pending = editor.pending
  BY <1>2, EditorParts DEF EditorType
<1>6. Editor!Reset(moved) = [moved EXCEPT !.draft = t, !.base = c.rev, !.dirty = FALSE,
                                          !.conflict = FALSE, !.attempt = None]
  BY <1>5 DEF Editor!Reset
<1> HIDE DEF moved, t
<1>7. /\ fresh \in EditorType /\ fresh.note = c.rev /\ fresh.pending = editor.pending
      /\ fresh.draft = t /\ fresh.base = c.rev /\ fresh.undo = u
  BY <1>2, <1>3, <1>5, <1>6 DEF EditorType, Drafts
<1> HIDE DEF fresh
<1>8. /\ e \in EditorType /\ e.note = c.rev /\ e.draft = t /\ e.base = c.rev /\ e.undo = u
      /\ e.pending = IF p = "editor" THEN FALSE ELSE editor.pending
  BY <1>7 DEF Editor!Free, EditorType
<1> HIDE DEF e
<1>9. Fits(e)
  BY <1>2, <1>3, <1>4, <1>8 DEF Fits, t
<1>10. load' \in LoadType /\ load'.read = 0 /\ load'.by = "window" /\ polling' = polling
  BY <1>1, AskAgainIs
<1>11. /\ call' \in [Editor!Panes -> Editor!Calls \cup {None}]
       /\ \A o \in Editor!Panes : CallKnown(o)'
       /\ e.pending = (call'["editor"] # None)
  <2>1. /\ call' \in [Editor!Panes -> Editor!Calls \cup {None}]
        /\ \A o \in Editor!Panes : CallKnown(o)'
        /\ call'[p] = None /\ \A o \in Editor!Panes \ {p} : call'[o] = call[o]
    BY <1>1, CallDropped
  <2> QED BY <1>8, <2>1, EditorParts
<1> QED BY <1>1, <1>9, <1>10, <1>11, EditorParts, BecomesKeeps

\* A toggle failed: the note falls back to what it was and is loaded.
LEMMA FallBackKeeps ==
  ASSUME EditorInv, call["editor"] # None, NEW word \in {"stale", "lost"}, Editor!FallBack(word),
         spent' \in SpentType
  PROVE  EditorInv'
<1> DEFINE c == call["editor"]
           d == [c EXCEPT !.then = "tell", !.word = word]
           e == [editor EXCEPT !.note = c.before]
<1>1. /\ Editor!Becomes(e) /\ Editor!AskAgain("toggle") /\ UNCHANGED <<log, posted>>
      /\ call' = [call EXCEPT !["editor"] = d]
  BY EditorParts DEF Editor!FallBack
<1>2. c \in Editor!Calls /\ c.before \in 1 .. Len(log) /\ c.before \in Nat
  BY EditorParts DEF CallKnown
<1>3. /\ d \in Editor!Calls /\ d.before = c.before /\ d.word = word
  BY <1>2 DEF Editor!Calls
<1>4. /\ e \in EditorType /\ e.note = c.before /\ e.base = editor.base
      /\ e.draft = editor.draft /\ e.undo = editor.undo /\ e.pending = editor.pending
  BY <1>2, EditorParts DEF EditorType
<1> HIDE DEF d, e
<1>5. /\ call' \in [Editor!Panes -> Editor!Calls \cup {None}] /\ call'["editor"] = d
      /\ \A o \in Editor!Panes \ {"editor"} : call'[o] = call[o]
  BY <1>1, <1>3, EditorParts
<1>6. ASSUME NEW o \in Editor!Panes PROVE CallKnown(o)'
  <2>1. CASE o = "editor"
    BY <1>1, <1>2, <1>3, <1>5, <2>1 DEF CallKnown
  <2>2. CASE o # "editor"
    BY <1>1, <1>5, <2>2, EditorParts DEF CallKnown
  <2> QED BY <2>1, <2>2
<1>7. Fits(e)
  BY <1>2, <1>4, FitsLike
<1>8. load' \in LoadType /\ load'.read = 0 /\ load'.by = "toggle" /\ polling' = polling
  BY <1>1, AskAgainIs
<1>9. e.pending = (call'["editor"] # None)
  BY <1>3, <1>4, <1>5, EditorParts, EditorBounds
<1> QED BY <1>1, <1>5, <1>6, <1>7, <1>8, <1>9, EditorParts, BecomesKeeps

\* The pane p no longer waits, and the editor has or has not a conflict.
LEMMA FreedKeeps ==
  ASSUME EditorInv, NEW p \in Editor!Panes, NEW b \in EditorType,
         b.note = editor.note, b.base = editor.base, b.draft = editor.draft, b.undo = editor.undo,
         b.pending = editor.pending, Editor!Becomes(Editor!Free(p, b)),
         call' = [call EXCEPT ![p] = None], UNCHANGED <<log, load, polling, posted>>,
         spent' \in SpentType
  PROVE  EditorInv'
<1> DEFINE e == Editor!Free(p, b)
<1>1. /\ e \in EditorType /\ e.note = editor.note /\ e.base = editor.base
      /\ e.draft = editor.draft /\ e.undo = editor.undo
      /\ e.pending = IF p = "editor" THEN FALSE ELSE editor.pending
  BY DEF Editor!Free, EditorType
<1> HIDE DEF e
<1>2. Fits(e)
  BY <1>1, FitsLike
<1>3. /\ call' \in [Editor!Panes -> Editor!Calls \cup {None}]
      /\ \A o \in Editor!Panes : CallKnown(o)'
      /\ call'[p] = None /\ \A o \in Editor!Panes \ {p} : call'[o] = call[o]
  BY CallDropped
<1>4. e.pending = (call'["editor"] # None)
  BY <1>1, <1>3, EditorParts
<1>5. Editor!Becomes(e)
  BY DEF e
<1> QED BY <1>2, <1>3, <1>4, <1>5, EditorParts, BecomesKeeps

LEMMA FailsKeeps ==
  ASSUME EditorInv, NEW p \in Editor!Panes, Editor!Refused(p) \/ Editor!Fails(p)
  PROVE  EditorInv'
<1>1. call[p] # None /\ spent' \in SpentType
  BY SpendIs, EditorParts DEF Editor!Refused, Editor!Fails
<1>2. CASE call[p].q.kind = "toggle"
  <2>1. p = "editor"
    BY <1>1, <1>2, EditorParts DEF CallKnown, Editor!Panes
  <2>2. Editor!FallBack("stale") \/ Editor!FallBack("lost")
    BY <1>2 DEF Editor!Refused, Editor!Fails
  <2> QED BY <1>1, <2>1, <2>2, FallBackKeeps
<1>3. CASE call[p].q.kind # "toggle"
  <2> DEFINE b == [editor EXCEPT !.conflict = TRUE]
  <2>1. /\ b \in EditorType /\ b.note = editor.note /\ b.base = editor.base
        /\ b.draft = editor.draft /\ b.undo = editor.undo /\ b.pending = editor.pending
    BY EditorParts DEF EditorType
  <2>2. /\ Editor!Becomes(Editor!Free(p, b)) \/ Editor!Becomes(Editor!Free(p, editor))
        /\ call' = [call EXCEPT ![p] = None] /\ UNCHANGED <<log, load, polling, posted>>
    BY <1>3 DEF Editor!Refused, Editor!Fails
  <2> HIDE DEF b
  <2> QED BY <1>1, <2>1, <2>2, EditorParts, FreedKeeps
<1> QED BY <1>2, <1>3

LEMMA EditorStepKeeps ==
  ASSUME EditorInv, Editor!Next PROVE EditorInv'
BY LoadsKeep, ArriveKeeps, TellLateKeeps, TypeKeeps, SaveKeeps, ToggleKeepsEditor, UndoLastKeeps,
   InspectKeeps, LoadLatestKeeps, ElsewhereKeeps, EditorServeKeeps, AcceptKeeps, FailsKeeps
DEF Editor!Next

LEMMA EditorStutterKeeps ==
  ASSUME EditorInv, UNCHANGED editorVars PROVE EditorInv'
BY DEF EditorInv, editorVars, EditorTypes, Known, Agrees, RequestKnown, CallKnown,
       Editor!OverwritesOnlyWhatWasShown, Editor!Rev

LEMMA EditorInvSuffices ==
  ASSUME EditorInv PROVE Editor!TypeOK /\ Editor!OverwritesOnlyWhatWasShown
<1>1. \A n \in 1 .. Len(log) : log[n].text \in Editor!Texts
  BY TextAt DEF Editor!TextOf
<1>2. {editor.note, editor.base} \subseteq 0 .. Len(log) /\ editor.draft \in Editor!Texts \cup {None}
  BY EditorParts, EditorFits DEF EditorType, Drafts, Fits
<1>3. /\ editor.undo = None \/ editor.undo \in 2 .. Len(log)
      /\ editor.pending = (call["editor"] # None)
      /\ (editor.note = 0) = (editor.draft = None)
      /\ load.by = "timer" => polling
  BY DEF EditorInv, Known, Agrees
<1>4. Editor!TypeOK
  BY <1>1, <1>2, <1>3 DEF Editor!TypeOK, Editor!Rev
<1> QED BY <1>4 DEF EditorInv

-----------------------------------------------------------------------------
(* The browser.                                                            *)

BrowserInv ==
  /\ part = "outbox" => OutboxInv
  /\ part = "key" => KeyInv
  /\ part = "actions" => ActionsInv
  /\ part = "search" => SearchInv
  /\ part = "editor" => EditorInv

LEMMA BrowserBegins ==
  ASSUME Init PROVE BrowserInv
BY OutboxBegins, KeyBegins, ActionsBegin, SearchBegins, EditorBegins DEF Init, BrowserInv

LEMMA BrowserStep ==
  ASSUME BrowserInv, [Next]_vars PROVE BrowserInv'
<1>1. part' = part
  BY DEF Next, vars
<1>2. CASE part = "outbox"
  <2>1. OutboxInv /\ (Outbox!Next \/ UNCHANGED outboxVars)
    BY <1>2 DEF BrowserInv, Next, vars
  <2>2. OutboxInv'
    BY <2>1, OutboxStepKeeps, OutboxStutterKeeps
  <2> QED BY <1>1, <1>2, <2>2 DEF BrowserInv
<1>3. CASE part = "key"
  <2>1. KeyInv /\ (Key!Next \/ UNCHANGED keyVars)
    BY <1>3 DEF BrowserInv, Next, vars
  <2>2. KeyInv'
    BY <2>1, KeyStepKeeps, KeyStutterKeeps
  <2> QED BY <1>1, <1>3, <2>2 DEF BrowserInv
<1>4. CASE part = "actions"
  <2>1. ActionsInv /\ (Actions!Next \/ UNCHANGED actionVars)
    BY <1>4 DEF BrowserInv, Next, vars
  <2>2. ActionsInv'
    BY <2>1, ActionsStepKeeps, ActionsStutterKeeps
  <2> QED BY <1>1, <1>4, <2>2 DEF BrowserInv
<1>5. CASE part = "search"
  <2>1. SearchInv /\ (Search!Next \/ UNCHANGED searchVars)
    BY <1>5 DEF BrowserInv, Next, vars
  <2>2. SearchInv'
    BY <2>1, SearchStepKeeps, SearchStutterKeeps
  <2> QED BY <1>1, <1>5, <2>2 DEF BrowserInv
<1>6. CASE part = "editor"
  <2>1. EditorInv /\ (Editor!Next \/ UNCHANGED editorVars)
    BY <1>6 DEF BrowserInv, Next, vars
  <2>2. EditorInv'
    BY <2>1, EditorStepKeeps, EditorStutterKeeps
  <2> QED BY <1>1, <1>6, <2>2 DEF BrowserInv
<1>7. CASE part \notin {"outbox", "key", "actions", "search", "editor"}
  BY <1>1, <1>7 DEF BrowserInv
<1> QED BY <1>2, <1>3, <1>4, <1>5, <1>6, <1>7

LEMMA BrowserAlways == Spec => []BrowserInv
<1>1. Init => BrowserInv
  BY BrowserBegins
<1>2. BrowserInv /\ [Next]_vars => BrowserInv'
  BY BrowserStep
<1> QED BY <1>1, <1>2, PTL DEF Spec

\* Every variable of the browser has the values its component gives it.
THEOREM BrowserTypes == Spec => []TypeOK
<1>1. BrowserInv => TypeOK
  BY OutboxInvSuffices, KeyInvSuffices, ActionsInvSuffices, SearchInvSuffices, EditorInvSuffices
  DEF BrowserInv, TypeOK
<1> QED BY BrowserAlways, <1>1, PTL

\* What the owner was told is saved is in the browser until the server has it,
\* and what is marked synced the server has (browser-outbox, its store and its
\* provider), for every number of tabs and captures, of attempts and of captures
\* flushed at once.
THEOREM SavedIsNotLost == Spec => []NothingLost
<1>1. BrowserInv => NothingLost
  BY OutboxInvSuffices DEF BrowserInv, NothingLost
<1> QED BY BrowserAlways, <1>1, PTL

\* However many tabs come first at once, every record can be opened with the key
\* that is kept (getOrCreateKey and the writes sealed under it).
THEOREM KeyOpensEverything == Spec => []Openable
<1>1. BrowserInv => Openable
  BY KeyInvSuffices DEF BrowserInv, Openable
<1> QED BY BrowserAlways, <1>1, PTL

\* A change the server has made is asked for again only under its key, and a
\* deletion it has made is not forgotten (the capture actions and their replay),
\* for every number of runs, of receipts and of removals, any of which may be
\* asked for in one behaviour.
THEOREM IntentsOfTheOwner == Spec => []IntentsKept
<1>1. BrowserInv => IntentsKept
  BY ActionsInvSuffices DEF BrowserInv, IntentsKept
<1> QED BY BrowserAlways, <1>1, PTL

\* A list of the web library that says there is no more has all there is
\* (usePrivateSearch over the pages of the server), for every number of notes,
\* of results on a page, of edits and of uses of the switch.
THEOREM EndedListHasAll == Spec => []EndedIsComplete
<1>1. BrowserInv => EndedIsComplete
  BY SearchInvSuffices DEF BrowserInv, EndedIsComplete
<1> QED BY BrowserAlways, <1>1, PTL

\* A save of the note editor goes only over a revision whose text the draft has
\* been (NoteEditor, its loads and the guard of the server), whatever others
\* write, and however many toggles, undos, loads and lost answers there are.
THEOREM NothingOverwrittenUnseen == Spec => []OverwritesOnlyWhatWasShown
<1>1. BrowserInv => OverwritesOnlyWhatWasShown
  BY EditorInvSuffices DEF BrowserInv, OverwritesOnlyWhatWasShown
<1> QED BY BrowserAlways, <1>1, PTL
=============================================================================
