----------------------------- MODULE BrowserKey -----------------------------
(***************************************************************************)
(* The key a profile's browser records are sealed under.  It is generated  *)
(* by whichever tab first needs it and kept in IndexedDB for all of them;  *)
(* a tab's operations share one attempt to get it.  Between any two awaits *)
(* another tab may act, and a tab may be closed.                           *)
(*                                                                         *)
(* Abstracted: what is sealed, and that the key is bound to its profile.   *)
(* clearProfile, which nothing calls, is left out.                         *)
(***************************************************************************)
EXTENDS Integers, FiniteSets

CONSTANTS
  Tabs, Writes,   \* Writes: the sealed writes of each tab
  MaxKey          \* bound: keys generated

BrowserKeyAssumption == MaxKey \in Nat

VARIABLES
  stored,     \* the profile-keys record, 0 when there is none
  sealed,     \* the keys records are sealed under
  pending,    \* pendingKeys of each tab
  write,      \* each write of each tab
  generated   \* keys generated so far

vars == <<stored, sealed, pending, write, generated>>

Keys == 1..MaxKey
NoFlight == [pc |-> "none", key |-> 0]
Unwritten == [pc |-> "idle", key |-> 0]

Init ==
  /\ stored = 0 /\ sealed = {} /\ generated = 0
  /\ pending = [t \in Tabs |-> NoFlight]
  /\ write = [t \in Tabs |-> [w \in Writes |-> Unwritten]]

-----------------------------------------------------------------------------
\* saveDraft, enqueueCapture, actionRecord come to encrypt; ensureKey joins or starts.
Begin(t, w) ==
  /\ write[t][w].pc = "idle"
  /\ write' = [write EXCEPT ![t][w].pc = "waits"]
  /\ pending' = IF pending[t] = NoFlight THEN [pending EXCEPT ![t].pc = "get"] ELSE pending
  /\ UNCHANGED <<stored, sealed, generated>>

\* The shared attempt ends: its writes go on with the key, or fail.
Resolve(t, k) ==
  /\ pending' = [pending EXCEPT ![t] = NoFlight]
  /\ write' = [write EXCEPT ![t] = [w \in Writes |->
       IF @[w].pc # "waits" THEN @[w] ELSE IF k = 0 THEN Unwritten ELSE [pc |-> "put", key |-> k]]]

GetKey(t) ==
  /\ pending[t].pc = "get"
  /\ \/ stored # 0 /\ Resolve(t, stored)
     \/ /\ stored = 0 /\ pending' = [pending EXCEPT ![t].pc = "orphans"]
        /\ UNCHANGED write
  /\ UNCHANGED <<stored, sealed, generated>>

\* Content without its key is never given a new one.
CheckOrphans(t) ==
  /\ pending[t].pc = "orphans"
  /\ \/ sealed # {} /\ Resolve(t, 0) /\ UNCHANGED generated
     \/ /\ sealed = {} /\ generated < MaxKey
        /\ generated' = generated + 1
        /\ pending' = [pending EXCEPT ![t] = [pc |-> "add", key |-> generated + 1]]
        /\ UNCHANGED write
  /\ UNCHANGED <<stored, sealed>>

\* (mutant) the key is put, over one another tab has just added
PutKey(t) ==
  /\ pending[t].pc = "add"
  /\ stored' = pending[t].key
  /\ Resolve(t, pending[t].key)
  /\ UNCHANGED <<sealed, generated>>

\* addKey adds only where there is none.
AddKey(t) ==
  /\ pending[t].pc = "add"
  /\ \/ stored = 0 /\ stored' = pending[t].key /\ Resolve(t, pending[t].key)
     \/ /\ stored # 0 /\ pending' = [pending EXCEPT ![t].pc = "winner"]
        /\ UNCHANGED <<stored, write>>
  /\ UNCHANGED <<sealed, generated>>

GetWinner(t) ==
  /\ pending[t].pc = "winner"
  /\ Resolve(t, stored)
  /\ UNCHANGED <<stored, sealed, generated>>

\* putRecord, addRecord, replaceRecords
Put(t, w) ==
  /\ write[t][w].pc = "put"
  /\ sealed' = sealed \cup {write[t][w].key}
  /\ write' = [write EXCEPT ![t][w] = [pc |-> "done", key |-> 0]]
  /\ UNCHANGED <<stored, pending, generated>>

\* Another write of the same kind.
Again(t, w) ==
  /\ write[t][w].pc = "done"
  /\ write' = [write EXCEPT ![t][w] = Unwritten]
  /\ UNCHANGED <<stored, sealed, pending, generated>>

Close(t) ==
  /\ pending' = [pending EXCEPT ![t] = NoFlight]
  /\ write' = [write EXCEPT ![t] = [w \in Writes |-> Unwritten]]
  /\ UNCHANGED <<stored, sealed, generated>>

Next ==
  \E t \in Tabs :
    \/ GetKey(t) \/ CheckOrphans(t) \/ AddKey(t) \/ GetWinner(t) \/ Close(t)
    \/ \E w \in Writes : Begin(t, w) \/ Put(t, w) \/ Again(t, w)

Spec == Init /\ [][Next]_vars

-----------------------------------------------------------------------------
TypeOK ==
  /\ stored \in 0..MaxKey /\ sealed \subseteq Keys /\ generated \in 0..MaxKey
  /\ pending \in [Tabs -> [pc : {"none", "get", "orphans", "add", "winner"}, key : 0..MaxKey]]
  /\ write \in [Tabs -> [Writes -> [pc : {"idle", "waits", "put", "done"}, key : 0..MaxKey]]]

\* Whatever tabs come first, every record can be opened with the key that is kept: two tabs never
\* seal under two keys, and no key is generated over content.
Openable == sealed \subseteq {stored}
=============================================================================
