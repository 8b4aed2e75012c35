-------------------------- MODULE NoteWrite_proofs --------------------------
(***************************************************************************)
(* For any number of requests, keys and servers and with no bound on       *)
(* writers elsewhere, rotations and losses: the write of a note does what  *)
(* WriteOnce promises, and each mutation is built on its base.             *)
(***************************************************************************)
EXTENDS NoteWrite, TLAPS

-----------------------------------------------------------------------------
(* The inductive invariant.                                                *)

There == {"live", "trash"}
Mutations == [by : Keys \cup {Other}, built : Nat, was : There \cup {"absent"},
              before : Classes, after : Classes, class : Classes]
KeyVersions == [mac : Nat, wrap : Nat]

\* What a server has read of the note, and where it is with a request.
Readings == [rev : Nat, before : Classes, after : Classes, then : There]
Read0 == Readings \cup {None}
Lookers == [pc : {"look", "read"}, req : Requests, try : {1, 2}, read : Read0]
Preparers == [pc : {"prepare"}, req : Requests, try : {1, 2}, read : Read0, mac : Nat]
Builders == [pc : {"build"}, req : Requests, read : Read0]
Appliers == [pc : {"apply"}, req : Requests, read : Readings, sealed : KeyVersions]
Repliers == [pc : {"reply"}, req : Requests, word : {"done", "refused", "again"},
             stored : Stored \cup {None}]
Idlers == [pc : {"idle"}]
Works == Idlers \cup Lookers \cup Preparers \cup Builders \cup Appliers \cup Repliers

Typed ==
  /\ log \in Seq(Mutations) /\ note \in There \cup {"absent", "purged"}
  /\ expected \in [Requests -> Nat \cup {Unasked}]
  /\ claim \in [Keys -> Claims \cup {None}]
  /\ receipt \in [Keys -> Stored \cup {None}]
  /\ server \in [Servers -> Works]
  /\ outcome \in [Requests -> {"waiting", "done", "refused", "left"}]
  /\ answers \in [Requests -> SUBSET Stored]
  /\ key \in KeyVersions /\ spent \in [elsewhere : Nat, faults : Nat]

\* The note is there once it has a revision, and was when it got another.
Present ==
  /\ (note = "absent") = (Rev = 0)
  /\ \A n \in 1 .. Rev : n > 1 => log[n].was \in There

\* A request names a revision the note has had; a creation names none.
AskedAs(r) == IF Want[r] = "create" THEN expected[r] = 0 ELSE expected[r] \in 1 .. Rev
Asked == \A r \in Requests : expected[r] # Unasked => AskedAs(r)

\* A claim is of a request under its key and is done exactly when the answer
\* is stored; until the claim of the creation is done there is no note.
ClaimedAs(k) ==
  LET c == claim[k] IN
  /\ KeyOf[c.req] = k /\ expected[c.req] # Unasked /\ c.expected = expected[c.req]
  /\ c.class = HistoryClass(c.before, c.after)
  /\ c.done = (receipt[k] # None)
  /\ c.done => receipt[k].req = c.req
  /\ Want[c.req] = "create" /\ ~c.done => Rev = 0
Claimed == \A k \in Keys : IF claim[k] = None THEN receipt[k] = None ELSE ClaimedAs(k)

\* A server works for the claim of its request, on the revision it names, and
\* answers what is stored.
ServesAs(w) ==
  w.pc # "idle" =>
    LET k == KeyOf[w.req] IN
    /\ expected[w.req] # Unasked
    /\ w.pc = "prepare" /\ claim[k] = None => w.read \in Readings
    /\ w.pc \in {"build", "apply"} => claim[k] # None /\ claim[k].req = w.req
    /\ w.pc = "apply" => w.read.rev = claim[k].expected
    /\ w.pc = "reply" /\ w.word = "done" =>
         w.stored = receipt[k] /\ receipt[k] # None /\ receipt[k].req = w.req
Serves == \A s \in Servers : ServesAs(server[s])

IInv == Typed /\ Present /\ Asked /\ Claimed /\ Serves /\ BuiltOnItsBase

-----------------------------------------------------------------------------
(* Lemmas on what a server reads and how it goes on.                       *)

\* The class of the note at any revision is one of the two.
LEMMA ClassTyped ==
  ASSUME Typed, NEW n \in 0 .. Rev
  PROVE  ClassAt(n) \in Classes
<1>1. n # 0 => n \in 1 .. Len(log)
  BY DEF Rev
<1>2. n # 0 => log[n] \in Mutations
  BY <1>1 DEF Typed
<1> QED
  BY <1>2 DEF ClassAt, Classes, Mutations

\* Revisions are counted.
LEMMA RevTyped == ASSUME Typed PROVE Rev \in Nat
  BY DEF Typed, Rev

\* What a server reads of a note that is there, or that is to be created, is
\* a reading of the present revision.
LEMMA ReadingTyped ==
  ASSUME IInv, NEW r \in Requests, expected[r] # Unasked, ~Missing(r)
  PROVE  Reading(r) \in Readings
<1>1. Rev \in Nat /\ ClassAt(Rev) \in Classes
  BY RevTyped, ClassTyped DEF IInv
<1>2. Want[r] \in Wants
  BY RequestAssumption
<1>3. Want[r] # "create" => expected[r] \in 1 .. Rev
  BY DEF IInv, Asked, AskedAs
<1>4. ClassAfter(r) \in Classes
  <2>1. Want[r] = "undo" /\ expected[r] > 1 => expected[r] - 1 \in 0 .. Rev
    BY <1>1, <1>3
  <2>2. Want[r] = "undo" /\ expected[r] > 1 => ClassAt(expected[r] - 1) \in Classes
    BY <2>1, ClassTyped DEF IInv
  <2> QED
    BY <1>1, <2>2 DEF ClassAfter, Classes
<1>5. NoteAfter(r) \in There
  <2>1. Want[r] # "create" => note \in There
    BY DEF Missing, IInv, Typed
  <2>2. Want[r] = "undo" /\ expected[r] # 1 => log[expected[r]].was \in There
    BY <1>1, <1>3 DEF IInv, Present
  <2>3. CASE Want[r] = "create"
    BY <2>3 DEF NoteAfter, There
  <2>4. CASE Want[r] = "trash" \/ (Want[r] = "undo" /\ expected[r] = 1)
    BY <2>4 DEF NoteAfter, There
  <2>5. CASE Want[r] = "undo" /\ expected[r] # 1
    BY <2>2, <2>5 DEF NoteAfter
  <2>6. CASE Want[r] \notin {"create", "trash", "undo"}
    BY <2>1, <2>6 DEF NoteAfter
  <2> QED
    BY <2>3, <2>4, <2>5, <2>6
<1> QED
  BY <1>1, <1>4, <1>5 DEF Reading, Readings

\* A server goes on; what it goes on as agrees with the claims.
LEMMA Onward ==
  ASSUME IInv, NEW s \in Servers, NEW w \in Works, ServesAs(w), To(s, w),
         UNCHANGED <<log, note, expected, claim, receipt>>,
         outcome' \in [Requests -> {"waiting", "done", "refused", "left"}],
         answers' \in [Requests -> SUBSET Stored],
         key' \in KeyVersions, spent' \in [elsewhere : Nat, faults : Nat]
  PROVE  IInv'
<1>1. Typed'
  BY DEF IInv, Typed, To
<1>2. Present' /\ Asked' /\ Claimed' /\ BuiltOnItsBase'
  BY DEF IInv, Present, Asked, AskedAs, Claimed, ClaimedAs, BuiltOnItsBase, Rev
<1>3. Serves'
  <2> SUFFICES ASSUME NEW v \in Servers PROVE ServesAs(server[v])'
    BY DEF Serves
  <2>1. server'[v] = IF v = s THEN w ELSE server[v]
    BY DEF To, IInv, Typed
  <2>2. ServesAs(server[v])
    BY DEF IInv, Serves
  <2> QED
    BY <2>1, <2>2 DEF ServesAs
<1> QED
  BY <1>1, <1>2, <1>3 DEF IInv

\* The same of a step that keeps the rest as it is.
LEMMA Going ==
  ASSUME IInv, NEW s \in Servers, NEW w \in Works, ServesAs(w), To(s, w),
         UNCHANGED <<claim, receipt>>, Keeps
  PROVE  IInv'
<1>1. UNCHANGED <<log, note, expected, outcome, answers, key, spent>>
  BY DEF Keeps
<1>2. /\ outcome' \in [Requests -> {"waiting", "done", "refused", "left"}]
      /\ answers' \in [Requests -> SUBSET Stored]
      /\ key' \in KeyVersions /\ spent' \in [elsewhere : Nat, faults : Nat]
  BY <1>1 DEF IInv, Typed
<1> QED
  BY <1>1, <1>2, Onward

\* Nothing it could answer is wrong to refuse or to put off.
LEMMA Saying ==
  ASSUME IInv, NEW s \in Servers, server[s].pc # "idle", NEW word \in {"refused", "again"},
         Say(s, word), UNCHANGED <<claim, receipt>>, Keeps
  PROVE  IInv'
<1> DEFINE w == [pc |-> "reply", req |-> server[s].req, word |-> word, stored |-> None]
<1>1. server[s] \in Works /\ ServesAs(server[s])
  BY DEF IInv, Typed, Serves
<1>2. server[s].req \in Requests /\ expected[server[s].req] # Unasked
  BY <1>1 DEF Works, Idlers, Lookers, Preparers, Builders, Appliers, Repliers, ServesAs
<1>3. w \in Works
  BY <1>2 DEF Works, Repliers
<1>4. ServesAs(w)
  BY <1>2 DEF ServesAs
<1>5. To(s, w)
  BY DEF Say
<1> QED
  BY <1>3, <1>4, <1>5, Going

\* The answer of a done claim is the one that is stored.
LEMMA Opening ==
  ASSUME IInv, NEW s \in Servers, server[s].pc # "idle", NEW r \in Requests, server[s].req = r,
         claim[KeyOf[r]] # None, claim[KeyOf[r]].req = r, claim[KeyOf[r]].done,
         Open(s, receipt[KeyOf[r]]), UNCHANGED <<claim, receipt>>, Keeps
  PROVE  IInv'
<1> DEFINE w == [pc |-> "reply", req |-> r, word |-> "done", stored |-> receipt[KeyOf[r]]]
<1>1. expected[r] # Unasked
  BY DEF IInv, Serves, ServesAs
<1>2. KeyOf[r] \in Keys
  BY RequestAssumption
<1>3. receipt[KeyOf[r]] # None /\ receipt[KeyOf[r]].req = r
  BY <1>2 DEF IInv, Claimed, ClaimedAs
<1>4. w \in Works
  BY <1>2 DEF Works, Repliers, IInv, Typed
<1>5. ServesAs(w)
  BY <1>1, <1>3 DEF ServesAs
<1>6. To(s, w)
  BY DEF Open
<1> QED
  BY <1>4, <1>5, <1>6, Going

-----------------------------------------------------------------------------
(* One lemma per action.                                                   *)

\* What is left to show of a step.
LEMMA Begins == IInv' <=> (Typed' /\ Present' /\ Asked' /\ Claimed' /\ Serves' /\ BuiltOnItsBase')
  BY DEF IInv

\* A request names a revision the note has.
LEMMA AskStep == ASSUME IInv, NEW r \in Requests, Ask(r) PROVE IInv'
<1>1. PICK e \in (IF Want[r] = "create" THEN {0} ELSE 1 .. Rev) :
        expected' = [expected EXCEPT ![r] = e]
  BY DEF Ask
<1>2. UNCHANGED <<log, note, claim, receipt, server, outcome, answers, key, spent>>
  BY DEF Ask
<1>3. Rev \in Nat
  BY RevTyped DEF IInv
<1>4. expected[r] = Unasked /\ \A q \in Requests : expected[q] # Unasked => expected'[q] = expected[q]
  BY <1>1 DEF Ask, IInv, Typed
<1>5. Typed'
  BY <1>1, <1>2, <1>3 DEF IInv, Typed
<1>6. Present' /\ BuiltOnItsBase'
  BY <1>2 DEF IInv, Present, BuiltOnItsBase, Rev
<1>7. Asked'
  BY <1>1, <1>2, <1>3, NameAssumption DEF IInv, Asked, AskedAs, Typed, Rev
<1>8. Claimed'
  <2> SUFFICES ASSUME NEW k \in Keys, claim[k] # None PROVE ClaimedAs(k)'
    BY <1>2 DEF IInv, Claimed
  <2>1. ClaimedAs(k) /\ claim[k].req \in Requests
    BY DEF IInv, Claimed, Typed, Claims
  <2> QED
    BY <1>2, <1>4, <2>1 DEF ClaimedAs, Rev
<1>9. Serves'
  <2> SUFFICES ASSUME NEW s \in Servers PROVE ServesAs(server[s])'
    BY DEF Serves
  <2>1. ServesAs(server[s]) /\ server[s] \in Works
    BY DEF IInv, Serves, Typed
  <2>2. server[s].pc # "idle" => server[s].req \in Requests
    BY <2>1 DEF Works, Idlers, Lookers, Preparers, Builders, Appliers, Repliers
  <2> QED
    BY <1>2, <1>4, <2>1, <2>2 DEF ServesAs
<1> QED
  BY <1>5, <1>6, <1>7, <1>8, <1>9, Begins

\* A server begins by looking for a claim.
LEMMA SendStep ==
  ASSUME IInv, NEW r \in Requests, NEW s \in Servers, Send(s, r) PROVE IInv'
<1> DEFINE w == [pc |-> "look", req |-> r, try |-> 1, read |-> None]
<1>1. w \in Works
  BY DEF Works, Lookers, Read0
<1>2. ServesAs(w)
  BY DEF Send, ServesAs
<1>3. To(s, w) /\ UNCHANGED <<claim, receipt>> /\ Keeps
  BY DEF Send, To, Keeps
<1> QED
  BY <1>1, <1>2, <1>3, Going

\* A claim found is followed, or the request is refused.
LEMMA LookStep == ASSUME IInv, NEW s \in Servers, Look(s) PROVE IInv'
<1> DEFINE w == server[s]
           c == claim[KeyOf[w.req]]
<1>1. w \in Lookers /\ ServesAs(w)
  BY DEF Look, IInv, Typed, Serves, Works, Idlers, Preparers, Builders, Appliers, Repliers
<1>2. KeyOf[w.req] \in Keys /\ expected[w.req] # Unasked /\ w.pc = "look"
  BY <1>1, RequestAssumption DEF ServesAs, Look, Lookers
<1>3. UNCHANGED <<claim, receipt>> /\ Keeps
  BY DEF Look
<1>4. CASE c = None
  <2> DEFINE v == [w EXCEPT !.pc = "read"]
  <2>1. v \in Works
    BY <1>1 DEF Works, Lookers
  <2>2. ServesAs(v)
    BY <1>1, <1>2 DEF ServesAs, Lookers
  <2>3. To(s, v)
    BY <1>4 DEF Look
  <2> QED
    BY <1>3, <2>1, <2>2, <2>3, Going
<1>5. CASE c # None /\ SameScope(c.req, w.req) /\ c.expected = expected[w.req]
  <2> DEFINE v == [pc |-> "prepare", req |-> w.req, try |-> 2, read |-> w.read, mac |-> c.mac]
  <2>1. c.mac \in Nat
    BY <1>2, <1>5 DEF IInv, Typed, Claims
  <2>2. v \in Works
    BY <1>1, <2>1 DEF Works, Lookers, Preparers
  <2>3. ServesAs(v)
    BY <1>2, <1>5 DEF ServesAs
  <2>4. To(s, v)
    BY <1>5 DEF Look
  <2> QED
    BY <1>3, <2>2, <2>3, <2>4, Going
<1>6. CASE c # None /\ ~(SameScope(c.req, w.req) /\ c.expected = expected[w.req])
  <2>1. Say(s, "refused")
    BY <1>6 DEF Look
  <2> QED
    BY <1>2, <1>3, <2>1, Saying
<1> QED
  BY <1>4, <1>5, <1>6

\* The note is read at its present revision.
LEMMA ReadStep == ASSUME IInv, NEW s \in Servers, Read(s) PROVE IInv'
<1> DEFINE w == server[s]
           v == [pc |-> "prepare", req |-> w.req, try |-> w.try, mac |-> key.mac,
                 read |-> IF w.read = None THEN Reading(w.req) ELSE w.read]
<1>1. w \in Lookers /\ ServesAs(w)
  BY DEF Read, IInv, Typed, Serves, Works, Idlers, Preparers, Builders, Appliers, Repliers
<1>2. expected[w.req] # Unasked /\ w.pc = "read" /\ w.req \in Requests
  BY <1>1 DEF ServesAs, Read, Lookers
<1>3. UNCHANGED <<claim, receipt>> /\ Keeps
  BY DEF Read
<1>4. CASE Missing(w.req)
  BY <1>2, <1>3, <1>4, Saying DEF Read
<1>5. CASE ~Missing(w.req)
  <2>1. v.read \in Readings
    BY <1>1, <1>2, <1>5, ReadingTyped DEF Lookers, Read0
  <2>2. key.mac \in Nat
    BY DEF IInv, Typed, KeyVersions
  <2>3. v \in Works
    BY <1>1, <2>1, <2>2 DEF Works, Lookers, Preparers, Read0
  <2>4. ServesAs(v)
    BY <1>2, <2>1 DEF ServesAs
  <2>5. To(s, v)
    BY <1>5 DEF Read
  <2> QED
    BY <1>3, <2>3, <2>4, <2>5, Going
<1> QED
  BY <1>4, <1>5

\* A claim is resumed only by its own request.
LEMMA ResumeStep == ASSUME IInv, NEW s \in Servers, Resume(s) PROVE IInv'
<1> DEFINE w == server[s]
           c == claim[KeyOf[w.req]]
<1>1. w \in Preparers /\ ServesAs(w)
  BY DEF Resume, IInv, Typed, Serves, Works, Idlers, Lookers, Builders, Appliers, Repliers
<1>2. /\ expected[w.req] # Unasked /\ w.pc = "prepare" /\ w.req \in Requests
      /\ KeyOf[w.req] \in Keys /\ c # None
  BY <1>1, RequestAssumption DEF ServesAs, Resume, Preparers
<1>3. UNCHANGED <<claim, receipt>> /\ Keeps
  BY DEF Resume
<1>4. CASE SameRequest(s, c) /\ c.done
  <2>1. Open(s, receipt[KeyOf[w.req]])
    BY <1>4 DEF Resume
  <2> QED
    BY <1>2, <1>3, <1>4, <2>1, Opening DEF SameRequest
<1>5. CASE SameRequest(s, c) /\ ~c.done
  <2> DEFINE v == [pc |-> "build", req |-> w.req, read |-> w.read]
  <2>1. v \in Works
    BY <1>1 DEF Works, Preparers, Builders
  <2>2. ServesAs(v)
    BY <1>2, <1>5 DEF ServesAs, SameRequest
  <2>3. To(s, v)
    BY <1>5 DEF Resume
  <2> QED
    BY <1>3, <2>1, <2>2, <2>3, Going
<1>6. CASE ~SameRequest(s, c) /\ w.try = 1
  <2> DEFINE v == [pc |-> "look", req |-> w.req, try |-> 2, read |-> w.read]
  <2>1. v \in Works
    BY <1>1 DEF Works, Preparers, Lookers
  <2>2. ServesAs(v)
    BY <1>2 DEF ServesAs
  <2>3. To(s, v)
    BY <1>6 DEF Resume
  <2> QED
    BY <1>3, <2>1, <2>2, <2>3, Going
<1>7. CASE ~SameRequest(s, c) /\ w.try # 1
  <2>1. Say(s, "refused")
    BY <1>7 DEF Resume
  <2> QED
    BY <1>2, <1>3, <2>1, Saying
<1> QED
  BY <1>4, <1>5, <1>6, <1>7

\* A key that nobody has claimed is claimed; for a creation there is no note.
LEMMA PrepareStep == ASSUME IInv, NEW s \in Servers, Prepare(s) PROVE IInv'
<1> DEFINE w == server[s]
           r == w.req
           k == KeyOf[r]
           source == IF Want[r] = "create" THEN w.read.after ELSE ClassAt(Rev)
           c == [req |-> r, expected |-> expected[r], before |-> source, mac |-> w.mac,
                 after |-> w.read.after, class |-> HistoryClass(source, w.read.after),
                 done |-> FALSE]
           v == [pc |-> "build", req |-> r, read |-> w.read]
<1>1. w \in Preparers /\ ServesAs(w)
  BY DEF Prepare, IInv, Typed, Serves, Works, Idlers, Lookers, Builders, Appliers, Repliers
<1>2. /\ expected[r] # Unasked /\ w.pc = "prepare" /\ r \in Requests
      /\ k \in Keys /\ claim[k] = None /\ w.read \in Readings
  BY <1>1, RequestAssumption DEF ServesAs, Prepare, Preparers
<1>3. UNCHANGED receipt /\ UNCHANGED <<log, note, expected, outcome, answers, key, spent>>
  BY DEF Prepare, Keeps
<1>4. CASE Missing(r) \/ Rev # expected[r] \/ w.mac # key.mac
  <2>1. Say(s, "refused") /\ UNCHANGED claim
    BY <1>4 DEF Prepare
  <2> QED
    BY <1>2, <1>3, <2>1, Saying DEF Keeps
<1>5. CASE ~Missing(r) /\ Rev = expected[r] /\ w.mac = key.mac
  <2>1. server' = [server EXCEPT ![s] = v] /\ claim' = [claim EXCEPT ![k] = c]
    BY <1>5 DEF Prepare, To
  <2>2. Rev \in Nat /\ ClassAt(Rev) \in Classes
    BY RevTyped, ClassTyped DEF IInv
  <2>3. c \in Claims
    <3>1. source \in Classes /\ w.read.after \in Classes
      BY <1>2, <2>2 DEF Readings
    <3>2. HistoryClass(source, w.read.after) \in Classes
      BY DEF HistoryClass, Classes
    <3>3. expected[r] \in Nat /\ w.mac \in Nat
      BY <1>1, <1>5, <2>2 DEF Preparers
    <3> QED
      BY <1>2, <3>1, <3>2, <3>3 DEF Claims
  <2>4. c # None
    BY <2>3, NameAssumption
  <2>5. v \in Works
    BY <1>1 DEF Works, Preparers, Builders
  <2>6. Typed'
    BY <1>3, <2>1, <2>3, <2>5 DEF IInv, Typed
  <2>7. claim'[k] = c /\ \A i \in Keys \ {k} : claim'[i] = claim[i]
    BY <1>2, <2>1 DEF IInv, Typed
  <2>8. Present' /\ Asked' /\ BuiltOnItsBase'
    BY <1>3 DEF IInv, Present, Asked, AskedAs, BuiltOnItsBase, Rev
  <2>9. Claimed'
    \* The key by a name of its own: k' would be the key of what s works on next.
    <3>1. PICK h \in Keys : h = k
      BY <1>2
    <3>2. claim'[h] = c /\ receipt'[h] = None
      BY <1>2, <1>3, <2>7, <3>1 DEF IInv, Claimed
    <3>3. ClaimedAs(h)'
      <4>1. Want[r] = "create" => Rev' = 0
        BY <1>2, <1>3, <1>5 DEF IInv, Asked, AskedAs, Rev
      <4>2. expected'[r] = expected[r] /\ KeyOf[r] = h
        BY <1>3, <3>1
      <4>3. /\ c.req = r /\ c.expected = expected[r] /\ c.done = FALSE
            /\ c.class = HistoryClass(c.before, c.after)
        OBVIOUS
      <4> HIDE DEF c, source, r
      <4> QED
        BY <1>2, <3>2, <4>1, <4>2, <4>3 DEF ClaimedAs, HistoryClass
    <3>4. ASSUME NEW i \in Keys, i # h
          PROVE  IF claim'[i] = None THEN receipt'[i] = None ELSE ClaimedAs(i)'
      <4>1. claim'[i] = claim[i] /\ receipt' = receipt /\ expected' = expected /\ Rev' = Rev
        BY <1>3, <2>7, <3>1, <3>4 DEF Rev
      <4>2. IF claim[i] = None THEN receipt[i] = None ELSE ClaimedAs(i)
        BY DEF IInv, Claimed
      <4> QED
        BY <4>1, <4>2 DEF ClaimedAs
    <3>5. claim'[h] # None
      BY <2>4, <3>2
    <3> HIDE DEF c, k
    <3> QED
      BY <3>3, <3>4, <3>5 DEF Claimed
  <2>10. Serves'
    <3> SUFFICES ASSUME NEW t \in Servers PROVE ServesAs(server[t])'
      BY DEF Serves
    <3>1. CASE t = s
      <4>1. server'[t] = v
        BY <2>1, <3>1 DEF IInv, Typed
      <4> QED
        BY <1>2, <1>3, <2>4, <2>7, <4>1 DEF ServesAs
    <3>2. CASE t # s
      <4>1. server'[t] = server[t] /\ ServesAs(server[t]) /\ server[t] \in Works
        BY <2>1, <3>2 DEF IInv, Typed, Serves
      <4>2. server[t].pc # "idle" => KeyOf[server[t].req] \in Keys
        BY <4>1, RequestAssumption
           DEF Works, Idlers, Lookers, Preparers, Builders, Appliers, Repliers
      <4>3. server[t].pc \in {"build", "apply"} => KeyOf[server[t].req] # k
        BY <1>2, <4>1 DEF ServesAs
      <4> QED
        BY <1>2, <1>3, <2>4, <2>7, <4>1, <4>2, <4>3 DEF ServesAs
    <3> QED
      BY <3>1, <3>2
  <2> QED
    BY <2>6, <2>8, <2>9, <2>10, Begins
<1> QED
  BY <1>4, <1>5

\* What is sealed is a reading at the claimed revision.
LEMMA BuildStep == ASSUME IInv, NEW s \in Servers, Build(s) PROVE IInv'
<1> DEFINE w == server[s]
           r == w.req
           c == claim[KeyOf[r]]
           read == IF w.read = None THEN Reading(r) ELSE w.read
           v == [pc |-> "apply", req |-> r, read |-> read, sealed |-> key]
           Bad == (w.read = None /\ Missing(r)) \/ read.rev # c.expected
                  \/ (Want[r] # "create" /\ read.before # c.before) \/ read.after # c.after
<1>1. w \in Builders /\ ServesAs(w)
  BY DEF Build, IInv, Typed, Serves, Works, Idlers, Lookers, Preparers, Appliers, Repliers
<1>2. expected[r] # Unasked /\ w.pc = "build" /\ r \in Requests /\ c # None /\ c.req = r
  BY <1>1 DEF ServesAs, Build, Builders
<1>3. UNCHANGED <<claim, receipt>> /\ Keeps
  BY DEF Build
<1>4. CASE Bad
  <2>1. Say(s, "refused")
    BY <1>4 DEF Build
  <2> QED
    BY <1>2, <1>3, <2>1, Saying
<1>5. CASE ~Bad
  <2>1. To(s, v)
    BY <1>5 DEF Build
  <2>2. read \in Readings
    BY <1>1, <1>2, <1>5, ReadingTyped DEF Builders, Read0
  <2>3. v \in Works
    BY <1>2, <2>2 DEF Works, Appliers, IInv, Typed
  <2>4. ServesAs(v)
    BY <1>2, <1>5 DEF ServesAs
  <2> QED
    BY <1>3, <2>1, <2>3, <2>4, Going
<1> QED
  BY <1>4, <1>5

\* Where a server is that is about to apply.
LEMMA Applying ==
  ASSUME IInv, NEW s \in Servers, server[s].pc = "apply"
  PROVE  LET w == server[s]
             k == KeyOf[w.req]
         IN  /\ w \in Appliers /\ w.req \in Requests /\ k \in Keys /\ expected[w.req] # Unasked
             /\ claim[k] # None /\ claim[k] \in Claims /\ claim[k].req = w.req /\ ClaimedAs(k)
             /\ w.read.rev = claim[k].expected
<1>1. server[s] \in Appliers /\ ServesAs(server[s])
  BY DEF IInv, Typed, Serves, Works, Idlers, Lookers, Preparers, Builders, Repliers
<1>2. server[s].req \in Requests /\ KeyOf[server[s].req] \in Keys
  BY <1>1, RequestAssumption DEF Appliers
<1> QED
  BY <1>1, <1>2 DEF ServesAs, IInv, Claimed, Typed

\* A claim that is done is answered from what was stored.
LEMMA ReplayStep == ASSUME IInv, NEW s \in Servers, Replay(s) PROVE IInv'
<1>1. server[s].pc = "apply" /\ claim[KeyOf[server[s].req]].done
      /\ Open(s, receipt[KeyOf[server[s].req]]) /\ UNCHANGED <<claim, receipt>> /\ Keeps
  BY DEF Replay
<1> QED
  BY <1>1, Applying, Opening

\* A write that comes too late changes nothing.
LEMMA RefuseStep == ASSUME IInv, NEW s \in Servers, Refuse(s) PROVE IInv'
<1>1. server[s].pc # "idle" /\ UNCHANGED <<claim, receipt>> /\ Keeps
  BY DEF Refuse
<1>2. Say(s, "refused") \/ Say(s, "again")
  BY DEF Refuse
<1> QED
  BY <1>1, <1>2, Saying

\* A client hears what its server found stored.
LEMMA ReplyStep == ASSUME IInv, NEW s \in Servers, Reply(s) PROVE IInv'
<1> DEFINE w == server[s]
<1>1. w \in Repliers /\ ServesAs(w)
  BY DEF Reply, IInv, Typed, Serves, Works, Idlers, Lookers, Preparers, Builders, Appliers
<1>2. Idle \in Works /\ ServesAs(Idle) /\ To(s, Idle)
  BY DEF Works, Idlers, Idle, ServesAs, Reply
<1>3. UNCHANGED <<log, note, expected, claim, receipt, key, spent>>
  BY DEF Reply
<1>4. answers' \in [Requests -> SUBSET Stored]
  <2>1. w.word = "done" => w.stored \in Stored
    BY <1>1 DEF Repliers, ServesAs
  <2> QED
    BY <1>1, <2>1 DEF Reply, IInv, Typed
<1>5. outcome' \in [Requests -> {"waiting", "done", "refused", "left"}]
  BY <1>1 DEF Reply, Repliers, IInv, Typed
<1>6. key' \in KeyVersions /\ spent' \in [elsewhere : Nat, faults : Nat]
  BY <1>3 DEF IInv, Typed
<1> QED
  BY <1>2, <1>3, <1>4, <1>5, <1>6, Onward

\* A server that dies leaves the claim as it is.
LEMMA LoseStep == ASSUME IInv, NEW s \in Servers, Lose(s) PROVE IInv'
<1>1. Idle \in Works /\ ServesAs(Idle) /\ To(s, Idle)
  BY DEF Works, Idlers, Idle, ServesAs, Lose
<1>2. UNCHANGED <<log, note, expected, claim, receipt, outcome, answers, key>>
  BY DEF Lose
<1>3. spent' \in [elsewhere : Nat, faults : Nat]
  BY DEF Lose, IInv, Typed
<1>4. /\ outcome' \in [Requests -> {"waiting", "done", "refused", "left"}]
      /\ answers' \in [Requests -> SUBSET Stored] /\ key' \in KeyVersions
  BY <1>2 DEF IInv, Typed
<1> QED
  BY <1>1, <1>2, <1>3, <1>4, Onward

\* A revision on top of the log leaves those below it.
LEMMA OnTop ==
  ASSUME Typed, NEW m \in Mutations, log' = Append(log, m)
  PROVE  /\ log' \in Seq(Mutations) /\ Rev \in Nat /\ Rev' = Rev + 1
         /\ log'[Rev + 1] = m /\ \A n \in 1 .. Rev : log'[n] = log[n]
  BY DEF Typed, Rev

\* It is built on its base if its maker read the note at the top.
LEMMA BuiltOnTop ==
  ASSUME Typed, BuiltOnItsBase, NEW m \in Mutations, log' = Append(log, m),
         m.built = Rev, m.before = ClassAt(Rev) \/ Rev = 0,
         "private_manual" \in {m.before, m.after} => m.class = "private_manual"
  PROVE  BuiltOnItsBase'
<1>1. /\ Rev \in Nat /\ Rev' = Rev + 1
      /\ log'[Rev + 1] = m /\ \A n \in 1 .. Rev : log'[n] = log[n]
  BY OnTop
<1> SUFFICES ASSUME NEW n \in 1 .. Rev + 1
             PROVE  /\ log'[n].built = n - 1
                    /\ n > 1 => log'[n].before = log'[n - 1].after
                    /\ "private_manual" \in {log'[n].before, log'[n].after}
                       => log'[n].class = "private_manual"
  BY <1>1 DEF BuiltOnItsBase
<1>2. CASE n \in 1 .. Rev
  <2>1. n > 1 => n - 1 \in 1 .. Rev
    BY <1>1, <1>2
  <2>2. log'[n] = log[n] /\ (n > 1 => log'[n - 1] = log[n - 1])
    BY <1>1, <1>2, <2>1
  <2> QED
    BY <1>2, <2>2 DEF BuiltOnItsBase
<1>3. CASE n = Rev + 1
  <2>1. n - 1 = Rev /\ (n > 1 => Rev # 0 /\ Rev \in 1 .. Rev)
    BY <1>1, <1>3
  <2>2. n > 1 => log'[n - 1] = log[Rev] /\ m.before = log[Rev].after
    BY <1>1, <2>1 DEF ClassAt
  <2>3. log'[n] = m
    BY <1>1, <1>3
  <2>4. log'[n].built = n - 1 /\ (n > 1 => log'[n].before = log'[n - 1].after)
    BY <2>1, <2>2, <2>3
  <2>5. "private_manual" \in {log'[n].before, log'[n].after} => log'[n].class = "private_manual"
    BY <2>3
  <2> QED
    BY <2>4, <2>5
<1>4. n \in 1 .. Rev \/ n = Rev + 1
  <2>1. Rev \in Nat
    BY <1>1
  <2> QED
    BY <2>1
<1> QED
  BY <1>2, <1>3, <1>4

\* What is applied was read at the top of the log: of a creation because
\* there is no note, of another mutation because it is not stale.
LEMMA ReadAtTop ==
  ASSUME IInv, NEW s \in Servers, Apply(s)
  PROVE  LET w == server[s]
             k == KeyOf[w.req]
         IN  /\ claim[k].expected = Rev /\ expected[w.req] = Rev /\ w.read.rev = Rev
             /\ receipt[k] = None
             /\ IF Want[w.req] = "create" THEN Rev = 0 /\ note = "absent"
                ELSE Rev # 0 /\ note \in There /\ ClassAt(Rev) = claim[k].before
<1> DEFINE w == server[s]
           k == KeyOf[w.req]
<1>1. /\ w.pc = "apply" /\ ~claim[k].done /\ ~Stale(s)
  BY DEF Apply
<1>2. /\ w.req \in Requests /\ expected[w.req] # Unasked /\ ClaimedAs(k)
      /\ claim[k].req = w.req /\ w.read.rev = claim[k].expected
  BY <1>1, Applying
<1>3. AskedAs(w.req) /\ Rev \in Nat
  BY <1>2, RevTyped DEF IInv, Asked
<1>4. receipt[k] = None /\ claim[k].expected = expected[w.req]
  BY <1>1, <1>2 DEF ClaimedAs
<1>5. CASE Want[w.req] = "create"
  <2>1. Rev = 0 /\ expected[w.req] = 0
    BY <1>1, <1>2, <1>3, <1>5 DEF ClaimedAs, AskedAs
  <2> QED
    BY <1>2, <1>4, <1>5, <2>1 DEF IInv, Present
<1>6. CASE Want[w.req] # "create"
  <2>1. ~Missing(w.req) /\ Rev = claim[k].expected /\ ClassAt(Rev) = claim[k].before
    BY <1>1, <1>6 DEF Stale
  <2>2. note \in There /\ Rev # 0
    BY <1>3, <1>6, <2>1 DEF Missing, IInv, Typed, Present, There
  <2> QED
    BY <1>2, <1>4, <1>6, <2>1, <2>2
<1> QED
  BY <1>5, <1>6

\* The write is made on top of the log and its answer stored with it.
LEMMA ApplyStep == ASSUME IInv, NEW s \in Servers, Apply(s) PROVE IInv'
<1> DEFINE w == server[s]
<1>1. PICK r \in Requests : r = w.req
  BY Applying DEF Apply
<1>2. PICK h \in Keys : h = KeyOf[r]
  BY RequestAssumption
<1>3. PICK c \in Claims : c = claim[h]
  BY <1>1, <1>2, Applying DEF Apply
<1> DEFINE m == [by |-> h, built |-> w.read.rev, was |-> note,
                 before |-> c.before, after |-> c.after, class |-> c.class]
           d == [c EXCEPT !.done = TRUE]
           a == [req |-> r, rev |-> Rev + 1, by |-> s]
           v == [pc |-> "reply", req |-> r, word |-> "done", stored |-> a]
<1>4. /\ w \in Appliers /\ expected[r] # Unasked /\ c # None /\ c.req = r /\ ClaimedAs(h)
      /\ ~c.done
  BY <1>1, <1>2, <1>3, Applying DEF Apply
<1>5. /\ c.expected = Rev /\ expected[r] = Rev /\ w.read.rev = Rev /\ receipt[h] = None
      /\ IF Want[r] = "create" THEN Rev = 0 /\ note = "absent"
         ELSE Rev # 0 /\ note \in There /\ ClassAt(Rev) = c.before
  BY <1>1, <1>2, <1>3, ReadAtTop
<1>6. /\ log' = Append(log, m) /\ note' = w.read.then /\ note' \in There
      /\ UNCHANGED <<expected, outcome, answers, key, spent>>
  BY <1>1, <1>2, <1>3, <1>4 DEF Apply, Appliers, Readings
<1>7. d \in Claims /\ a \in Stored /\ m \in Mutations /\ v \in Works
  <2>1. Rev \in Nat
    BY RevTyped DEF IInv
  <2>2. d \in Claims
    BY DEF Claims
  <2>3. a \in Stored
    BY <2>1 DEF Stored
  <2>4. m \in Mutations
    BY <1>5, <2>1 DEF Mutations, Claims, There
  <2>5. v \in Works
    BY <2>3 DEF Works, Repliers
  <2> QED
    BY <2>2, <2>3, <2>4, <2>5
<1>8. claim' = [claim EXCEPT ![h] = d]
  BY <1>1, <1>2, <1>3 DEF Apply, IInv, Typed
<1>9. receipt' = [receipt EXCEPT ![h] = a]
  BY <1>1, <1>2 DEF Apply
<1>10. /\ receipt'[h] = a /\ \A i \in Keys \ {h} : receipt'[i] = receipt[i]
       /\ claim'[h] = d /\ \A i \in Keys \ {h} : claim'[i] = claim[i]
  BY <1>8, <1>9 DEF IInv, Typed
<1>11. server' = [server EXCEPT ![s] = v]
  BY <1>1, <1>2, <1>10 DEF Apply, Open, To
<1>12. a # None /\ d # None
  BY <1>7, NameAssumption
<1>13. /\ log' \in Seq(Mutations) /\ Rev \in Nat /\ Rev' = Rev + 1
       /\ log'[Rev + 1] = m /\ \A n \in 1 .. Rev : log'[n] = log[n]
  BY <1>6, <1>7, OnTop DEF IInv
<1> HIDE DEF m, v, a, d
<1>14. Typed'
  BY <1>6, <1>7, <1>8, <1>9, <1>11, <1>13 DEF IInv, Typed
<1>15. Present'
  <2>1. m.was = note
    BY DEF m
  <2>2. \A n \in 1 .. Rev + 1 : n > 1 => log'[n].was \in There
    BY <1>5, <1>13, <2>1 DEF IInv, Present
  <2>3. note' # "absent" /\ Rev' # 0
    BY <1>6, <1>13 DEF There
  <2> QED
    BY <1>13, <2>2, <2>3 DEF Present
<1>16. Asked'
  <2> SUFFICES ASSUME NEW q \in Requests, expected[q] # Unasked PROVE AskedAs(q)'
    BY <1>6 DEF Asked
  <2>1. AskedAs(q)
    BY DEF IInv, Asked
  <2> QED
    BY <1>6, <1>13, <2>1 DEF AskedAs
<1>17. Claimed'
  <2>1. ClaimedAs(h)'
    <3>1. /\ d.req = r /\ d.expected = c.expected /\ d.before = c.before /\ d.after = c.after
          /\ d.class = c.class /\ d.done = TRUE /\ a.req = r
      BY <1>4 DEF Claims, a, d
    <3> QED
      BY <1>3, <1>4, <1>6, <1>10, <1>12, <3>1 DEF ClaimedAs, HistoryClass
  <2>2. ASSUME NEW i \in Keys, i # h
        PROVE  IF claim'[i] = None THEN receipt'[i] = None ELSE ClaimedAs(i)'
    <3>1. claim'[i] = claim[i] /\ receipt'[i] = receipt[i] /\ expected' = expected
      BY <1>6, <1>10, <2>2
    <3>2. IF claim[i] = None THEN receipt[i] = None ELSE ClaimedAs(i)
      BY DEF IInv, Claimed
    <3>3. claim[i] # None => claim[i].req \in Requests
      BY DEF IInv, Typed, Claims
    <3>4. claim[i] # None => ~(Want[claim[i].req] = "create" /\ ~claim[i].done)
      BY <1>2, <1>5, <2>2, <3>2, <3>3, OneNoteAssumption DEF ClaimedAs
    <3> QED
      BY <3>1, <3>2, <3>4 DEF ClaimedAs
  <2> QED
    BY <1>10, <1>12, <2>1, <2>2 DEF Claimed
<1>18. Serves'
  <2> SUFFICES ASSUME NEW t \in Servers PROVE ServesAs(server[t])'
    BY DEF Serves
  <2>1. CASE t = s
    <3>1. server'[t] = v
      BY <1>11, <2>1 DEF IInv, Typed
    <3> QED
      BY <1>2, <1>4, <1>6, <1>10, <1>12, <3>1 DEF ServesAs, v, a
  <2>2. CASE t # s
    <3>1. server'[t] = server[t] /\ ServesAs(server[t]) /\ server[t] \in Works
      BY <1>11, <2>2 DEF IInv, Typed, Serves
    <3>2. PICK u \in Works : u = server[t]
      BY <3>1
    <3>3. u.pc # "idle" => KeyOf[u.req] \in Keys
      BY <3>2, RequestAssumption
         DEF Works, Idlers, Lookers, Preparers, Builders, Appliers, Repliers
    <3>4. \A i \in Keys : /\ claim'[i] = None <=> claim[i] = None
                          /\ claim[i] # None => claim'[i].req = claim[i].req
                                                /\ claim'[i].expected = claim[i].expected
                          /\ receipt[i] # None => receipt'[i] = receipt[i]
      BY <1>3, <1>4, <1>5, <1>10, <1>12 DEF Claims, d
    <3>5. ServesAs(u)'
      BY <1>6, <3>1, <3>2, <3>3, <3>4 DEF ServesAs
    <3> QED
      BY <3>1, <3>2, <3>5
  <2> QED
    BY <2>1, <2>2
<1>19. BuiltOnItsBase'
  <2>1. m.built = Rev /\ (m.before = ClassAt(Rev) \/ Rev = 0)
    BY <1>5 DEF m
  <2>2. "private_manual" \in {m.before, m.after} => m.class = "private_manual"
    BY <1>3, <1>4 DEF m, ClaimedAs, HistoryClass
  <2> QED
    BY <1>6, <1>7, <2>1, <2>2, BuiltOnTop DEF IInv
<1> QED
  BY <1>14, <1>15, <1>16, <1>17, <1>18, <1>19, Begins

\* A write by others finds a note, so no creation is under way.
LEMMA ElsewhereStep == ASSUME IInv, Elsewhere PROVE IInv'
<1> DEFINE m == [by |-> Other, built |-> Rev, was |-> note, before |-> ClassAt(Rev),
                 after |-> ClassAt(Rev), class |-> ClassAt(Rev)]
<1>1. /\ note \in There /\ log' = Append(log, m)
      /\ UNCHANGED <<note, expected, claim, receipt, server, outcome, answers, key>>
      /\ spent' \in [elsewhere : Nat, faults : Nat]
  <2>1. spent' \in [elsewhere : Nat, faults : Nat]
    <3>1. spent \in [elsewhere : Nat, faults : Nat]
      BY DEF IInv, Typed
    <3>2. spent' = [spent EXCEPT !.elsewhere = @ + 1]
      BY DEF Elsewhere
    <3> QED
      BY <3>1, <3>2
  <2>2. note \in There
    BY DEF Elsewhere, There
  <2> QED
    BY <2>1, <2>2 DEF Elsewhere
<1>2. m \in Mutations
  BY <1>1, RevTyped, ClassTyped DEF IInv, Mutations
<1>3. /\ log' \in Seq(Mutations) /\ Rev \in Nat /\ Rev' = Rev + 1
      /\ log'[Rev + 1] = m /\ \A n \in 1 .. Rev : log'[n] = log[n]
  BY <1>1, <1>2, OnTop DEF IInv
<1>4. Typed'
  BY <1>1, <1>3 DEF IInv, Typed
<1>5. Rev # 0
  BY <1>1 DEF IInv, Present, There
<1>6. Present'
  <2>1. note' # "absent" /\ Rev' # 0
    BY <1>1, <1>3 DEF There
  <2>2. \A n \in 1 .. Rev : n > 1 => log'[n].was \in There
    BY <1>3 DEF IInv, Present
  <2>3. log'[Rev + 1].was \in There
    <3>1. m.was = note
      OBVIOUS
    <3> HIDE DEF m
    <3> QED
      BY <1>1, <1>3, <3>1
  <2>4. \A n \in 1 .. Rev + 1 : n > 1 => log'[n].was \in There
    BY <1>3, <2>2, <2>3
  <2> QED
    BY <1>3, <2>1, <2>4 DEF Present
<1>7. Asked'
  BY <1>1, <1>3 DEF IInv, Asked, AskedAs
<1>8. Claimed'
  <2> SUFFICES ASSUME NEW k \in Keys, claim[k] # None PROVE ClaimedAs(k)'
    BY <1>1 DEF IInv, Claimed
  <2> QED
    BY <1>1, <1>5 DEF IInv, Claimed, ClaimedAs
<1>9. Serves'
  BY <1>1 DEF IInv, Serves, ServesAs
<1>10. BuiltOnItsBase'
  BY <1>1, <1>2, BuiltOnTop DEF IInv
<1> QED
  BY <1>4, <1>6, <1>7, <1>8, <1>9, <1>10, Begins

\* A purge finds no creation under way: the note is there.
LEMMA QuietStep ==
  ASSUME IInv, Rotate \/ Purge \/ \E r \in Requests : Leave(r)
  PROVE  IInv'
<1>1. UNCHANGED <<log, expected, claim, receipt, server, answers, spent>>
  BY DEF Rotate, Purge, Leave
<1>2. /\ note' \in There \cup {"absent", "purged"} /\ (note' = "absent") = (note = "absent")
      /\ outcome' \in [Requests -> {"waiting", "done", "refused", "left"}]
      /\ key' \in KeyVersions
  BY DEF Rotate, Purge, Leave, IInv, Typed, There, KeyVersions
<1>3. Typed'
  BY <1>1, <1>2 DEF IInv, Typed
<1>4. Present' /\ Asked' /\ Claimed' /\ BuiltOnItsBase'
  BY <1>1, <1>2 DEF IInv, Present, Asked, AskedAs, Claimed, ClaimedAs, BuiltOnItsBase, Rev
<1>5. Serves'
  BY <1>1 DEF IInv, Serves, ServesAs
<1> QED
  BY <1>3, <1>4, <1>5, Begins

-----------------------------------------------------------------------------
(* The theorems.                                                           *)

\* The invariant holds at first.
LEMMA InitInv == Init => IInv
<1> SUFFICES ASSUME Init PROVE IInv
  OBVIOUS
<1> DEFINE first == [by |-> Other, built |-> 0, was |-> "absent", before |-> "ai_assisted",
                     after |-> "ai_assisted", class |-> "ai_assisted"]
<1>1. first \in Mutations
  BY DEF Mutations, Classes
<1>2. \/ log = << >> /\ note = "absent"
      \/ log = <<first>> /\ note = "live"
  BY DEF Init
<1>3. /\ log \in Seq(Mutations) /\ Rev \in 0 .. 1 /\ (note = "absent") = (Rev = 0)
      /\ \A n \in 1 .. Rev : n = 1 /\ log[n] = first
  <2> HIDE DEF first
  <2>1. CASE log = << >> /\ note = "absent"
    BY <2>1 DEF Rev
  <2>2. CASE log = <<first>> /\ note = "live"
    BY <1>1, <2>2 DEF Rev
  <2> QED
    BY <1>2, <2>1, <2>2
<1>4. note \in There \cup {"absent", "purged"}
  BY <1>2 DEF There
<1>5. Idle \in Works
  BY DEF Idle, Works, Idlers
<1>6. Typed
  BY <1>3, <1>4, <1>5 DEF Init, Typed, KeyVersions
<1>7. Present /\ Asked /\ Claimed /\ Serves
  BY <1>3 DEF Init, Present, Asked, Claimed, Serves, ServesAs, Idle
<1>8. BuiltOnItsBase
  BY <1>3 DEF BuiltOnItsBase
<1> QED
  BY <1>6, <1>7, <1>8 DEF IInv

\* The invariant is inductive.
LEMMA StepInv == IInv /\ [Next]_vars => IInv'
<1> SUFFICES ASSUME IInv, [Next]_vars PROVE IInv'
  OBVIOUS
<1>1. ASSUME NEW r \in Requests, Ask(r) PROVE IInv'
  BY <1>1, AskStep
<1>2. ASSUME NEW r \in Requests, Leave(r) PROVE IInv'
  BY <1>2, QuietStep
<1>3. ASSUME NEW r \in Requests, NEW s \in Servers, Send(s, r) PROVE IInv'
  BY <1>3, SendStep
<1>4. ASSUME NEW s \in Servers, Step(s) PROVE IInv'
  BY <1>4, LookStep, ReadStep, ResumeStep, PrepareStep, BuildStep, ReplayStep, RefuseStep,
     ApplyStep, ReplyStep DEF Step
<1>5. ASSUME NEW s \in Servers, Lose(s) PROVE IInv'
  BY <1>5, LoseStep
<1>6. CASE Elsewhere
  BY <1>6, ElsewhereStep
<1>7. CASE Rotate \/ Purge
  BY <1>7, QuietStep
<1>8. CASE UNCHANGED vars
  BY <1>8 DEF vars, IInv, Typed, Present, Asked, AskedAs, Claimed, ClaimedAs, Serves, ServesAs,
     BuiltOnItsBase, Rev
<1> QED
  BY <1>1, <1>2, <1>3, <1>4, <1>5, <1>6, <1>7, <1>8 DEF Next

\* The inductive invariant holds of every behaviour.
THEOREM Inductive == Spec => []IInv
  BY InitInv, StepInv, PTL DEF Spec

\* The variables have their types, and a note is absent exactly while it has
\* no revision.
THEOREM TypeCorrect == Spec => []TypeOK
<1>1. IInv => TypeOK
  <2> SUFFICES ASSUME IInv PROVE TypeOK
    OBVIOUS
  <2>1. Typed /\ Present
    BY DEF IInv
  <2>2. \A n \in 1 .. Rev : log[n] \in Mutations
    BY <2>1 DEF Typed, Rev
  <2>3. \A n \in 1 .. Rev : /\ log[n].by \in Keys \cup {Other}
                            /\ {log[n].before, log[n].after, log[n].class} \subseteq Classes
    BY <2>2 DEF Mutations
  <2>4. \A s \in Servers :
          server[s].pc \in {"idle", "look", "read", "prepare", "build", "apply", "reply"}
    <3> SUFFICES ASSUME NEW s \in Servers
                 PROVE  server[s].pc \in {"idle", "look", "read", "prepare", "build", "apply", "reply"}
      OBVIOUS
    <3>1. server[s] \in Works
      BY <2>1 DEF Typed
    <3> QED
      BY <3>1 DEF Works, Idlers, Lookers, Preparers, Builders, Appliers, Repliers
  <2>5. note \in {"absent", "live", "trash", "purged"} /\ (note = "absent") = (Rev = 0)
    BY <2>1 DEF Typed, Present, There
  <2> QED
    BY <2>1, <2>3, <2>4, <2>5 DEF Typed, TypeOK
<1> QED
  BY <1>1, Inductive, PTL

\* Every mutation is made from the note as it was at the revision below it,
\* whatever else was written, rotated or lost while its server was at work,
\* and is sealed as private if either side of it is.
THEOREM BuiltSafe == Spec => []BuiltOnItsBase
<1>1. IInv => BuiltOnItsBase
  BY DEF IInv
<1> QED
  BY <1>1, Inductive, PTL

-----------------------------------------------------------------------------
(* The write implements WriteOnce.                                         *)

\* The write begins where WriteOnce does.
LEMMA PromiseInit == Init => Promise!Init
<1> SUFFICES ASSUME Init PROVE Promise!Init
  OBVIOUS
<1>1. Rev \in Nat
  BY InitInv, RevTyped DEF IInv
<1> QED
  BY <1>1 DEF Init, Promise!Init

\* A step that changes nothing a client or the store could tell.
LEMMA Unseen ==
  ASSUME UNCHANGED <<log, expected, receipt, answers>>
  PROVE  [Promise!Next]_(Promise!once)
  BY DEF Promise!once, Rev

\* Asking is asking.
LEMMA PromiseAsk ==
  ASSUME IInv, NEW r \in Requests, Ask(r) PROVE [Promise!Next]_(Promise!once)
<1>1. PICK e \in (IF Want[r] = "create" THEN {0} ELSE 1 .. Rev) :
        expected' = [expected EXCEPT ![r] = e]
  BY DEF Ask
<1>2. e \in 0 .. Rev
  BY RevTyped DEF IInv
<1>3. Promise!Ask(r)
  BY <1>1, <1>2 DEF Ask, Promise!Ask, Rev
<1> QED
  BY <1>3 DEF Promise!Next

\* A write applied is the once of its key, at the revision it names.
LEMMA PromiseApply ==
  ASSUME IInv, NEW s \in Servers, Apply(s) PROVE [Promise!Next]_(Promise!once)
<1>1. PICK r \in Requests : r = server[s].req
  BY Applying DEF Apply
<1>2. expected[r] = Rev /\ receipt[KeyOf[r]] = None
  BY <1>1, ReadAtTop
<1>3. /\ \E m : log' = Append(log, m)
      /\ receipt' = [receipt EXCEPT ![KeyOf[r]] = [req |-> r, rev |-> Rev + 1, by |-> s]]
      /\ UNCHANGED <<expected, answers>>
  BY <1>1 DEF Apply
<1>4. Rev' = Rev + 1
  BY <1>3 DEF Rev, IInv, Typed
<1>5. Promise!Apply(r)
  BY <1>2, <1>3, <1>4 DEF Promise!Apply
<1> QED
  BY <1>5 DEF Promise!Next

\* A client is answered with what is stored under its key, or learns nothing.
LEMMA PromiseReply ==
  ASSUME IInv, NEW s \in Servers, Reply(s) PROVE [Promise!Next]_(Promise!once)
<1> DEFINE w == server[s]
<1>1. w \in Repliers /\ ServesAs(w)
  BY DEF Reply, IInv, Typed, Serves, Works, Idlers, Lookers, Preparers, Builders, Appliers
<1>2. UNCHANGED <<log, expected, receipt>>
  BY DEF Reply
<1>3. CASE w.word # "done" \/ outcome[w.req] = "left"
  BY <1>2, <1>3, Unseen DEF Reply
<1>4. CASE w.word = "done" /\ outcome[w.req] # "left"
  <2>1. PICK r \in Requests : r = w.req
    BY <1>1 DEF Repliers
  <2>2. /\ w.stored = receipt[KeyOf[r]] /\ receipt[KeyOf[r]] # None
        /\ receipt[KeyOf[r]].req = r
    BY <1>1, <1>4, <2>1 DEF ServesAs, Repliers
  <2>3. answers' = [answers EXCEPT ![r] = @ \cup {w.stored}]
    BY <1>4, <2>1 DEF Reply
  <2>4. Promise!Answer(r)
    BY <1>2, <2>2, <2>3 DEF Promise!Answer, Rev
  <2> QED
    BY <2>4 DEF Promise!Next
<1> QED
  BY <1>3, <1>4

\* Others write in both.
LEMMA PromiseElsewhere ==
  ASSUME IInv, Elsewhere PROVE [Promise!Next]_(Promise!once)
<1>1. (\E m : log' = Append(log, m)) /\ UNCHANGED <<expected, receipt, answers>>
  BY DEF Elsewhere
<1>2. Rev' = Rev + 1
  BY <1>1 DEF Rev, IInv, Typed
<1> QED
  BY <1>1, <1>2 DEF Promise!Next, Promise!Elsewhere

\* Every step is a step of WriteOnce or one it does not see.
LEMMA PromiseStep == IInv /\ [Next]_vars => [Promise!Next]_(Promise!once)
<1> SUFFICES ASSUME IInv, [Next]_vars PROVE [Promise!Next]_(Promise!once)
  OBVIOUS
<1>1. ASSUME NEW r \in Requests, Ask(r) PROVE [Promise!Next]_(Promise!once)
  BY <1>1, PromiseAsk
<1>2. ASSUME NEW r \in Requests, Leave(r) PROVE [Promise!Next]_(Promise!once)
  BY <1>2, Unseen DEF Leave
<1>3. ASSUME NEW r \in Requests, NEW s \in Servers, Send(s, r)
      PROVE  [Promise!Next]_(Promise!once)
  BY <1>3, Unseen DEF Send
<1>4. ASSUME NEW s \in Servers, Step(s) PROVE [Promise!Next]_(Promise!once)
  <2>1. CASE Look(s) \/ Read(s) \/ Resume(s) \/ Prepare(s) \/ Build(s) \/ Replay(s) \/ Refuse(s)
    <3>1. UNCHANGED <<log, expected, receipt, answers>>
      BY <2>1 DEF Look, Read, Resume, Prepare, Build, Replay, Refuse, Keeps
    <3> QED
      BY <3>1, Unseen
  <2> QED
    BY <1>4, <2>1, PromiseApply, PromiseReply DEF Step
<1>5. ASSUME NEW s \in Servers, Lose(s) PROVE [Promise!Next]_(Promise!once)
  BY <1>5, Unseen DEF Lose
<1>6. CASE Elsewhere
  BY <1>6, PromiseElsewhere
<1>7. CASE Rotate \/ Purge
  BY <1>7, Unseen DEF Rotate, Purge
<1>8. CASE UNCHANGED vars
  BY <1>8, Unseen DEF vars
<1> QED
  BY <1>1, <1>2, <1>3, <1>4, <1>5, <1>6, <1>7, <1>8 DEF Next

\* However often and wherever a write is sent, it happens once, on top of the
\* revision it names, and every answer to it is that once's.
THEOREM WritesOnce == Spec => Once
<1>1. Init => Promise!Init
  BY PromiseInit
<1>2. IInv /\ [Next]_vars => [Promise!Next]_(Promise!once)
  BY PromiseStep
<1> QED
  BY <1>1, <1>2, Inductive, PTL DEF Spec, Once, Promise!Spec
=============================================================================
