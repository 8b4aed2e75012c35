---------------------------- MODULE Server_proofs ----------------------------
(***************************************************************************)
(* What Server promises, proved.  A search ticket, the maintenance of the  *)
(* index and the retention have an inductive invariant each; the note      *)
(* write has that of NoteWrite_proofs.  One of the four runs, so the       *)
(* invariant of Server is that of the part that does.                      *)
(***************************************************************************)
EXTENDS Server, NoteWrite_proofs, Ranks, FiniteSetTheorems, TLAPS

-----------------------------------------------------------------------------
(* Numbers in order.                                                       *)

LEMMA RankCounts ==
  ASSUME NEW S \in SUBSET Int, IsFiniteSet(S), NEW x \in S
  PROVE  Rank(x, S) \in 1 .. Cardinality(S)
<1> DEFINE U == {y \in S : y <= x}
<1>1. U \in SUBSET S /\ x \in U
  OBVIOUS
<1>2. IsFiniteSet(U) /\ Cardinality(U) <= Cardinality(S) /\ Cardinality(S) \in Nat
  BY <1>1, FS_Subset, FS_CardinalityType
<1>3. Cardinality(U) \in Nat /\ Cardinality(U) # 0
  BY <1>1, <1>2, FS_CardinalityType, FS_EmptySet
<1> QED BY <1>2, <1>3 DEF Rank

LEMMA RankGrows ==
  ASSUME NEW S \in SUBSET Int, IsFiniteSet(S), NEW x \in S, NEW z \in S, x < z
  PROVE  Rank(x, S) < Rank(z, S)
<1> DEFINE U == {y \in S : y <= x}
           V == {y \in S : y <= z}
<1>1. U \in SUBSET V /\ V \in SUBSET S /\ z \in V /\ z \notin U
  <2>1. \A y \in S : y <= x => y <= z
    OBVIOUS
  <2>2. z <= z /\ ~(z <= x)
    OBVIOUS
  <2> QED BY <2>1, <2>2, Zenon
<1>2. IsFiniteSet(V)
  BY <1>1, FS_Subset
<1>3. /\ IsFiniteSet(U) /\ Cardinality(U) <= Cardinality(V)
      /\ Cardinality(V) = Cardinality(U) => V = U
  BY <1>1, <1>2, FS_Subset
<1>4. Cardinality(U) \in Nat /\ Cardinality(V) \in Nat
  BY <1>2, <1>3, FS_CardinalityType
<1> QED BY <1>1, <1>3, <1>4 DEF Rank

LEMMA RanksDiffer ==
  ASSUME NEW S \in SUBSET Int, IsFiniteSet(S), NEW x \in S, NEW z \in S, x # z
  PROVE  Rank(x, S) # Rank(z, S)
<1>1. x < z \/ z < x
  OBVIOUS
<1>2. Rank(x, S) \in Int /\ Rank(z, S) \in Int
  BY RankCounts
<1> QED BY <1>1, <1>2, RankGrows

\* Every rank is that of one member: the members are listed, each once.
LEMMA RanksAreTaken ==
  ASSUME NEW S \in SUBSET Int, IsFiniteSet(S), NEW i \in 1 .. Cardinality(S)
  PROVE  \E x \in S : Rank(x, S) = i
<1> DEFINE T == 1 .. Cardinality(S)
           f == [x \in S |-> Rank(x, S)]
<1>1. Cardinality(S) \in Nat
  BY FS_CardinalityType
<1>2. IsFiniteSet(T) /\ Cardinality(T) = Cardinality(S)
  BY <1>1, FS_Interval
<1>3. f \in Injection(S, T)
  BY RankCounts, RanksDiffer DEF Injection, IsInjective
<1> HIDE DEF f, T
<1>4. f \in Surjection(S, T)
  BY <1>2, <1>3, FS_Injection
<1>5. \E x \in S : f[x] = i
  BY <1>4 DEF Surjection, T
<1> QED BY <1>5 DEF f

\* A list of a set has its members.
LEMMA InOrderLists ==
  ASSUME NEW S \in SUBSET Int, IsFiniteSet(S)
  PROVE  /\ InOrder(S) \in [1 .. Cardinality(S) -> S]
         /\ InOrder(S) \in Seq(S) /\ Len(InOrder(S)) = Cardinality(S)
         /\ Cardinality(S) \in Nat /\ S # {} => Cardinality(S) # 0
<1>1. Cardinality(S) \in Nat
  BY FS_CardinalityType
<1>2. InOrder(S) \in [1 .. Cardinality(S) -> S]
  BY RanksAreTaken DEF InOrder
<1> QED BY <1>1, <1>2, FS_EmptySet

\* The first k of a set are at most k of it.
LEMMA LowestIsPart ==
  ASSUME NEW S \in SUBSET Int, IsFiniteSet(S), NEW k \in Nat
  PROVE  /\ Lowest(k, S) \subseteq S /\ IsFiniteSet(Lowest(k, S))
         /\ Cardinality(Lowest(k, S)) \in 0 .. k
<1> DEFINE L == Lowest(k, S)
           f == [x \in L |-> Rank(x, S)]
<1>1. L \in SUBSET S
  BY DEF Lowest
<1>2. IsFiniteSet(L) /\ Cardinality(L) \in Nat
  BY <1>1, FS_Subset, FS_CardinalityType
<1>3. IsFiniteSet(1 .. k) /\ Cardinality(1 .. k) = k
  BY FS_Interval
<1>4. f \in Injection(L, 1 .. k)
  <2>1. \A x \in L : x \in S /\ Rank(x, S) \in 1 .. k
    BY RankCounts, FS_CardinalityType DEF Lowest
  <2> HIDE DEF L
  <2> QED BY <2>1, RanksDiffer DEF Injection, IsInjective
<1> HIDE DEF f, L
<1>5. Cardinality(L) <= k
  BY <1>3, <1>4, FS_Injection
<1> QED BY <1>1, <1>2, <1>5 DEF L

-----------------------------------------------------------------------------
(* The search ticket.                                                      *)

Hit == [rev : Ticket!Revisions, kind : {"tagged", "plain", "hidden"}]
IndexType == [id : 0 .. MaxSwitches, token : Nat, proof : Nat, row : [Hits -> 0 .. MaxRevision]]
TicketType ==
  [state : {"none", "pending", "leased", "completed", "failed"}, gen : 0 .. MaxSwitches,
   token : Nat, digest : SUBSET SUBSET (Hits \X Ticket!Revisions \X (0 .. MaxRevision)),
   verified : BOOLEAN, holder : Workers \cup {NoWorker}, alive : BOOLEAN]
Found == Hits \X Ticket!Revisions
QueryType ==
  [pc : {"idle", "page", "recheck", "verify", "complete", "failing", "done", "dead"},
   cursor : Hits \cup {0}, scanned : SUBSET Found, out : {"none", "error", "result"},
   aborted : BOOLEAN, claimed : BOOLEAN]
WebType ==
  [pc : {"idle", "asked", "hydrating", "used", "fallback"}, items : SUBSET Found,
   got : SUBSET Found]
TicketTypes ==
  /\ found \in [Hits -> Hit] /\ index \in IndexType /\ ticket \in TicketType
  /\ worker \in [Workers -> QueryType] /\ web \in WebType /\ seen \in SUBSET Found

\* Nothing is redeemed before the search is begun.
Unbegun == web.pc = "idle" => ticket.state = "none"

\* The worker that redeemed the ticket holds it for good; who scans or has an
\* answer has redeemed it.
Redeems(w) ==
  /\ worker[w].claimed => ticket.holder = w /\ ticket.state \in {"leased", "completed", "failed"}
  /\ Ticket!Scanning(w) => worker[w].claimed
  /\ worker[w].out = "result" => ticket.state = "completed" /\ ticket.holder = w

\* Once its pages are read, the ticket has their snapshot; before the
\* verification as many notes were scanned as it has, and after it, those seen.
ReadsOne(w) ==
  /\ worker[w].pc \in {"recheck", "verify", "complete"} => ticket.digest # {}
  /\ worker[w].pc = "verify" => \A d \in ticket.digest :
       Ticket!Cardinality(worker[w].scanned) = Ticket!Cardinality({x[1] : x \in d})
  /\ worker[w].pc = "complete" => worker[w].scanned = seen

Completed ==
  ticket.state = "completed" =>
    ticket.holder \in Workers /\ worker[ticket.holder].scanned = seen

\* The answer that is shown is the one verified, read again note by note.
Answered ==
  /\ web.pc \in {"idle", "asked"} => web.got = {}
  /\ web.pc \in {"hydrating", "used"} =>
       /\ ticket.state = "completed" /\ web.items = seen /\ web.got \subseteq web.items
       /\ web.pc = "used" => web.got = web.items

\* A note is seen at one revision.
SeenOnce == \A x, y \in seen : x[1] = y[1] => x = y

\* From its creation to the page the owner reads, one worker has one snapshot.
TicketInv ==
  /\ TicketTypes /\ Unbegun /\ Completed /\ Answered /\ SeenOnce
  /\ \A w \in Workers : Redeems(w) /\ ReadsOne(w)

LEMMA TicketSets ==
  ASSUME NEW S
  PROVE  (Ticket!IsFiniteSet(S) <=> IsFiniteSet(S)) /\ Ticket!Cardinality(S) = Cardinality(S)
<1>1. Ticket!IsFiniteSet(S) <=> IsFiniteSet(S)
  BY DEF Ticket!IsFiniteSet, IsFiniteSet
<1>2. Ticket!Cardinality(S) = Cardinality(S)
  BY DEF Ticket!Cardinality, Cardinality
<1> QED BY <1>1, <1>2

LEMMA TicketBounds ==
  /\ Hits \subseteq Nat \ {0} /\ IsFiniteSet(Hits) /\ NoWorker \notin Workers
  /\ MaxRevision \in Nat \ {0} /\ MaxSwitches \in Nat
BY ServerAssumption, TicketSets DEF Ticket!TicketAssumption

LEMMA TicketBegins ==
  ASSUME Ticket!Init PROVE TicketInv
<1>1. TicketTypes
  BY TicketBounds DEF Ticket!Init, TicketTypes, Hit, IndexType, TicketType, QueryType, WebType,
     Ticket!Revisions, Found
<1> QED BY <1>1 DEF Ticket!Init, TicketInv, Unbegun, Completed, Answered, SeenOnce, Redeems,
     ReadsOne, Ticket!Scanning

\* What matches now, by the notes it names.
LEMMA SnapshotNames ==
  ASSUME TicketTypes
  PROVE  /\ {x[1] : x \in Ticket!Snapshot} = Ticket!Matching
         /\ Ticket!Snapshot \in SUBSET (Hits \X Ticket!Revisions \X (0 .. MaxRevision))
         /\ Ticket!Openable \in SUBSET Found
<1> DEFINE M == Ticket!Matching
           O == Ticket!Snapshot
<1>1. \A n \in M : n \in Hits /\ found[n].rev \in Ticket!Revisions
  BY DEF Ticket!Matching, TicketTypes, Hit
<1>2. \A n \in M : index.row[n] \in 0 .. MaxRevision
  BY <1>1 DEF TicketTypes, IndexType
<1>3. O = {<<n, found[n].rev, index.row[n]>> : n \in M}
  BY DEF Ticket!Snapshot
<1>4. Ticket!Openable = {<<n, found[n].rev>> : n \in M}
  BY DEF Ticket!Openable
<1> HIDE DEF M, O
<1>5. O \in SUBSET (Hits \X Ticket!Revisions \X (0 .. MaxRevision))
  BY <1>1, <1>2, <1>3
<1>6. {x[1] : x \in O} = M
  <2>1. ASSUME NEW n \in M PROVE \E x \in O : x[1] = n
    <3>1. <<n, found[n].rev, index.row[n]>> \in O
      BY <1>3
    <3>2. <<n, found[n].rev, index.row[n]>>[1] = n
      OBVIOUS
    <3> QED BY <3>1, <3>2
  <2>2. \A x \in O : x[1] \in M
    BY <1>3
  <2> QED BY <2>1, <2>2
<1> QED BY <1>1, <1>4, <1>5, <1>6 DEF Found, M, O

\* As many as match, and nothing that does not: all that match.
LEMMA AllThatMatch ==
  ASSUME TicketTypes, NEW S \in SUBSET Ticket!Openable,
         Ticket!Cardinality(S) = Ticket!Cardinality(Ticket!Matching)
  PROVE  S = Ticket!Openable
<1> DEFINE M == Ticket!Matching
           O == Ticket!Openable
           f == [n \in M |-> <<n, found[n].rev>>]
<1>1. IsFiniteSet(M)
  BY TicketBounds, FS_Subset DEF Ticket!Matching
<1>2. O = {<<n, found[n].rev>> : n \in M}
  BY DEF Ticket!Openable
<1> HIDE DEF M, O
<1>3. f \in Surjection(M, O) /\ f \in Injection(M, O)
  BY <1>2 DEF Surjection, Injection, IsInjective
<1> HIDE DEF f
<1>4. IsFiniteSet(O) /\ Cardinality(O) = Cardinality(M)
  BY <1>1, <1>3, FS_Surjection
<1>5. Cardinality(S) = Cardinality(M)
  BY TicketSets DEF M
<1> QED BY <1>4, <1>5, FS_Subset DEF O

-----------------------------------------------------------------------------
(* Its steps.                                                              *)

\* The owner and the index.
LEMMA OwnerKeeps ==
  ASSUME TicketInv, TicketTypes', UNCHANGED <<ticket, worker, web, seen>> PROVE TicketInv'
BY DEF TicketInv, Unbegun, Completed, Answered, SeenOnce, Redeems, ReadsOne, Ticket!Scanning

LEMMA BumpedIndex ==
  ASSUME index \in IndexType, NEW row \in [Hits -> 0 .. MaxRevision]
  PROVE  Ticket!Bumped(row) \in IndexType
<1>1. index.token + 1 \in Nat
  BY DEF IndexType
<1> QED BY <1>1 DEF Ticket!Bumped, IndexType

LEMMA OwnerTypes ==
  ASSUME TicketTypes, \/ \E n \in Hits, kind \in {"tagged", "plain", "hidden"} : Ticket!Edit(n, kind)
                      \/ \E n \in Hits : Ticket!Publish(n)
                      \/ Ticket!DeleteTag \/ Ticket!Attest \/ Ticket!Switch
  PROVE  TicketTypes' /\ UNCHANGED <<ticket, worker, web, seen>>
<1>1. \A n \in Hits : found[n] \in Hit /\ found[n].rev \in 1 .. MaxRevision
  BY DEF TicketTypes, Hit, Ticket!Revisions
<1>2. UNCHANGED <<ticket, worker, web, seen>>
  BY DEF Ticket!Edit, Ticket!Publish, Ticket!DeleteTag, Ticket!Attest, Ticket!Switch
<1>3. found' \in [Hits -> Hit]
  <2>1. ASSUME NEW n \in Hits, NEW kind \in {"tagged", "plain", "hidden"}, Ticket!Edit(n, kind)
        PROVE  found' \in [Hits -> Hit]
    <3>1. [rev |-> found[n].rev + 1, kind |-> kind] \in Hit
      BY <1>1, <2>1, TicketBounds DEF Ticket!Edit, Hit, Ticket!Revisions
    <3>2. found' = [found EXCEPT ![n] = [rev |-> found[n].rev + 1, kind |-> kind]]
      BY <2>1 DEF Ticket!Edit
    <3> QED BY <3>1, <3>2 DEF TicketTypes
  <2>2. CASE Ticket!DeleteTag
    <3>1. \A n \in Hits : [found[n] EXCEPT !.kind = "plain"] \in Hit
      BY <1>1 DEF Hit
    <3>2. found' = [n \in Hits |-> IF n \in Ticket!Matching THEN [found[n] EXCEPT !.kind = "plain"]
                                   ELSE found[n]]
      BY <2>2 DEF Ticket!DeleteTag
    <3> QED BY <1>1, <3>1, <3>2
  <2> QED BY <2>1, <2>2 DEF Ticket!Publish, Ticket!Attest, Ticket!Switch, TicketTypes
<1>4. index' \in IndexType
  <2>1. ASSUME NEW n \in Hits, NEW kind \in {"tagged", "plain", "hidden"}, Ticket!Edit(n, kind)
        PROVE  index' \in IndexType
    <3> DEFINE row == [index.row EXCEPT ![n] = IF kind = "hidden" THEN 0 ELSE @]
    <3>1. row \in [Hits -> 0 .. MaxRevision]
      BY TicketBounds DEF TicketTypes, IndexType
    <3>2. index' = Ticket!Bumped(row)
      BY <2>1 DEF Ticket!Edit
    <3> HIDE DEF row
    <3> QED BY <3>1, <3>2, BumpedIndex DEF TicketTypes
  <2>2. ASSUME NEW n \in Hits, Ticket!Publish(n) PROVE index' \in IndexType
    <3> DEFINE row == [index.row EXCEPT ![n] = found[n].rev]
    <3>1. row \in [Hits -> 0 .. MaxRevision]
      BY <1>1, TicketBounds DEF TicketTypes, IndexType
    <3>2. index' = Ticket!Bumped(row)
      BY <2>2 DEF Ticket!Publish
    <3> HIDE DEF row
    <3> QED BY <3>1, <3>2, BumpedIndex DEF TicketTypes
  <2>3. CASE Ticket!Attest
    BY <2>3 DEF Ticket!Attest, TicketTypes, IndexType
  <2>4. CASE Ticket!Switch
    BY <1>1, <2>4, TicketBounds DEF Ticket!Switch, TicketTypes, IndexType
  <2> QED BY <2>1, <2>2, <2>3, <2>4 DEF Ticket!DeleteTag, TicketTypes
<1> QED BY <1>2, <1>3, <1>4 DEF TicketTypes

\* The web tier.
LEMMA BeginKeeps ==
  ASSUME TicketInv, Ticket!Begin PROVE TicketInv'
<1>1. TicketTypes'
  <2>1. web' \in WebType
    BY DEF TicketInv, TicketTypes, Ticket!Begin, WebType
  <2>2. ticket' \in TicketType
    <3>1. index.id \in 0 .. MaxSwitches /\ index.token \in Nat
      BY DEF TicketInv, TicketTypes, IndexType
    <3>2. ticket \in TicketType
      BY DEF TicketInv, TicketTypes
    <3>3. \/ ticket' = ticket
          \/ ticket' = [ticket EXCEPT !.state = "pending", !.gen = index.id,
                                     !.token = index.token, !.alive = TRUE]
      BY DEF Ticket!Begin
    <3> QED BY <3>1, <3>2, <3>3 DEF TicketType
  <2> QED BY <2>1, <2>2 DEF TicketInv, TicketTypes, Ticket!Begin
<1>2. \A w \in Workers : Redeems(w)' /\ ReadsOne(w)'
  BY DEF TicketInv, TicketTypes, TicketType, Ticket!Begin, Unbegun, Redeems, ReadsOne,
     Ticket!Scanning
<1>3. Unbegun' /\ Completed' /\ Answered' /\ SeenOnce'
  BY DEF TicketInv, TicketTypes, TicketType, WebType, Ticket!Begin, Unbegun, Completed, Answered,
     SeenOnce
<1> QED BY <1>1, <1>2, <1>3 DEF TicketInv

LEMMA WebKeeps ==
  ASSUME TicketInv, UNCHANGED <<found, index, ticket, worker, seen>>, web.pc # "idle",
         web' \in WebType, web'.pc # "idle", Answered'
  PROVE  TicketInv'
BY DEF TicketInv, TicketTypes, Unbegun, Completed, SeenOnce, Redeems, ReadsOne, Ticket!Scanning

LEMMA HearKeeps ==
  ASSUME TicketInv, NEW w \in Workers, Ticket!Hear(w) PROVE TicketInv'
<1>1. web' \in WebType /\ web'.pc # "idle" /\ web.pc # "idle"
  BY DEF TicketInv, TicketTypes, WebType, QueryType, Ticket!Hear
<1>2. Answered'
  <2>1. CASE worker[w].out = "result"
    <3>1. ticket.state = "completed" /\ ticket.holder = w /\ worker[w].scanned = seen
      BY <2>1 DEF TicketInv, Redeems, Completed
    <3>2. web' = [web EXCEPT !.pc = "hydrating", !.items = worker[w].scanned]
      BY <2>1 DEF Ticket!Hear
    <3>3. web'.pc = "hydrating" /\ web'.items = seen /\ web'.got = {}
      BY <3>1, <3>2 DEF TicketInv, TicketTypes, WebType, Ticket!Hear, Answered
    <3> QED BY <3>1, <3>3 DEF Answered, Ticket!Hear
  <2>2. CASE worker[w].out # "result"
    BY <2>2 DEF TicketInv, TicketTypes, WebType, Ticket!Hear, Answered
  <2> QED BY <2>1, <2>2
<1> QED BY <1>1, <1>2, WebKeeps DEF Ticket!Hear

LEMMA GiveUpKeeps ==
  ASSUME TicketInv, Ticket!GiveUp PROVE TicketInv'
<1>1. web' \in WebType /\ web'.pc = "fallback" /\ web.pc # "idle"
  BY DEF TicketInv, TicketTypes, WebType, Ticket!GiveUp
<1> QED BY <1>1, WebKeeps DEF Ticket!GiveUp, Answered

LEMMA HydrateKeeps ==
  ASSUME TicketInv, Ticket!Hydrate PROVE TicketInv'
<1>1. PICK item \in Ticket!Unread :
        web' = IF Ticket!StillAnswers(item)
               THEN [web EXCEPT !.got = @ \cup {<<item[1], found[item[1]].rev>>}]
               ELSE [web EXCEPT !.pc = "fallback"]
  BY DEF Ticket!Hydrate
<1>2. item \in web.items /\ web \in WebType /\ item \in Found /\ web.pc = "hydrating"
  BY DEF Ticket!Unread, TicketInv, TicketTypes, WebType, Ticket!Hydrate
<1>3. CASE Ticket!StillAnswers(item)
  <2>1. <<item[1], found[item[1]].rev>> = item
    BY <1>2, <1>3 DEF Ticket!StillAnswers, Found
  <2>2. web' = [web EXCEPT !.got = @ \cup {item}]
    BY <1>1, <1>3, <2>1
  <2>3. web' \in WebType /\ web'.pc = "hydrating" /\ Answered'
    BY <1>2, <2>2 DEF WebType, TicketInv, Answered, Ticket!Hydrate
  <2> QED BY <1>2, <2>3, WebKeeps DEF Ticket!Hydrate
<1>4. CASE ~Ticket!StillAnswers(item)
  <2>1. web' \in WebType /\ web'.pc = "fallback"
    BY <1>1, <1>2, <1>4 DEF WebType
  <2> QED BY <1>2, <2>1, WebKeeps DEF Ticket!Hydrate, Answered
<1> QED BY <1>3, <1>4

\* Every note of the answer was read again.
LEMMA MergeKeeps ==
  ASSUME TicketInv, Ticket!Merge PROVE TicketInv'
<1>1. web' \in WebType /\ web'.pc = "used" /\ web.pc = "hydrating" /\ web' = [web EXCEPT !.pc = "used"]
  BY DEF TicketInv, TicketTypes, WebType, Ticket!Merge
<1>2. web \in WebType
  BY DEF TicketInv, TicketTypes
<1>3. web.items \subseteq web.got
  <2> SUFFICES ASSUME NEW x \in web.items PROVE x \in web.got
    OBVIOUS
  <2>1. PICK g \in web.got : g[1] = x[1]
    BY DEF Ticket!Merge, Ticket!Unread
  <2>2. g = x
    BY <1>1, <2>1 DEF TicketInv, Answered, SeenOnce
  <2> QED BY <2>1, <2>2
<1>4. Answered'
  BY <1>1, <1>2, <1>3 DEF TicketInv, Answered, WebType, Ticket!Merge
<1> QED BY <1>1, <1>4, WebKeeps DEF Ticket!Merge

-----------------------------------------------------------------------------
(* The steps of its workers.                                               *)

\* A worker that goes nowhere any more.
LEMMA StoppedKeeps ==
  ASSUME TicketInv, NEW w \in Workers, NEW pc \in {"failing", "done", "dead"},
         worker' = [worker EXCEPT ![w].pc = pc], UNCHANGED <<found, index, ticket, web, seen>>
  PROVE  TicketInv'
<1>1. worker \in [Workers -> QueryType]
  BY DEF TicketInv, TicketTypes
<1>2. /\ worker' \in [Workers -> QueryType] /\ worker'[w].pc = pc
      /\ \A v \in Workers : /\ v # w => worker'[v] = worker[v]
                            /\ worker'[v].scanned = worker[v].scanned
                            /\ worker'[v].out = worker[v].out
                            /\ worker'[v].claimed = worker[v].claimed
  BY <1>1 DEF QueryType
<1>3. TicketTypes' /\ Unbegun' /\ Completed' /\ Answered' /\ SeenOnce'
  BY <1>2 DEF TicketInv, TicketTypes, Unbegun, Completed, Answered, SeenOnce
<1>4. \A v \in Workers : Redeems(v)' /\ ReadsOne(v)'
  BY <1>2 DEF TicketInv, Redeems, ReadsOne, Ticket!Scanning
<1> QED BY <1>3, <1>4 DEF TicketInv

LEMMA DeadlineKeeps ==
  ASSUME TicketInv, NEW w \in Workers, Ticket!Deadline(w) PROVE TicketInv'
<1>1. worker \in [Workers -> QueryType]
  BY DEF TicketInv, TicketTypes
<1>2. worker' = [worker EXCEPT ![w].out = "error", ![w].aborted = TRUE]
  BY DEF Ticket!Deadline
<1>3. /\ worker' \in [Workers -> QueryType] /\ worker'[w].out = "error"
      /\ \A v \in Workers : /\ v # w => worker'[v] = worker[v]
                            /\ worker'[v].pc = worker[v].pc
                            /\ worker'[v].scanned = worker[v].scanned
                            /\ worker'[v].claimed = worker[v].claimed
  BY <1>1, <1>2 DEF QueryType
<1>4. TicketTypes' /\ Unbegun' /\ Completed' /\ Answered' /\ SeenOnce'
  BY <1>3 DEF TicketInv, TicketTypes, Unbegun, Completed, Answered, SeenOnce, Ticket!Deadline
<1>5. \A v \in Workers : Redeems(v)' /\ ReadsOne(v)'
  BY <1>3 DEF TicketInv, Redeems, ReadsOne, Ticket!Scanning, Ticket!Deadline
<1> QED BY <1>4, <1>5 DEF TicketInv

LEMMA ExpireKeeps ==
  ASSUME TicketInv, Ticket!Expire PROVE TicketInv'
<1>1. ticket \in TicketType /\ ticket' = [ticket EXCEPT !.alive = FALSE]
  BY DEF TicketInv, TicketTypes, Ticket!Expire
<1>2. /\ ticket' \in TicketType
      /\ ticket'.state = ticket.state /\ ticket'.holder = ticket.holder
      /\ ticket'.digest = ticket.digest
  BY <1>1 DEF TicketType
<1>3. TicketTypes' /\ Unbegun' /\ Completed' /\ Answered' /\ SeenOnce'
  BY <1>2 DEF TicketInv, TicketTypes, Unbegun, Completed, Answered, SeenOnce, Ticket!Expire
<1>4. \A v \in Workers : Redeems(v)' /\ ReadsOne(v)'
  BY <1>2 DEF TicketInv, Redeems, ReadsOne, Ticket!Scanning, Ticket!Expire
<1> QED BY <1>3, <1>4 DEF TicketInv

LEMMA ClaimTicketKeeps ==
  ASSUME TicketInv, NEW w \in Workers, Ticket!Claim(w) PROVE TicketInv'
<1>1. worker \in [Workers -> QueryType] /\ ticket \in TicketType
  BY DEF TicketInv, TicketTypes
<1>2. CASE ticket.state = "pending" /\ ticket.alive
  <2>1. /\ ticket' = [ticket EXCEPT !.state = "leased", !.holder = w]
        /\ worker' = [worker EXCEPT ![w].pc = Ticket!To(w, "page"), ![w].claimed = TRUE]
    BY <1>2 DEF Ticket!Claim
  <2>2. Ticket!To(w, "page") \in {"page", "failing"}
    BY DEF Ticket!To
  <2>3. /\ worker' \in [Workers -> QueryType] /\ worker'[w].pc \in {"page", "failing"}
        /\ worker'[w].claimed /\ worker'[w].out = worker[w].out
        /\ \A v \in Workers : v # w => worker'[v] = worker[v]
    BY <1>1, <2>1, <2>2 DEF QueryType
  <2>4. /\ ticket' \in TicketType /\ ticket'.state = "leased" /\ ticket'.holder = w
        /\ ticket'.digest = ticket.digest
    BY <1>1, <2>1 DEF TicketType
  <2>5. TicketTypes' /\ Unbegun' /\ Completed' /\ Answered' /\ SeenOnce'
    BY <1>2, <2>3, <2>4 DEF TicketInv, TicketTypes, Unbegun, Completed, Answered, SeenOnce,
       Ticket!Claim
  <2>6. \A v \in Workers : Redeems(v)' /\ ReadsOne(v)'
    BY <1>2, <2>3, <2>4 DEF TicketInv, Redeems, ReadsOne, Ticket!Scanning, Ticket!Claim
  <2> QED BY <2>5, <2>6 DEF TicketInv
<1>3. CASE ~(ticket.state = "pending" /\ ticket.alive)
  <2>1. /\ worker' = [worker EXCEPT ![w].pc = "done", ![w].out = "error"]
        /\ UNCHANGED <<found, index, ticket, web, seen>>
    BY <1>3 DEF Ticket!Claim
  <2>2. /\ worker' \in [Workers -> QueryType] /\ worker'[w].pc = "done"
        /\ worker'[w].out = "error"
        /\ \A v \in Workers : /\ v # w => worker'[v] = worker[v]
                              /\ worker'[v].scanned = worker[v].scanned
                              /\ worker'[v].claimed = worker[v].claimed
    BY <1>1, <2>1 DEF QueryType
  <2>3. TicketTypes' /\ Unbegun' /\ Completed' /\ Answered' /\ SeenOnce'
    BY <2>1, <2>2 DEF TicketInv, TicketTypes, Unbegun, Completed, Answered, SeenOnce
  <2>4. \A v \in Workers : Redeems(v)' /\ ReadsOne(v)'
    BY <2>1, <2>2 DEF TicketInv, Redeems, ReadsOne, Ticket!Scanning
  <2> QED BY <2>3, <2>4 DEF TicketInv
<1> QED BY <1>2, <1>3

\* A page the worker was given: what it scanned, and the snapshot of them all.
LEMMA PageKeeps ==
  ASSUME TicketInv, NEW w \in Workers, Ticket!Page(w) PROVE TicketInv'
<1>1. worker \in [Workers -> QueryType] /\ ticket \in TicketType
  BY DEF TicketInv, TicketTypes
<1>2. CASE ~Ticket!PageAccepted(w)
  BY <1>2, StoppedKeeps DEF Ticket!Page, Ticket!Refused
<1>3. CASE Ticket!PageAccepted(w)
  <2>1. ticket' = [ticket EXCEPT !.digest = {Ticket!Snapshot}] /\ UNCHANGED <<found, index, web, seen>>
    BY <1>3 DEF Ticket!Page, Ticket!Paged
  <2>2. /\ ticket' \in TicketType /\ ticket'.state = ticket.state /\ ticket'.holder = ticket.holder
        /\ ticket'.digest = {Ticket!Snapshot}
    BY <1>1, <2>1, SnapshotNames DEF TicketType, TicketInv
  <2>3. ticket.digest # {} => ticket'.digest = ticket.digest
    BY <1>3, <2>2 DEF Ticket!PageAccepted
  <2>4. ticket.state = "leased" /\ ticket.holder = w
    BY <1>3 DEF Ticket!PageAccepted, Ticket!Holds
  <2>5. worker[w].pc = "page" /\ worker[w].claimed
    BY DEF Ticket!Page, TicketInv, Redeems, Ticket!Scanning
  <2>6. /\ worker' \in [Workers -> QueryType] /\ worker'[w].pc \in {"page", "recheck", "failing"}
        /\ worker'[w].claimed /\ worker'[w].out = worker[w].out
        /\ \A v \in Workers : v # w => worker'[v] = worker[v]
    <3>1. \A pc : Ticket!To(w, pc) \in {pc, "failing"}
      BY DEF Ticket!To
    <3>2. CASE ~Ticket!Covered
      <4>1. worker' = [worker EXCEPT ![w].pc = "failing"]
        BY <1>3, <3>2 DEF Ticket!Page
      <4> QED BY <1>1, <2>5, <4>1 DEF QueryType
    <3>3. CASE Ticket!Covered /\ Ticket!Rest(w) = {}
      <4>1. worker' = [worker EXCEPT ![w].pc = Ticket!To(w, "recheck")]
        BY <1>3, <3>3 DEF Ticket!Page
      <4> QED BY <1>1, <2>5, <3>1, <4>1 DEF QueryType
    <3>4. CASE Ticket!Covered /\ Ticket!Rest(w) # {}
      <4>1. PICK last \in Ticket!Rest(w) :
              worker' = [worker EXCEPT ![w].cursor = last, ![w].scanned = Ticket!Scanned(w, last),
                ![w].pc = Ticket!To(w, IF \E n \in Ticket!Rest(w) : n > last THEN "page" ELSE "recheck")]
        BY <1>3, <3>4 DEF Ticket!Page
      <4>2. Ticket!Scanned(w, last) \in SUBSET Found
        <5>1. \A n \in Ticket!Rest(w) : n \in Hits /\ index.row[n] \in Ticket!Revisions
          BY <3>4 DEF Ticket!Rest, Ticket!Matching, Ticket!Covered, Ticket!Indexed, TicketInv,
             TicketTypes, Hit
        <5>2. worker[w].scanned \in SUBSET Found
          BY <1>1 DEF QueryType
        <5>3. {<<n, index.row[n]>> : n \in {m \in Ticket!Rest(w) : m <= last}} \in SUBSET Found
          BY <5>1 DEF Found
        <5> QED BY <5>2, <5>3 DEF Ticket!Scanned
      <4>3. last \in Hits
        BY DEF Ticket!Rest, Ticket!Matching
      <4> DEFINE read == Ticket!Scanned(w, last)
                 next == IF \E n \in Ticket!Rest(w) : n > last THEN "page" ELSE "recheck"
                 pc == Ticket!To(w, next)
      <4>4. worker' = [worker EXCEPT ![w].cursor = last, ![w].scanned = read, ![w].pc = pc]
        BY <4>1
      <4>5. next \in {"page", "recheck"}
        OBVIOUS
      <4> HIDE DEF next
      <4>6. pc \in {"page", "recheck", "failing"}
        BY <3>1, <4>5
      <4> HIDE DEF pc
      <4>7. read \in SUBSET Found
        BY <4>2
      <4> HIDE DEF read
      <4>8. worker' \in [Workers -> QueryType]
        <5>1. [worker[w] EXCEPT !.cursor = last, !.scanned = read, !.pc = pc] \in QueryType
          BY <1>1, <4>3, <4>6, <4>7 DEF QueryType
        <5>2. worker' = [worker EXCEPT ![w] =
                           [worker[w] EXCEPT !.cursor = last, !.scanned = read, !.pc = pc]]
          BY <1>1, <4>4
        <5> QED BY <1>1, <5>1, <5>2
      <4> QED BY <1>1, <2>5, <4>4, <4>6, <4>8 DEF QueryType
    <3> QED BY <3>2, <3>3, <3>4
  <2>7. TicketTypes' /\ Unbegun' /\ Completed' /\ Answered' /\ SeenOnce'
    BY <2>1, <2>2, <2>4, <2>6 DEF TicketInv, TicketTypes, Unbegun, Completed, Answered, SeenOnce
  <2>8. ASSUME NEW v \in Workers PROVE Redeems(v)'
    BY <2>2, <2>4, <2>6 DEF TicketInv, Redeems, Ticket!Scanning
  <2>9. ASSUME NEW v \in Workers PROVE ReadsOne(v)'
    <3>1. CASE v = w
      BY <2>2, <2>6, <3>1 DEF ReadsOne
    <3>2. CASE v # w
      BY <2>1, <2>2, <2>3, <2>6, <3>2 DEF TicketInv, ReadsOne
    <3> QED BY <3>1, <3>2
  <2> QED BY <2>7, <2>8, <2>9 DEF TicketInv
<1> QED BY <1>2, <1>3

\* The count of what was read is that of the snapshot the ticket has.
LEMMA RecheckKeeps ==
  ASSUME TicketInv, NEW w \in Workers, Ticket!Recheck(w) PROVE TicketInv'
<1>1. worker \in [Workers -> QueryType]
  BY DEF TicketInv, TicketTypes
<1> DEFINE ok == /\ Ticket!Readable(w)
                 /\ Ticket!Cardinality(worker[w].scanned) = Ticket!Cardinality(Ticket!Matching)
<1>2. CASE ~ok \/ worker[w].aborted
  <2>1. worker' = [worker EXCEPT ![w].pc = "failing"] /\ UNCHANGED <<found, index, ticket, web, seen>>
    BY <1>2 DEF Ticket!Recheck, Ticket!Refused, Ticket!To
  <2> QED BY <2>1, StoppedKeeps
<1>3. CASE ok /\ ~worker[w].aborted
  <2>1. worker' = [worker EXCEPT ![w].pc = "verify"] /\ UNCHANGED <<found, index, ticket, web, seen>>
    BY <1>3 DEF Ticket!Recheck, Ticket!To
  <2>2. /\ worker' \in [Workers -> QueryType] /\ worker'[w].pc = "verify"
        /\ \A v \in Workers : /\ v # w => worker'[v] = worker[v]
                              /\ worker'[v].scanned = worker[v].scanned
                              /\ worker'[v].out = worker[v].out
                              /\ worker'[v].claimed = worker[v].claimed
    BY <1>1, <2>1 DEF QueryType
  <2>3. worker[w].pc = "recheck" /\ ticket.digest # {} /\ worker[w].claimed
    BY DEF Ticket!Recheck, TicketInv, ReadsOne, Redeems, Ticket!Scanning
  <2>4. \A d \in ticket.digest : {x[1] : x \in d} = Ticket!Matching
    BY <1>3, SnapshotNames DEF Ticket!Readable, Ticket!PageAccepted, TicketInv
  <2>5. TicketTypes' /\ Unbegun' /\ Completed' /\ Answered' /\ SeenOnce'
    BY <2>1, <2>2 DEF TicketInv, TicketTypes, Unbegun, Completed, Answered, SeenOnce
  <2>6. ASSUME NEW v \in Workers PROVE Redeems(v)'
    BY <2>1, <2>2, <2>3 DEF TicketInv, Redeems, Ticket!Scanning
  <2>7. ASSUME NEW v \in Workers PROVE ReadsOne(v)'
    <3>1. CASE v = w
      BY <1>3, <2>1, <2>2, <2>3, <2>4, <3>1 DEF ReadsOne
    <3>2. CASE v # w
      BY <2>1, <2>2, <3>2 DEF TicketInv, ReadsOne
    <3> QED BY <3>1, <3>2
  <2> QED BY <2>5, <2>6, <2>7 DEF TicketInv
<1> QED BY <1>2, <1>3

\* What is verified is all that matches at that moment.
LEMMA VerifyKeeps ==
  ASSUME TicketInv, NEW w \in Workers, Ticket!Verify(w) PROVE TicketInv'
<1>1. worker \in [Workers -> QueryType] /\ ticket \in TicketType
  BY DEF TicketInv, TicketTypes
<1> DEFINE ok == Ticket!Readable(w) /\ worker[w].scanned \subseteq Ticket!Openable
<1>2. CASE ~ok
  BY <1>2, StoppedKeeps DEF Ticket!Verify, Ticket!Refused
<1>3. CASE ok
  <2>1. /\ ticket' = [ticket EXCEPT !.verified = TRUE]
        /\ worker' = [worker EXCEPT ![w].pc = Ticket!To(w, "complete")]
        /\ seen' = Ticket!Openable
        /\ UNCHANGED <<found, index, web>>
    BY <1>3 DEF Ticket!Verify
  <2>2. Ticket!To(w, "complete") \in {"complete", "failing"}
    BY DEF Ticket!To
  <2>3. /\ ticket' \in TicketType /\ ticket'.state = ticket.state /\ ticket'.holder = ticket.holder
        /\ ticket'.digest = ticket.digest
    BY <1>1, <2>1 DEF TicketType
  <2>4. /\ worker' \in [Workers -> QueryType] /\ worker'[w].pc \in {"complete", "failing"}
        /\ \A v \in Workers : /\ v # w => worker'[v] = worker[v]
                              /\ worker'[v].scanned = worker[v].scanned
                              /\ worker'[v].out = worker[v].out
                              /\ worker'[v].claimed = worker[v].claimed
    BY <1>1, <2>1, <2>2 DEF QueryType
  <2>5. ticket.state = "leased" /\ ticket.holder = w /\ worker[w].pc = "verify"
    BY <1>3 DEF Ticket!Readable, Ticket!PageAccepted, Ticket!Holds, Ticket!Verify
  <2>6. worker[w].claimed /\ ticket.digest # {}
    BY <2>5 DEF TicketInv, Redeems, ReadsOne, Ticket!Scanning
  <2>7. worker[w].scanned = seen'
    <3>1. PICK d \in ticket.digest : TRUE
      BY <2>6
    <3>2. d = Ticket!Snapshot
      BY <1>3 DEF Ticket!Readable, Ticket!PageAccepted
    <3>3. Ticket!Cardinality(worker[w].scanned) = Ticket!Cardinality(Ticket!Matching)
      BY <2>5, <3>2, SnapshotNames DEF TicketInv, ReadsOne
    <3> QED BY <1>3, <2>1, <3>3, AllThatMatch DEF TicketInv
  <2>8. SeenOnce'
    BY <2>1 DEF SeenOnce, Ticket!Openable
  <2>9. seen' \in SUBSET Found
    BY <2>1, SnapshotNames DEF TicketInv
  <2>10. TicketTypes' /\ Unbegun' /\ Completed' /\ Answered'
    BY <2>1, <2>3, <2>4, <2>5, <2>9 DEF TicketInv, TicketTypes, Unbegun, Completed, Answered
  <2>11. ASSUME NEW v \in Workers PROVE Redeems(v)'
    BY <2>3, <2>4, <2>6 DEF TicketInv, Redeems, Ticket!Scanning
  <2>12. ASSUME NEW v \in Workers PROVE ReadsOne(v)'
    <3>1. CASE v = w
      BY <2>3, <2>4, <2>6, <2>7, <3>1 DEF ReadsOne
    <3>2. CASE v # w
      <4>1. worker[v].pc # "complete"
        BY <2>5, <3>2 DEF TicketInv, Redeems, Ticket!Scanning
      <4> QED BY <2>3, <2>4, <3>2, <4>1 DEF TicketInv, ReadsOne
    <3> QED BY <3>1, <3>2
  <2> QED BY <2>8, <2>10, <2>11, <2>12 DEF TicketInv
<1> QED BY <1>2, <1>3

LEMMA CompleteKeeps ==
  ASSUME TicketInv, NEW w \in Workers, Ticket!Complete(w) PROVE TicketInv'
<1>1. worker \in [Workers -> QueryType] /\ ticket \in TicketType
  BY DEF TicketInv, TicketTypes
<1> DEFINE ok == Ticket!Holds(w) /\ Ticket!SameGeneration /\ ticket.verified
<1>2. CASE ~ok
  BY <1>2, StoppedKeeps DEF Ticket!Complete, Ticket!Refused
<1>3. CASE ok
  <2>1. /\ ticket' = [ticket EXCEPT !.state = "completed"]
        /\ \/ worker' = [worker EXCEPT ![w].pc = "failing"]
           \/ worker' = [worker EXCEPT ![w].pc = "done", ![w].out = "result"]
        /\ UNCHANGED <<found, index, web, seen>>
    BY <1>3 DEF Ticket!Complete
  <2>2. /\ ticket' \in TicketType /\ ticket'.state = "completed" /\ ticket'.holder = w
        /\ ticket'.digest = ticket.digest /\ ticket.state = "leased" /\ ticket.holder = w
    BY <1>1, <1>3, <2>1 DEF TicketType, Ticket!Holds
  <2>3. /\ worker' \in [Workers -> QueryType] /\ worker'[w].pc \in {"failing", "done"}
        /\ \A v \in Workers : /\ v # w => worker'[v] = worker[v]
                              /\ worker'[v].scanned = worker[v].scanned
                              /\ worker'[v].claimed = worker[v].claimed
    BY <1>1, <2>1 DEF QueryType
  <2>4. worker[w].scanned = seen
    BY DEF Ticket!Complete, TicketInv, ReadsOne
  <2>5. TicketTypes' /\ Unbegun' /\ Completed' /\ Answered' /\ SeenOnce'
    BY <2>1, <2>2, <2>3, <2>4 DEF TicketInv, TicketTypes, Unbegun, Completed, Answered, SeenOnce
  <2>6. ASSUME NEW v \in Workers PROVE Redeems(v)' /\ ReadsOne(v)'
    <3>1. worker[v].out # "result" /\ (worker[v].claimed => v = w)
      BY <2>2 DEF TicketInv, Redeems
    <3> QED BY <2>1, <2>2, <2>3, <3>1 DEF TicketInv, Redeems, ReadsOne, Ticket!Scanning
  <2> QED BY <2>5, <2>6 DEF TicketInv
<1> QED BY <1>2, <1>3

LEMMA FailTicketKeeps ==
  ASSUME TicketInv, NEW w \in Workers, Ticket!Fail(w) PROVE TicketInv'
<1>1. worker \in [Workers -> QueryType] /\ ticket \in TicketType
  BY DEF TicketInv, TicketTypes
<1>2. /\ worker' = [worker EXCEPT ![w].pc = "done", ![w].out = "error"]
      /\ UNCHANGED <<found, index, web, seen>>
  BY DEF Ticket!Fail
<1>3. /\ worker' \in [Workers -> QueryType] /\ worker'[w].pc = "done" /\ worker'[w].out = "error"
      /\ \A v \in Workers : /\ v # w => worker'[v] = worker[v]
                            /\ worker'[v].scanned = worker[v].scanned
                            /\ worker'[v].claimed = worker[v].claimed
  BY <1>1, <1>2 DEF QueryType
<1>4. /\ ticket' \in TicketType /\ ticket'.holder = ticket.holder /\ ticket'.digest = ticket.digest
      /\ \/ ticket'.state = ticket.state
         \/ ticket.state = "leased" /\ ticket.holder = w /\ ticket'.state = "failed"
  BY <1>1 DEF TicketType, Ticket!Fail, Ticket!Holds
<1>5. TicketTypes' /\ Unbegun' /\ Completed' /\ Answered' /\ SeenOnce'
  BY <1>2, <1>3, <1>4 DEF TicketInv, TicketTypes, Unbegun, Completed, Answered, SeenOnce
<1>6. ASSUME NEW v \in Workers PROVE Redeems(v)' /\ ReadsOne(v)'
  BY <1>2, <1>3, <1>4 DEF TicketInv, Redeems, ReadsOne, Ticket!Scanning
<1> QED BY <1>5, <1>6 DEF TicketInv

LEMMA DesistKeeps ==
  ASSUME TicketInv, NEW w \in Workers, Ticket!Desist(w) \/ Ticket!Die(w) PROVE TicketInv'
BY StoppedKeeps DEF Ticket!Desist, Ticket!Die

LEMMA TicketStepKeeps ==
  ASSUME TicketInv, Ticket!Next PROVE TicketInv'
<1>1. CASE \/ \E n \in Hits, kind \in {"tagged", "plain", "hidden"} : Ticket!Edit(n, kind)
           \/ \E n \in Hits : Ticket!Publish(n)
           \/ Ticket!DeleteTag \/ Ticket!Attest \/ Ticket!Switch
  BY <1>1, OwnerTypes, OwnerKeeps DEF TicketInv
<1>2. CASE Ticket!Expire \/ Ticket!Begin \/ Ticket!GiveUp \/ Ticket!Answering
  BY <1>2, ExpireKeeps, BeginKeeps, GiveUpKeeps, HydrateKeeps, MergeKeeps DEF Ticket!Answering
<1>3. CASE Ticket!Over
  BY <1>3, OwnerKeeps DEF Ticket!Over, Ticket!vars, TicketInv, TicketTypes
<1>4. ASSUME NEW w \in Workers, Ticket!Work(w) PROVE TicketInv'
  BY <1>4, ClaimTicketKeeps, PageKeeps, RecheckKeeps, VerifyKeeps, CompleteKeeps,
     FailTicketKeeps, DesistKeeps DEF Ticket!Work
<1>5. ASSUME NEW w \in Workers, Ticket!Hear(w) \/ Ticket!Deadline(w) \/ Ticket!Die(w)
      PROVE  TicketInv'
  BY <1>5, HearKeeps, DeadlineKeeps, DesistKeeps
<1> QED BY <1>1, <1>2, <1>3, <1>4, <1>5 DEF Ticket!Next, Ticket!Environment

LEMMA TicketStutterKeeps ==
  ASSUME TicketInv, UNCHANGED ticketVars PROVE TicketInv'
BY OwnerKeeps DEF ticketVars, TicketInv, TicketTypes

\* Who would change a ticket that is over has none to change.
LEMMA TicketEnds ==
  ASSUME TicketInv, Ticket!Next PROVE Ticket!TerminalStep
<1> SUFFICES ASSUME ticket.state \in {"completed", "failed"} PROVE ticket' = ticket
  BY DEF Ticket!TerminalStep
<1>1. CASE Ticket!Environment
  BY <1>1 DEF Ticket!Environment, Ticket!Edit, Ticket!Publish, Ticket!DeleteTag, Ticket!Attest,
     Ticket!Switch, Ticket!Expire
<1>2. CASE Ticket!Begin
  BY <1>2 DEF TicketInv, Unbegun, Ticket!Begin
<1>3. CASE Ticket!GiveUp \/ Ticket!Answering \/ Ticket!Over
  BY <1>3 DEF Ticket!GiveUp, Ticket!Answering, Ticket!Hydrate, Ticket!Merge, Ticket!Over, Ticket!vars
<1>4. ASSUME NEW w \in Workers, Ticket!Work(w) PROVE ticket' = ticket
  BY <1>4 DEF Ticket!Work, Ticket!Claim, Ticket!Page, Ticket!Recheck, Ticket!Verify,
     Ticket!Complete, Ticket!Fail, Ticket!Desist, Ticket!Refused, Ticket!PageAccepted,
     Ticket!Readable, Ticket!Holds
<1>5. ASSUME NEW w \in Workers, Ticket!Hear(w) \/ Ticket!Deadline(w) \/ Ticket!Die(w)
      PROVE  ticket' = ticket
  BY <1>5 DEF Ticket!Hear, Ticket!Deadline, Ticket!Die
<1> QED BY <1>1, <1>2, <1>3, <1>4, <1>5 DEF Ticket!Next

LEMMA TicketInvSuffices ==
  ASSUME TicketInv
  PROVE  /\ Ticket!TypeOK /\ Ticket!OneRedeemer /\ Ticket!CompletedIsOneSnapshot
         /\ Ticket!ShownIsVerified
<1>1. Ticket!TypeOK
  BY DEF TicketInv, TicketTypes, Ticket!TypeOK, Hit, IndexType, TicketType, QueryType, WebType,
     Found
<1>2. Ticket!OneRedeemer
  BY DEF TicketInv, Redeems, Ticket!OneRedeemer
<1>3. Ticket!CompletedIsOneSnapshot /\ Ticket!ShownIsVerified
  BY DEF TicketInv, Completed, Answered, Ticket!CompletedIsOneSnapshot, Ticket!ShownIsVerified
<1> QED BY <1>1, <1>2, <1>3

-----------------------------------------------------------------------------
(* The maintenance of the index.                                           *)

IndexStates == {"out", "missing", "queued", "failed", "covered", "lost"}
OwnerType == [ready : BOOLEAN, served : Maintenance!Models, build : Maintenance!Models,
              proven : BOOLEAN, note : [Notes -> IndexStates]]
Calls == Maintenance!Reasons \cup {"ensure", "seed", "verify", "activate"}
PassType == [pc : {"idle", "list", "visit", "call", "drain"}, phase : {"seed", "verify"},
             page : Seq(Maintenance!Candidate), more : BOOLEAN, pages : 0 .. MaxPages,
             fresh : BOOLEAN, todo : Seq(Calls), seeds : Nat, seeded : BOOLEAN]
MaintenanceTypes ==
  /\ owner \in [Owners -> OwnerType]
  /\ checkpoint \in [{"seed", "verify"} -> Owners \cup {0}]
  /\ used \in [writes : 0 .. MaxWrites, faults : 0 .. MaxFaults]

\* A page is no longer than it may be, there is one only while it is gone
\* through, and what is about to be counted further is below its bound.
Bounded(q) ==
  /\ Len(q.page) <= PageLimit /\ q.seeds < MaxSeedPages
  /\ q.pc \notin {"visit", "call"} => Len(q.page) = 0
  /\ q.pc \in {"idle", "list", "drain"} => q.pages < MaxPages
  /\ q.pc = "call" => Len(q.page) # 0

\* What a pass asks about an owner's index x.
Many(x) == Maintenance!Cardinality({n \in Notes : x.note[n] # "out"}) > Capacity
Whole(x) == \A n \in Notes : x.note[n] \in {"out", "covered"}
Tallied(x) == \A n \in Notes : x.note[n] \in {"out", "covered", "lost"}
Stuck(x) == \E n \in Notes : x.note[n] \in {"failed", "lost"}
Missed(x) == \E n \in Notes : x.note[n] = "lost"
Unopened(x) == \A n \in Notes : x.note[n] # "covered"

\* While its token is the owner's, what a page says of a generation is true
\* of the owners' indexes O.
Fresh(c, O) ==
  c.token = "present" =>
    /\ c.over => Many(O[c.owner])
    /\ c.build = O[c.owner].build
    /\ c.complete => Tallied(O[c.owner])
    /\ ~c.ready => Unopened(O[c.owner])
FreshRest(q, O) == \A i \in DOMAIN q.page : q.pc = "visit" \/ i > 1 => Fresh(q.page[i], O)

\* ... and so is what the calls that are still due were chosen for.
Plans == {<<"fail over capacity">>, <<"fail unready">>, <<"fail replaced", "ensure", "seed">>,
          <<"ensure", "seed">>, <<"seed">>, <<"verify", "activate">>, <<"activate">>,
          <<"fail blocked">>, <<"fail incomplete">>, <<"fail corrupt">>}
Reasoned(x, todo) ==
  /\ Head(todo) = "fail over capacity" => Many(x)
  /\ Head(todo) = "fail replaced" => x.build = "other"
  /\ Head(todo) = "verify" => x.build = "deployed" /\ Tallied(x)
  /\ Head(todo) = "activate" => x.build = "deployed"
  /\ Head(todo) = "fail blocked" => Stuck(x)
  /\ Head(todo) = "fail unready" => Unopened(x)
  /\ Head(todo) = "fail incomplete" => Tallied(x) /\ Missed(x)
  /\ Head(todo) = "fail corrupt" => Whole(x)
Due(q, O) ==
  q.pc = "call" =>
    /\ q.todo \in Plans
    /\ q.page[1].token = "present" => Reasoned(O[q.page[1].owner], q.todo)

Sound(q, O) == Bounded(q) /\ FreshRest(q, O) /\ Due(q, O)

\* What was verified is the whole index as long as nothing is written to it,
\* and without a key there is no row that could be opened.
Honest(x) == (x.proven => Whole(x)) /\ (~x.ready => Unopened(x))
Proven(O) == \A o \in Owners : Honest(O[o])

AllSound(X, O) == X \in [Passes -> PassType] /\ \A p \in Passes : Sound(X[p], O)

\* However old its page, a pass decides on what is so, or its call is refused.
MaintenanceInv == MaintenanceTypes /\ Proven(owner) /\ AllSound(pass, owner)

\* What is left of a short plan.
LEMMA Tuples ==
  ASSUME NEW a, NEW b, NEW c
  PROVE  /\ Len(<<a>>) = 1 /\ Len(<<a, b>>) = 2 /\ Len(<<a, b, c>>) = 3
         /\ Head(<<a>>) = a /\ Head(<<a, b>>) = a /\ Head(<<a, b, c>>) = a
         /\ Tail(<<a, b>>) = <<b>> /\ Tail(<<a, b, c>>) = <<b, c>>
<1>1. Len(<<a>>) = 1 /\ Len(<<a, b>>) = 2 /\ Len(<<a, b, c>>) = 3
  OBVIOUS
<1>2. Head(<<a>>) = a /\ Head(<<a, b>>) = a /\ Head(<<a, b, c>>) = a
  OBVIOUS
<1>3. Tail(<<a, b>>) = <<b>>
  OBVIOUS
<1>4. Tail(<<a, b, c>>) = <<b, c>>
  OBVIOUS
<1> QED BY <1>1, <1>2, <1>3, <1>4

LEMMA PlansAreCalls == Plans \subseteq Seq(Calls)
<1>1. \A c \in Calls : <<c>> \in Seq(Calls)
  OBVIOUS
<1>2. \A c, d \in Calls : <<c, d>> \in Seq(Calls)
  OBVIOUS
<1>3. \A c, d, e \in Calls : <<c, d, e>> \in Seq(Calls)
  OBVIOUS
<1>4. {"fail over capacity", "fail unready", "fail replaced", "fail blocked",
       "fail incomplete", "fail corrupt", "ensure", "seed", "verify", "activate"} \subseteq Calls
  BY DEF Calls, Maintenance!Reasons
<1> QED BY <1>1, <1>2, <1>3, <1>4, Zenon DEF Plans

LEMMA PlanHeads ==
  /\ Head(<<"fail over capacity">>) = "fail over capacity"
  /\ Head(<<"fail unready">>) = "fail unready"
  /\ Head(<<"fail replaced", "ensure", "seed">>) = "fail replaced"
  /\ Head(<<"ensure", "seed">>) = "ensure" /\ Head(<<"seed">>) = "seed"
  /\ Head(<<"verify", "activate">>) = "verify" /\ Head(<<"activate">>) = "activate"
  /\ Head(<<"fail blocked">>) = "fail blocked"
  /\ Head(<<"fail incomplete">>) = "fail incomplete" /\ Head(<<"fail corrupt">>) = "fail corrupt"
OBVIOUS

LEMMA Reads ==
  ASSUME NEW o \in Owners
  PROVE  /\ Maintenance!Over(o) <=> Many(owner[o])
         /\ Maintenance!Complete(o) <=> Whole(owner[o])
         /\ Maintenance!Counted(o) <=> Tallied(owner[o])
         /\ Maintenance!Blocked(o) <=> Stuck(owner[o])
         /\ Maintenance!In(o, "lost") # {} <=> Missed(owner[o])
         /\ Maintenance!In(o, "covered") = {} <=> Unopened(owner[o])
<1>1. Maintenance!Over(o) <=> Many(owner[o])
  BY DEF Maintenance!Over, Maintenance!Eligible, Many
<1>2. Maintenance!Complete(o) <=> Whole(owner[o])
  BY DEF Maintenance!Complete, Maintenance!Eligible, Whole
<1>3. Maintenance!Counted(o) <=> Tallied(owner[o])
  BY DEF Maintenance!Counted, Maintenance!Eligible, Tallied
<1>4. Maintenance!Blocked(o) <=> Stuck(owner[o])
  BY DEF Maintenance!Blocked, Maintenance!In, Stuck
<1>5. Maintenance!In(o, "lost") # {} <=> Missed(owner[o])
  BY DEF Maintenance!In, Missed
<1>6. Maintenance!In(o, "covered") = {} <=> Unopened(owner[o])
  BY DEF Maintenance!In, Unopened
<1> QED BY <1>1, <1>2, <1>3, <1>4, <1>5, <1>6

LEMMA MaintenanceSets ==
  ASSUME NEW S
  PROVE  (Maintenance!IsFiniteSet(S) <=> IsFiniteSet(S)) /\ Maintenance!Cardinality(S) = Cardinality(S)
<1>1. Maintenance!IsFiniteSet(S) <=> IsFiniteSet(S)
  BY DEF Maintenance!IsFiniteSet, IsFiniteSet
<1>2. Maintenance!Cardinality(S) = Cardinality(S)
  BY DEF Maintenance!Cardinality, Cardinality
<1> QED BY <1>1, <1>2

LEMMA MaintenanceRanks ==
  ASSUME NEW S, NEW k
  PROVE  Maintenance!Lowest(k, S) = Lowest(k, S) /\ Maintenance!InOrder(S) = InOrder(S)
<1>1. \A x : Maintenance!Rank(x, S) = Rank(x, S)
  BY MaintenanceSets DEF Maintenance!Rank, Rank
<1>2. Maintenance!Lowest(k, S) = Lowest(k, S)
  BY <1>1 DEF Maintenance!Lowest, Lowest
<1>3. Maintenance!Cardinality(S) = Cardinality(S)
  BY MaintenanceSets
<1>4. Maintenance!InOrder(S) = InOrder(S)
  <2>1. ASSUME NEW i
        PROVE  (CHOOSE x \in S : Maintenance!Rank(x, S) = i) = (CHOOSE x \in S : Rank(x, S) = i)
    BY <1>1
  <2> QED BY <1>3, <2>1 DEF Maintenance!InOrder, InOrder
<1> QED BY <1>2, <1>4

LEMMA MaintenanceBounds ==
  /\ Owners \subseteq Nat \ {0} /\ IsFiniteSet(Owners)
  /\ Capacity \in Nat \ {0} /\ PageLimit \in Nat \ {0} /\ MaxPages \in Nat \ {0}
  /\ SeedLimit \in Nat \ {0} /\ MaxSeedPages \in Nat \ {0} /\ MaxWrites \in Nat /\ MaxFaults \in Nat
BY ServerAssumption, MaintenanceSets DEF Maintenance!MaintenanceAssumption

LEMMA RestingIsSound ==
  ASSUME NEW O
  PROVE  Maintenance!Resting \in PassType /\ Sound(Maintenance!Resting, O)
<1>1. <<>> \in Seq(Maintenance!Candidate) /\ <<>> \in Seq(Calls) /\ Len(<<>>) = 0
  OBVIOUS
<1> QED BY <1>1, MaintenanceBounds
  DEF Maintenance!Resting, PassType, Sound, Bounded, FreshRest, Due

LEMMA MaintenanceBegins ==
  ASSUME Maintenance!Init PROVE MaintenanceInv
<1>1. owner \in [Owners -> OwnerType] /\ \A o \in Owners : ~owner[o].proven /\ owner[o].ready
  <2>1. ASSUME NEW notes \in [Notes -> {"missing", "out"}]
        PROVE  [ready |-> TRUE, served |-> "other", build |-> "none", note |-> notes, proven |-> FALSE]
               \in {x \in OwnerType : ~x.proven /\ x.ready}
    BY <2>1 DEF OwnerType, IndexStates, Maintenance!Models
  <2>2. [ready |-> TRUE, served |-> "none", build |-> "other",
         note |-> [n \in Notes |-> "queued"], proven |-> FALSE] \in {x \in OwnerType : ~x.proven /\ x.ready}
    BY DEF OwnerType, IndexStates, Maintenance!Models
  <2> DEFINE T == {x \in OwnerType : ~x.proven /\ x.ready}
             A == {[ready |-> TRUE, served |-> "other", build |-> "none", note |-> notes,
                    proven |-> FALSE] : notes \in [Notes -> {"missing", "out"}]}
             b == [ready |-> TRUE, served |-> "none", build |-> "other",
                   note |-> [n \in Notes |-> "queued"], proven |-> FALSE]
  <2>3. owner \in [Owners -> A \cup {b}]
    BY DEF Maintenance!Init
  <2>4. A \subseteq T /\ b \in T
    BY <2>1, <2>2
  <2> HIDE DEF A, b
  <2>5. \A o \in Owners : owner[o] \in T
    BY <2>3, <2>4
  <2> QED BY <2>3, <2>5
<1>2. pass = [p \in Passes |-> Maintenance!Resting]
  BY DEF Maintenance!Init
<1>3. MaintenanceTypes
  BY <1>1, <1>2, RestingIsSound, MaintenanceBounds DEF Maintenance!Init, MaintenanceTypes
<1> QED BY <1>1, <1>2, <1>3, RestingIsSound DEF MaintenanceInv, Proven, Honest, AllSound

-----------------------------------------------------------------------------
(* What keeps a pass sound.                                                *)

\* r is q once the token of owner o has moved.
Aged(q, r, o) ==
  /\ r \in PassType /\ Len(r.page) = Len(q.page)
  /\ \A i \in DOMAIN q.page :
       /\ r.page[i].owner = q.page[i].owner
       /\ q.page[i].owner = o => r.page[i].token # "present"
       /\ q.page[i].owner # o => r.page[i] = q.page[i]
  /\ r.pc = q.pc /\ r.pages = q.pages /\ r.todo = q.todo /\ r.seeds = q.seeds

LEMMA AgedIsSound ==
  ASSUME NEW q \in PassType, NEW O, Sound(q, O), NEW P, NEW o,
         \A m \in Owners \ {o} : P[m] = O[m], NEW r, Aged(q, r, o)
  PROVE  Sound(r, P)
<1>1. /\ q.page \in Seq(Maintenance!Candidate) /\ r.page \in Seq(Maintenance!Candidate)
      /\ DOMAIN r.page = DOMAIN q.page
  BY DEF Aged, PassType
<1>2. \A i \in DOMAIN q.page : q.page[i].owner \in Owners
  <2>1. \A i \in DOMAIN q.page : q.page[i] \in Maintenance!Candidate
    BY <1>1
  <2> QED BY <2>1 DEF Maintenance!Candidate
<1>3. Bounded(r)
  BY <1>1 DEF Sound, Bounded, Aged
<1>4. FreshRest(r, P)
  BY <1>1, <1>2 DEF Sound, FreshRest, Fresh, Aged
<1>5. Due(r, P)
  <2> SUFFICES ASSUME q.pc = "call", r.page[1].token = "present"
               PROVE  Reasoned(P[r.page[1].owner], r.todo)
    BY DEF Sound, Due, Aged
  <2>1. 1 \in DOMAIN q.page
    BY <1>1 DEF Sound, Bounded
  <2>2. r.page[1] = q.page[1] /\ r.page[1].owner # o /\ r.page[1].owner \in Owners
    BY <1>2, <2>1 DEF Aged
  <2> QED BY <2>2 DEF Sound, Due, Aged
<1> QED BY <1>3, <1>4, <1>5 DEF Sound

\* What happens to an index without a token of it moving.
Stays(x, y) ==
  /\ y.build = x.build /\ (Many(x) => Many(y)) /\ (Tallied(x) => Tallied(y))
  /\ (Stuck(x) => Stuck(y)) /\ (Missed(x) => Missed(y)) /\ (Whole(x) => Whole(y))
  /\ (Unopened(x) => Unopened(y))

LEMMA StaysSound ==
  ASSUME NEW q \in PassType, NEW O, Sound(q, O), NEW P, \A m \in Owners : Stays(O[m], P[m])
  PROVE  Sound(q, P)
<1>1. \A i \in DOMAIN q.page : q.page[i].owner \in Owners
  <2>1. q.page \in Seq(Maintenance!Candidate)
    BY DEF PassType
  <2>2. \A i \in DOMAIN q.page : q.page[i] \in Maintenance!Candidate
    BY <2>1
  <2> QED BY <2>2 DEF Maintenance!Candidate
<1>2. FreshRest(q, P)
  BY <1>1 DEF Sound, FreshRest, Fresh, Stays
<1>3. Due(q, P)
  <2>1. q.pc = "call" => 1 \in DOMAIN q.page
    BY DEF Sound, Bounded, PassType
  <2> QED BY <1>1, <2>1 DEF Sound, Due, Stays, Reasoned
<1> QED BY <1>2, <1>3 DEF Sound

Skipped(q) == [q EXCEPT !.page = Tail(@), !.todo = <<>>, !.seeds = 0, !.pc = "visit"]

LEMMA SkippedIsSound ==
  ASSUME NEW q \in PassType, NEW O, Sound(q, O), q.pc \in {"visit", "call"}, Len(q.page) # 0
  PROVE  Skipped(q) \in PassType /\ Sound(Skipped(q), O)
<1> DEFINE r == Skipped(q)
<1>1. q.page \in Seq(Maintenance!Candidate) /\ Len(q.page) \in Nat \ {0}
  BY DEF PassType
<1>2. /\ r.page = Tail(q.page) /\ r.pc = "visit" /\ r.seeds = 0 /\ r.todo = <<>>
  BY DEF PassType, Skipped
<1>3. /\ Tail(q.page) \in Seq(Maintenance!Candidate) /\ Len(Tail(q.page)) = Len(q.page) - 1
      /\ \A i \in DOMAIN Tail(q.page) : i + 1 \in DOMAIN q.page /\ i + 1 > 1
                                       /\ Tail(q.page)[i] = q.page[i + 1]
  BY <1>1
<1>4. r \in PassType
  <2>1. <<>> \in Seq(Calls)
    OBVIOUS
  <2> QED BY <1>3, <2>1 DEF PassType, Skipped
<1> HIDE DEF r
<1>5. Bounded(r)
  BY <1>1, <1>2, <1>3, MaintenanceBounds DEF Bounded, Sound
<1>6. FreshRest(r, O)
  BY <1>2, <1>3 DEF FreshRest, Sound
<1>7. Due(r, O)
  BY <1>2 DEF Due
<1> QED BY <1>4, <1>5, <1>6, <1>7 DEF Sound, r

\* The next call is due for what the first one was.
Advanced(q) == IF Len(q.todo) = 1 THEN Skipped(q) ELSE [q EXCEPT !.todo = Tail(@)]

LEMMA AdvancedIsSound ==
  ASSUME NEW q \in PassType, NEW O, Sound(q, O), q.pc = "call"
  PROVE  Advanced(q) \in PassType /\ Sound(Advanced(q), O)
<1>1. q.todo \in Plans /\ Len(q.page) # 0
  BY DEF Sound, Due, Bounded
<1>2. CASE Len(q.todo) = 1
  BY <1>1, <1>2, SkippedIsSound DEF Advanced
<1>3. CASE Len(q.todo) # 1
  <2> DEFINE r == [q EXCEPT !.todo = Tail(@)]
  <2>1. q.todo \in {<<"fail replaced", "ensure", "seed">>, <<"ensure", "seed">>,
                    <<"verify", "activate">>}
    <3>1. \A a : Len(<<a>>) = 1
      BY Tuples
    <3> QED BY <1>1, <1>3, <3>1 DEF Plans
  <2>2. /\ Tail(q.todo) \in Plans /\ Tail(q.todo) \in Seq(Calls)
        /\ \A x : Reasoned(x, q.todo) => Reasoned(x, Tail(q.todo))
    <3>1. CASE q.todo = <<"fail replaced", "ensure", "seed">>
      <4>1. Tail(q.todo) = <<"ensure", "seed">> /\ Head(q.todo) = "fail replaced"
        <5>1. Tail(<<"fail replaced", "ensure", "seed">>) = <<"ensure", "seed">>
          BY Tuples
        <5>2. Head(<<"fail replaced", "ensure", "seed">>) = "fail replaced"
          BY Tuples
        <5> QED BY <3>1, <5>1, <5>2
      <4>2. <<"ensure", "seed">> \in Plans /\ <<"ensure", "seed">> \in Seq(Calls)
        BY DEF Plans, Calls
      <4>3. Head(<<"ensure", "seed">>) = "ensure"
        BY Tuples
      <4>4. \A x : Reasoned(x, q.todo) => Reasoned(x, Tail(q.todo))
        BY <4>1, <4>3 DEF Reasoned
      <4> QED BY <4>1, <4>2, <4>4
    <3>2. CASE q.todo = <<"ensure", "seed">>
      <4>1. Tail(q.todo) = <<"seed">> /\ Head(q.todo) = "ensure"
        BY <3>2, Tuples
      <4>2. <<"seed">> \in Plans /\ <<"seed">> \in Seq(Calls)
        BY DEF Plans, Calls
      <4>3. Head(<<"seed">>) = "seed"
        BY Tuples
      <4>4. \A x : Reasoned(x, q.todo) => Reasoned(x, Tail(q.todo))
        BY <4>1, <4>3 DEF Reasoned
      <4> QED BY <4>1, <4>2, <4>4
    <3>3. CASE q.todo = <<"verify", "activate">>
      <4>1. Tail(q.todo) = <<"activate">> /\ Head(q.todo) = "verify"
        BY <3>3, Tuples
      <4>2. <<"activate">> \in Plans /\ <<"activate">> \in Seq(Calls)
        BY DEF Plans, Calls
      <4>3. Head(<<"activate">>) = "activate"
        BY Tuples
      <4>4. \A x : Reasoned(x, q.todo) => Reasoned(x, Tail(q.todo))
        BY <4>1, <4>3 DEF Reasoned
      <4> QED BY <4>1, <4>2, <4>4
    <3> QED BY <2>1, <3>1, <3>2, <3>3
  <2>3. /\ r \in PassType /\ r.todo = Tail(q.todo) /\ r.page = q.page /\ r.pc = q.pc
        /\ r.seeds = q.seeds /\ r.pages = q.pages
    BY <2>2 DEF PassType
  <2> HIDE DEF r
  <2>4. Bounded(r) /\ FreshRest(r, O) /\ Due(r, O)
    BY <2>2, <2>3 DEF Sound, Bounded, FreshRest, Due
  <2>5. Advanced(q) = r
    BY <1>3 DEF Advanced, r
  <2> QED BY <2>3, <2>4, <2>5 DEF Sound
<1> QED BY <1>2, <1>3

\* What is due instead.
LEMMA ReplannedIsSound ==
  ASSUME NEW q \in PassType, NEW O, Sound(q, O), q.pc = "call",
         NEW call \in Calls, <<call>> \in Plans,
         q.page[1].token = "present" => Reasoned(O[q.page[1].owner], <<call>>)
  PROVE  /\ [q EXCEPT !.todo = <<call>>] \in PassType
         /\ Sound([q EXCEPT !.todo = <<call>>], O)
<1> DEFINE r == [q EXCEPT !.todo = <<call>>]
<1>1. /\ r \in PassType /\ r.todo = <<call>> /\ r.page = q.page /\ r.pc = q.pc
      /\ r.seeds = q.seeds /\ r.pages = q.pages
  <2>1. <<call>> \in Seq(Calls)
    OBVIOUS
  <2> QED BY <2>1 DEF PassType
<1> HIDE DEF r
<1>2. Bounded(r) /\ FreshRest(r, O) /\ Due(r, O)
  BY <1>1 DEF Sound, Bounded, FreshRest, Due
<1> QED BY <1>1, <1>2 DEF Sound, r

\* ... and so for all of them.
LEMMA Replaced ==
  ASSUME NEW X, NEW O, AllSound(X, O), NEW p \in Passes, NEW r \in PassType, Sound(r, O)
  PROVE  AllSound([X EXCEPT ![p] = r], O)
BY DEF AllSound

LEMMA RestSound ==
  ASSUME NEW O, AllSound(pass, O), NEW p \in Passes
  PROVE  AllSound([pass EXCEPT ![p] = Maintenance!Resting], O)
BY Replaced, RestingIsSound

LEMMA SkipSound ==
  ASSUME NEW X, NEW O, AllSound(X, O), NEW p \in Passes,
         X[p].pc \in {"visit", "call"}, Len(X[p].page) # 0
  PROVE  AllSound(Maintenance!Skip(p, X), O)
<1>1. X[p] \in PassType /\ Sound(X[p], O) /\ X \in [Passes -> PassType]
  BY DEF AllSound
<1> DEFINE r == Skipped(X[p])
<1>2. r \in PassType /\ Sound(r, O)
  BY <1>1, SkippedIsSound
<1>3. Maintenance!Skip(p, X) = [X EXCEPT ![p] = r]
  BY <1>1 DEF Maintenance!Skip, Skipped, PassType
<1> HIDE DEF r
<1>4. AllSound([X EXCEPT ![p] = r], O)
  BY <1>2, Replaced
<1> QED BY <1>3, <1>4

LEMMA DoneSound ==
  ASSUME NEW X, NEW O, AllSound(X, O), NEW p \in Passes,
         X[p].pc = "call", X[p].todo = pass[p].todo
  PROVE  AllSound(Maintenance!Done(p, X), O)
<1>1. X[p] \in PassType /\ Sound(X[p], O) /\ X \in [Passes -> PassType]
  BY DEF AllSound
<1>2. Len(X[p].page) # 0
  BY <1>1 DEF Sound, Bounded
<1>3. CASE Len(pass[p].todo) = 1
  BY <1>2, <1>3, SkipSound DEF Maintenance!Done
<1>4. CASE Len(pass[p].todo) # 1
  <2> DEFINE r == Advanced(X[p])
  <2>1. r \in PassType /\ Sound(r, O)
    BY <1>1, AdvancedIsSound
  <2>2. Maintenance!Done(p, X) = [X EXCEPT ![p] = r]
    BY <1>1, <1>4 DEF Maintenance!Done, Advanced
  <2> HIDE DEF r
  <2>3. AllSound([X EXCEPT ![p] = r], O)
    BY <2>1, Replaced
  <2> QED BY <2>2, <2>3
<1> QED BY <1>3, <1>4

LEMMA ReplanSound ==
  ASSUME NEW X, NEW O, AllSound(X, O), NEW p \in Passes, X[p].pc = "call",
         NEW call \in Calls, <<call>> \in Plans,
         X[p].page[1].token = "present" => Reasoned(O[X[p].page[1].owner], <<call>>)
  PROVE  AllSound([X EXCEPT ![p].todo = <<call>>], O)
<1>1. X[p] \in PassType /\ Sound(X[p], O) /\ X \in [Passes -> PassType]
  BY DEF AllSound
<1> DEFINE r == [X[p] EXCEPT !.todo = <<call>>]
<1>2. r \in PassType /\ Sound(r, O)
  BY <1>1, ReplannedIsSound
<1>3. [X EXCEPT ![p].todo = <<call>>] = [X EXCEPT ![p] = r]
  BY <1>1
<1> QED BY <1>2, <1>3, Replaced

\* A token that moves for all who have it.
LEMMA AfterAges ==
  ASSUME pass \in [Passes -> PassType], NEW o, NEW how \in {"moved", "failed", "activated"},
         NEW p \in Passes
  PROVE  /\ Maintenance!After(o, how) \in [Passes -> PassType]
         /\ Aged(pass[p], Maintenance!After(o, how)[p], o)
<1> DEFINE Page(q) == [i \in DOMAIN q.page |-> Maintenance!Marked(q.page[i], o, how)]
           R(q) == [q EXCEPT !.page = Page(q)]
<1>1. Maintenance!After(o, how) = [q \in Passes |-> R(pass[q])]
  BY DEF Maintenance!After
<1>2. ASSUME NEW q \in PassType
      PROVE  R(q) \in PassType /\ Aged(q, R(q), o)
  <2>1. /\ q.page \in Seq(Maintenance!Candidate) /\ DOMAIN q.page = 1 .. Len(q.page)
        /\ Len(q.page) \in Nat
    BY DEF PassType
  <2>2. ASSUME NEW i \in DOMAIN q.page
        PROVE  /\ Page(q)[i] \in Maintenance!Candidate
               /\ Page(q)[i].owner = q.page[i].owner
               /\ q.page[i].owner = o => Page(q)[i].token # "present"
               /\ q.page[i].owner # o => Page(q)[i] = q.page[i]
    <3> DEFINE c == q.page[i]
               t == Maintenance!Moved(how, c.token)
    <3>1. c \in Maintenance!Candidate
      BY <2>1
    <3>2. t \in {"moved", "failed", "activated"}
      BY <3>1 DEF Maintenance!Moved, Maintenance!Candidate
    <3>3. Page(q)[i] = IF c.owner = o THEN [c EXCEPT !.token = t] ELSE c
      BY DEF Maintenance!Marked
    <3> HIDE DEF c, t, Page
    <3>4. Page(q)[i] \in Maintenance!Candidate /\ Page(q)[i].owner = c.owner
      BY <3>1, <3>2, <3>3 DEF Maintenance!Candidate
    <3>5. c.owner = o => Page(q)[i].token = t
      BY <3>1, <3>3 DEF Maintenance!Candidate
    <3> QED BY <3>2, <3>3, <3>4, <3>5 DEF c
  <2>3. Page(q) \in [1 .. Len(q.page) -> Maintenance!Candidate]
    BY <2>1, <2>2
  <2> HIDE DEF Page
  <2>5. /\ Page(q) \in Seq(Maintenance!Candidate) /\ Len(Page(q)) = Len(q.page)
    BY <2>1, <2>3
  <2>4. /\ R(q) \in PassType /\ R(q).page = Page(q)
        /\ R(q).pc = q.pc /\ R(q).pages = q.pages /\ R(q).todo = q.todo /\ R(q).seeds = q.seeds
    BY <2>5 DEF PassType
  <2> QED BY <2>2, <2>4, <2>5 DEF Aged
<1> HIDE DEF R
<1> QED BY <1>1, <1>2

LEMMA AfterSound ==
  ASSUME MaintenanceInv, NEW o, NEW how \in {"moved", "failed", "activated"},
         NEW P, \A m \in Owners \ {o} : P[m] = owner[m]
  PROVE  AllSound(Maintenance!After(o, how), P)
<1>1. pass \in [Passes -> PassType] /\ \A p \in Passes : Sound(pass[p], owner)
  BY DEF MaintenanceInv, AllSound
<1>2. ASSUME NEW p \in Passes PROVE Sound(Maintenance!After(o, how)[p], P)
  BY <1>1, AfterAges, AgedIsSound
<1>3. Passes # {} => Maintenance!After(o, how) \in [Passes -> PassType]
  BY <1>1, AfterAges
<1>4. Passes = {} => Maintenance!After(o, how) \in [Passes -> PassType]
  BY DEF Maintenance!After
<1> QED BY <1>2, <1>3, <1>4 DEF AllSound

LEMMA AgesSound ==
  ASSUME MaintenanceInv, NEW o, NEW how \in {"moved", "failed", "activated"},
         \A m \in Owners \ {o} : owner'[m] = owner[m]
  PROVE  AllSound(Maintenance!After(o, how), owner')
<1> DEFINE P == owner'
<1>1. \A m \in Owners \ {o} : P[m] = owner[m]
  OBVIOUS
<1> HIDE DEF P
<1>2. AllSound(Maintenance!After(o, how), P)
  BY <1>1, AfterSound
<1> QED BY <1>2 DEF P

LEMMA StaleSound ==
  ASSUME MaintenanceInv, NEW o, pass' = Maintenance!Stale(o),
         \A m \in Owners \ {o} : owner'[m] = owner[m]
  PROVE  AllSound(pass', owner')
<1>1. AllSound(Maintenance!After(o, "moved"), owner')
  BY AgesSound
<1> QED BY <1>1 DEF Maintenance!Stale

LEMMA RenewedSound ==
  ASSUME MaintenanceInv, NEW p \in Passes, pass[p].pc = "call",
         Head(pass[p].todo) \in {"ensure", "seed"},
         NEW P, \A m \in Owners \ {Maintenance!Here(p).owner} : P[m] = owner[m]
  PROVE  /\ AllSound(Maintenance!Renewed(p), P)
         /\ Maintenance!Renewed(p)[p].pc = "call"
         /\ Maintenance!Renewed(p)[p].todo = pass[p].todo
         /\ Maintenance!Renewed(p)[p].seeds = pass[p].seeds
         /\ Len(Maintenance!Renewed(p)[p].page) # 0
         /\ Maintenance!Renewed(p)[p].page[1].owner = Maintenance!Here(p).owner
<1> DEFINE o == Maintenance!Here(p).owner
           A == Maintenance!After(o, "moved")
           a == A[p]
           c == [a.page[1] EXCEPT !.token = "present"]
           r == [a EXCEPT !.page = [a.page EXCEPT ![1] = c]]
<1>1. pass[p] \in PassType /\ Sound(pass[p], owner) /\ pass \in [Passes -> PassType]
  BY DEF MaintenanceInv, AllSound
<1>2. /\ pass[p].page \in Seq(Maintenance!Candidate) /\ Len(pass[p].page) \in Nat \ {0}
      /\ 1 \in DOMAIN pass[p].page /\ pass[p].todo \in Plans
  BY <1>1 DEF PassType, Sound, Bounded, Due
<1>3. o = pass[p].page[1].owner
  BY <1>2 DEF Maintenance!Here
<1>4. AllSound(A, P)
  BY AfterSound
<1>5. A \in [Passes -> PassType] /\ Aged(pass[p], a, o)
  BY <1>1, AfterAges
<1>6. a \in PassType /\ Sound(a, P)
  BY <1>4 DEF AllSound
<1>7. Maintenance!Renewed(p) = [A EXCEPT ![p] = r]
  BY <1>5 DEF Maintenance!Renewed, Maintenance!Stale, PassType
<1> HIDE DEF A, o
<1>8. /\ a.page \in Seq(Maintenance!Candidate) /\ Len(a.page) = Len(pass[p].page)
      /\ DOMAIN a.page = 1 .. Len(pass[p].page) /\ a.page[1].owner = o
  BY <1>1, <1>2, <1>3, <1>5 DEF Aged, PassType
<1>9. a.page[1] \in Maintenance!Candidate
  BY <1>2, <1>8
<1>10. c \in Maintenance!Candidate /\ c.owner = o
  BY <1>8, <1>9 DEF Maintenance!Candidate
<1> HIDE DEF c, a
<1>11. /\ [a.page EXCEPT ![1] = c] \in Seq(Maintenance!Candidate)
       /\ Len([a.page EXCEPT ![1] = c]) = Len(a.page)
       /\ [a.page EXCEPT ![1] = c][1] = c
       /\ \A i \in DOMAIN a.page : i > 1 => [a.page EXCEPT ![1] = c][i] = a.page[i]
       /\ DOMAIN [a.page EXCEPT ![1] = c] = DOMAIN a.page
  BY <1>2, <1>8, <1>10
<1>12. /\ r \in PassType /\ r.page = [a.page EXCEPT ![1] = c]
       /\ r.pc = "call" /\ r.pages = a.pages /\ r.todo = pass[p].todo
       /\ r.seeds = pass[p].seeds /\ a.seeds = pass[p].seeds
       /\ a.pc = "call"
  BY <1>5, <1>6, <1>11 DEF PassType, Aged
<1> HIDE DEF r
<1>13. Bounded(r)
  BY <1>2, <1>6, <1>8, <1>11, <1>12 DEF Sound, Bounded
<1>14. FreshRest(r, P)
  BY <1>6, <1>11, <1>12 DEF Sound, FreshRest
<1>15. Reasoned(P[r.page[1].owner], r.todo)
  BY <1>12 DEF Reasoned
<1>16. Due(r, P)
  BY <1>2, <1>12, <1>15 DEF Due
<1>17. Sound(r, P)
  BY <1>13, <1>14, <1>16 DEF Sound
<1>18. AllSound([A EXCEPT ![p] = r], P)
  BY <1>4, <1>12, <1>17, Replaced
<1>19. [A EXCEPT ![p] = r][p] = r
  BY <1>5
<1> QED BY <1>2, <1>7, <1>8, <1>10, <1>11, <1>12, <1>18, <1>19 DEF o

LEMMA Renews ==
  ASSUME MaintenanceInv, NEW p \in Passes, pass[p].pc = "call",
         Head(pass[p].todo) \in {"ensure", "seed"},
         \A m \in Owners \ {Maintenance!Here(p).owner} : owner'[m] = owner[m]
  PROVE  /\ AllSound(Maintenance!Renewed(p), owner')
         /\ Maintenance!Renewed(p)[p].pc = "call"
         /\ Maintenance!Renewed(p)[p].todo = pass[p].todo
         /\ Maintenance!Renewed(p)[p].seeds = pass[p].seeds
         /\ Len(Maintenance!Renewed(p)[p].page) # 0
         /\ Maintenance!Renewed(p)[p].page[1].owner = Maintenance!Here(p).owner
<1> DEFINE P == owner'
<1>1. \A m \in Owners \ {Maintenance!Here(p).owner} : P[m] = owner[m]
  OBVIOUS
<1> HIDE DEF P
<1>2. AllSound(Maintenance!Renewed(p), P)
  BY <1>1, RenewedSound
<1> QED BY <1>1, <1>2, RenewedSound DEF P

LEMMA OverSound ==
  ASSUME NEW X, NEW O, AllSound(X, O), NEW p \in Passes, X[p].pc = "call",
         Many(O[X[p].page[1].owner])
  PROVE  AllSound([X EXCEPT ![p].todo = <<"fail over capacity">>], O)
<1>1. "fail over capacity" \in Calls /\ <<"fail over capacity">> \in Plans
  BY DEF Calls, Maintenance!Reasons, Plans
<1>2. Reasoned(O[X[p].page[1].owner], <<"fail over capacity">>)
  BY PlanHeads DEF Reasoned
<1> QED BY <1>1, <1>2, ReplanSound

-----------------------------------------------------------------------------
(* The owners.                                                             *)

LEMMA OwnerChanges ==
  ASSUME MaintenanceInv, NEW o \in Owners, NEW x \in OwnerType, Honest(x),
         owner' = [owner EXCEPT ![o] = x]
  PROVE  /\ owner' \in [Owners -> OwnerType] /\ Proven(owner')
         /\ owner'[o] = x /\ \A m \in Owners \ {o} : owner'[m] = owner[m]
<1>1. owner \in [Owners -> OwnerType] /\ Proven(owner)
  BY DEF MaintenanceInv, MaintenanceTypes
<1>2. \A m \in Owners : owner'[m] = IF m = o THEN x ELSE owner[m]
  BY <1>1
<1> QED BY <1>1, <1>2 DEF Proven

LEMMA MaintenanceEnds ==
  ASSUME owner' \in [Owners -> OwnerType], Proven(owner'), AllSound(pass', owner'),
         checkpoint' \in [{"seed", "verify"} -> Owners \cup {0}],
         used' \in [writes : 0 .. MaxWrites, faults : 0 .. MaxFaults]
  PROVE  MaintenanceInv'
BY DEF MaintenanceInv, MaintenanceTypes

LEMMA CheckpointStays ==
  ASSUME MaintenanceInv, UNCHANGED checkpoint
  PROVE  checkpoint' \in [{"seed", "verify"} -> Owners \cup {0}]
BY DEF MaintenanceInv, MaintenanceTypes

LEMMA UsedStays ==
  ASSUME MaintenanceInv, Maintenance!Writing \/ Maintenance!Faulty \/ UNCHANGED used
  PROVE  used' \in [writes : 0 .. MaxWrites, faults : 0 .. MaxFaults]
<1>1. used \in [writes : 0 .. MaxWrites, faults : 0 .. MaxFaults]
  BY DEF MaintenanceInv, MaintenanceTypes
<1>2. MaxWrites \in Nat /\ MaxFaults \in Nat
  BY MaintenanceBounds
<1>3. CASE Maintenance!Writing
  BY <1>1, <1>2, <1>3 DEF Maintenance!Writing
<1>4. CASE Maintenance!Faulty
  BY <1>1, <1>2, <1>4 DEF Maintenance!Faulty
<1>5. CASE UNCHANGED used
  BY <1>1, <1>5
<1> QED BY <1>3, <1>4, <1>5

LEMMA WriteKeeps ==
  ASSUME MaintenanceInv, NEW o \in Owners, NEW n \in Notes, NEW eligible \in BOOLEAN,
         Maintenance!Write(o, n, eligible)
  PROVE  MaintenanceInv'
<1> DEFINE v == IF ~eligible THEN "out" ELSE IF owner[o].build = "none" THEN "missing" ELSE "queued"
           x == [owner[o] EXCEPT !.note = [owner[o].note EXCEPT ![n] = v], !.proven = FALSE]
<1>1. owner \in [Owners -> OwnerType] /\ owner[o] \in OwnerType
  BY DEF MaintenanceInv, MaintenanceTypes
<1>2. v \in IndexStates /\ v # "covered"
  BY DEF IndexStates
<1>3. owner' = [owner EXCEPT ![o] = x]
  BY <1>1 DEF Maintenance!Write, OwnerType
<1> HIDE DEF v
<1>4. /\ x \in OwnerType /\ ~x.proven /\ x.ready = owner[o].ready
      /\ x.note = [owner[o].note EXCEPT ![n] = v]
  BY <1>1, <1>2 DEF OwnerType
<1> HIDE DEF x
<1>7. Honest(x)
  <2>1. Unopened(owner[o]) => Unopened(x)
    BY <1>1, <1>2, <1>4 DEF Unopened, OwnerType
  <2>2. Honest(owner[o])
    BY DEF MaintenanceInv, Proven
  <2> QED BY <1>4, <2>1, <2>2 DEF Honest
<1>5. /\ owner' \in [Owners -> OwnerType] /\ Proven(owner')
      /\ \A m \in Owners \ {o} : owner'[m] = owner[m]
  BY <1>3, <1>4, <1>7, OwnerChanges
<1>6. AllSound(pass', owner')
  BY <1>5, StaleSound DEF Maintenance!Write
<1> QED BY <1>5, <1>6, CheckpointStays, UsedStays, MaintenanceEnds DEF Maintenance!Write

LEMMA PassesStay ==
  ASSUME MaintenanceInv, \A m \in Owners : Stays(owner[m], owner'[m])
  PROVE  AllSound(pass, owner') /\ (UNCHANGED pass => AllSound(pass', owner'))
BY StaysSound DEF MaintenanceInv, AllSound

LEMMA StaysPut == \A x : Stays(x, x)
BY DEF Stays

LEMMA RevokeKeyKeeps ==
  ASSUME MaintenanceInv, NEW o \in Owners, Maintenance!RevokeKey(o)
  PROVE  MaintenanceInv'
<1> DEFINE f == [n \in Notes |-> IF owner[o].note[n] = "covered" THEN "lost" ELSE owner[o].note[n]]
           none == Maintenance!In(o, "covered") = {}
           x == [owner[o] EXCEPT !.ready = FALSE, !.proven = @ /\ none, !.note = f]
<1>1. owner \in [Owners -> OwnerType] /\ owner[o] \in OwnerType /\ Proven(owner)
  BY DEF MaintenanceInv, MaintenanceTypes
<1>2. f \in [Notes -> IndexStates] /\ \A n \in Notes : f[n] # "covered"
  BY <1>1 DEF OwnerType, IndexStates
<1>3. owner' = [owner EXCEPT ![o] = x]
  BY <1>1 DEF Maintenance!RevokeKey, OwnerType
<1>4. none => f = owner[o].note
  BY <1>1 DEF OwnerType, Maintenance!In
<1>5. none \in BOOLEAN
  OBVIOUS
<1> HIDE DEF f, none
<1>6. x \in OwnerType /\ x.proven = (owner[o].proven /\ none) /\ x.note = f /\ x.build = owner[o].build
  BY <1>1, <1>2, <1>5 DEF OwnerType
<1> HIDE DEF x
<1>7. Honest(x)
  <2>1. x.proven => Whole(x)
    BY <1>1, <1>4, <1>6 DEF Proven, Honest, Whole
  <2>2. Unopened(x)
    BY <1>2, <1>6 DEF Unopened
  <2> QED BY <2>1, <2>2 DEF Honest
<1>8. /\ owner' \in [Owners -> OwnerType] /\ Proven(owner')
      /\ owner'[o] = x /\ \A m \in Owners \ {o} : owner'[m] = owner[m]
  BY <1>3, <1>6, <1>7, OwnerChanges
<1>9. AllSound(pass', owner')
  <2>1. CASE none
    <3>1. Stays(owner[o], x)
      BY <1>4, <1>6, <2>1 DEF Stays, Many, Tallied, Stuck, Missed, Whole, Unopened
    <3>2. UNCHANGED pass
      BY <2>1 DEF Maintenance!RevokeKey, none
    <3> QED BY <1>8, <3>1, <3>2, StaysPut, PassesStay
  <2>2. CASE ~none
    BY <1>8, <2>2, StaleSound DEF Maintenance!RevokeKey, none
  <2> QED BY <2>1, <2>2
<1> QED BY <1>8, <1>9, CheckpointStays, UsedStays, MaintenanceEnds DEF Maintenance!RevokeKey

LEMMA AddKeyKeeps ==
  ASSUME MaintenanceInv, NEW o \in Owners, Maintenance!AddKey(o)
  PROVE  MaintenanceInv'
<1> DEFINE x == [owner[o] EXCEPT !.ready = TRUE]
<1>1. owner \in [Owners -> OwnerType] /\ owner[o] \in OwnerType /\ Proven(owner)
  BY DEF MaintenanceInv, MaintenanceTypes
<1>2. owner' = [owner EXCEPT ![o] = x]
  BY <1>1 DEF Maintenance!AddKey, OwnerType
<1>3. /\ x \in OwnerType /\ x.proven = owner[o].proven /\ x.note = owner[o].note
      /\ x.build = owner[o].build /\ x.ready
  BY <1>1 DEF OwnerType
<1> HIDE DEF x
<1>4. Honest(x) /\ Stays(owner[o], x)
  BY <1>1, <1>3 DEF Proven, Honest, Whole, Stays, Many, Tallied, Stuck, Missed, Unopened
<1>5. /\ owner' \in [Owners -> OwnerType] /\ Proven(owner')
      /\ owner'[o] = x /\ \A m \in Owners \ {o} : owner'[m] = owner[m]
  BY <1>2, <1>3, <1>4, OwnerChanges
<1>6. AllSound(pass', owner')
  BY <1>4, <1>5, StaysPut, PassesStay DEF Maintenance!AddKey
<1> QED BY <1>5, <1>6, CheckpointStays, UsedStays, MaintenanceEnds DEF Maintenance!AddKey

LEMMA IndexKeeps ==
  ASSUME MaintenanceInv, NEW o \in Owners, NEW n \in Notes, Maintenance!Index(o, n)
  PROVE  MaintenanceInv'
<1> DEFINE f == [m \in Notes |-> IF m = n THEN "covered"
                                 ELSE IF owner[o].note[m] = "lost" THEN "failed" ELSE owner[o].note[m]]
           x == [owner[o] EXCEPT !.proven = FALSE, !.note = f]
<1>1. owner \in [Owners -> OwnerType] /\ owner[o] \in OwnerType
  BY DEF MaintenanceInv, MaintenanceTypes
<1>2. f \in [Notes -> IndexStates]
  BY <1>1 DEF OwnerType, IndexStates
<1>3. owner' = [owner EXCEPT ![o] = x]
  BY <1>1 DEF Maintenance!Index, OwnerType
<1> HIDE DEF f
<1>4. x \in OwnerType /\ ~x.proven /\ x.ready
  BY <1>1, <1>2 DEF OwnerType, Maintenance!Index
<1>7. Honest(x)
  BY <1>4 DEF Honest
<1> HIDE DEF x
<1>5. /\ owner' \in [Owners -> OwnerType] /\ Proven(owner')
      /\ \A m \in Owners \ {o} : owner'[m] = owner[m]
  BY <1>3, <1>4, <1>7, OwnerChanges
<1>6. AllSound(pass', owner')
  BY <1>5, StaleSound DEF Maintenance!Index
<1> QED BY <1>5, <1>6, CheckpointStays, UsedStays, MaintenanceEnds DEF Maintenance!Index

LEMMA FailJobKeeps ==
  ASSUME MaintenanceInv, NEW o \in Owners, NEW n \in Notes, Maintenance!FailJob(o, n)
  PROVE  MaintenanceInv'
<1> DEFINE f == [owner[o].note EXCEPT ![n] = "failed"]
           x == [owner[o] EXCEPT !.note = f]
<1>1. owner \in [Owners -> OwnerType] /\ owner[o] \in OwnerType /\ Proven(owner)
  BY DEF MaintenanceInv, MaintenanceTypes
<1>2. /\ f \in [Notes -> IndexStates] /\ f[n] = "failed" /\ owner[o].note[n] = "queued"
      /\ \A m \in Notes \ {n} : f[m] = owner[o].note[m]
  BY <1>1 DEF OwnerType, IndexStates, Maintenance!FailJob
<1>3. owner' = [owner EXCEPT ![o] = x]
  BY <1>1 DEF Maintenance!FailJob, OwnerType
<1> HIDE DEF f
<1>4. /\ x \in OwnerType /\ x.proven = owner[o].proven /\ x.note = f
      /\ x.build = owner[o].build /\ x.ready = owner[o].ready
  BY <1>1, <1>2 DEF OwnerType
<1> HIDE DEF x
<1>9. Unopened(owner[o]) => Unopened(x)
  BY <1>2, <1>4 DEF Unopened
<1>5. Honest(x)
  <2>1. x.proven => Whole(x)
    BY <1>1, <1>2, <1>4 DEF Proven, Honest, Whole
  <2> QED BY <1>1, <1>4, <1>9, <2>1 DEF Proven, Honest
<1>6. Stays(owner[o], x)
  <2>1. {m \in Notes : x.note[m] # "out"} = {m \in Notes : owner[o].note[m] # "out"}
    BY <1>2, <1>4
  <2>2. ~Tallied(owner[o]) /\ ~Whole(owner[o]) /\ Stuck(x)
    BY <1>2, <1>4 DEF Tallied, Whole, Stuck
  <2>3. Missed(owner[o]) => Missed(x)
    BY <1>2, <1>4 DEF Missed
  <2> QED BY <1>4, <1>9, <2>1, <2>2, <2>3 DEF Stays, Many
<1>7. /\ owner' \in [Owners -> OwnerType] /\ Proven(owner')
      /\ owner'[o] = x /\ \A m \in Owners \ {o} : owner'[m] = owner[m]
  BY <1>3, <1>4, <1>5, OwnerChanges
<1>8. AllSound(pass', owner')
  BY <1>6, <1>7, StaysPut, PassesStay DEF Maintenance!FailJob
<1> QED BY <1>7, <1>8, CheckpointStays, UsedStays, MaintenanceEnds DEF Maintenance!FailJob

-----------------------------------------------------------------------------
(* A pass.                                                                 *)

\* What is known of a pass that is calling.
LEMMA CallIsDue ==
  ASSUME MaintenanceInv, NEW p \in Passes, pass[p].pc = "call"
  PROVE  /\ pass \in [Passes -> PassType] /\ pass[p] \in PassType /\ pass[p].todo \in Plans
         /\ pass[p].page \in Seq(Maintenance!Candidate) /\ Len(pass[p].page) \in Nat \ {0}
         /\ Maintenance!Here(p) = pass[p].page[1] /\ Maintenance!Here(p) \in Maintenance!Candidate
         /\ Maintenance!Here(p).owner \in Owners
         /\ Maintenance!Known(p) => Reasoned(owner[Maintenance!Here(p).owner], pass[p].todo)
<1>1. pass[p] \in PassType /\ Sound(pass[p], owner) /\ pass \in [Passes -> PassType]
  BY DEF MaintenanceInv, AllSound
<1>2. /\ pass[p].page \in Seq(Maintenance!Candidate) /\ Len(pass[p].page) \in Nat \ {0}
      /\ 1 \in DOMAIN pass[p].page /\ pass[p].todo \in Plans
  BY <1>1 DEF PassType, Sound, Bounded, Due
<1>3. Maintenance!Here(p) = pass[p].page[1] /\ Maintenance!Here(p) \in Maintenance!Candidate
  BY <1>2 DEF Maintenance!Here
<1>4. Maintenance!Here(p).owner \in Owners
  BY <1>3 DEF Maintenance!Candidate
<1>5. Maintenance!Known(p) => Reasoned(owner[Maintenance!Here(p).owner], pass[p].todo)
  BY <1>1, <1>3 DEF Sound, Due, Maintenance!Known
<1> QED BY <1>1, <1>2, <1>3, <1>4, <1>5

LEMMA OwnersStay ==
  ASSUME MaintenanceInv, UNCHANGED owner
  PROVE  owner' \in [Owners -> OwnerType] /\ Proven(owner')
BY DEF MaintenanceInv, MaintenanceTypes

\* Of a step of p alone.
LEMMA OwnStep ==
  ASSUME MaintenanceInv, UNCHANGED owner, NEW p \in Passes, NEW r \in PassType, Sound(r, owner),
         pass' = [pass EXCEPT ![p] = r]
  PROVE  AllSound(pass', owner')
BY Replaced DEF MaintenanceInv

LEMMA Aborts ==
  ASSUME MaintenanceInv, NEW p \in Passes, Maintenance!Abort(p), UNCHANGED owner
  PROVE  AllSound(pass', owner')
BY RestSound DEF MaintenanceInv, Maintenance!Abort

LEMMA StartKeeps ==
  ASSUME MaintenanceInv, NEW p \in Passes, Maintenance!Start(p)
  PROVE  MaintenanceInv'
<1> DEFINE r == [pass[p] EXCEPT !.pc = "list"]
<1>1. pass[p] \in PassType /\ Sound(pass[p], owner) /\ pass \in [Passes -> PassType]
  BY DEF MaintenanceInv, AllSound
<1>2. r \in PassType /\ Sound(r, owner)
  BY <1>1 DEF Maintenance!Start, PassType, Sound, Bounded, FreshRest, Due
<1>3. pass' = [pass EXCEPT ![p] = r]
  BY <1>1 DEF Maintenance!Start
<1> HIDE DEF r
<1>4. AllSound(pass', owner')
  BY <1>2, <1>3, OwnStep DEF Maintenance!Start
<1> QED BY <1>4, OwnersStay, CheckpointStays, UsedStays, MaintenanceEnds DEF Maintenance!Start

LEMMA DrainedKeeps ==
  ASSUME MaintenanceInv, NEW p \in Passes, Maintenance!Drained(p)
  PROVE  MaintenanceInv'
<1> DEFINE r == [pass[p] EXCEPT !.pc = "list"]
<1>1. pass[p] \in PassType /\ Sound(pass[p], owner) /\ pass \in [Passes -> PassType]
  BY DEF MaintenanceInv, AllSound
<1>2. r \in PassType /\ Sound(r, owner)
  BY <1>1 DEF Maintenance!Drained, PassType, Sound, Bounded, FreshRest, Due
<1>3. pass' = [pass EXCEPT ![p] = r]
  BY <1>1 DEF Maintenance!Drained
<1> HIDE DEF r
<1>4. AllSound(pass', owner')
  BY <1>2, <1>3, OwnStep DEF Maintenance!Drained
<1> QED BY <1>4, OwnersStay, CheckpointStays, UsedStays, MaintenanceEnds DEF Maintenance!Drained

LEMMA TurnKeeps ==
  ASSUME MaintenanceInv, NEW p \in Passes, Maintenance!Turn(p)
  PROVE  MaintenanceInv'
<1>1. pass[p] \in PassType /\ Sound(pass[p], owner) /\ pass \in [Passes -> PassType]
  BY DEF MaintenanceInv, AllSound
<1>2. Len(pass[p].page) = 0 /\ UNCHANGED owner
  BY DEF Maintenance!Turn
<1>3. AllSound(pass', owner')
  <2>1. CASE pass[p].more /\ pass[p].pages < MaxPages
    <3> DEFINE r == [pass[p] EXCEPT !.pc = "list"]
    <3>1. r \in PassType /\ Sound(r, owner)
      BY <1>1, <1>2, <2>1 DEF PassType, Sound, Bounded, FreshRest, Due
    <3>2. pass' = [pass EXCEPT ![p] = r]
      BY <1>1, <2>1 DEF Maintenance!Turn
    <3> HIDE DEF r
    <3> QED BY <1>2, <3>1, <3>2, OwnStep
  <2>2. CASE ~(pass[p].more /\ pass[p].pages < MaxPages) /\ pass[p].phase = "verify"
    BY <1>2, <2>2, Aborts DEF Maintenance!Turn, Maintenance!Abort
  <2>3. CASE ~(pass[p].more /\ pass[p].pages < MaxPages) /\ pass[p].phase # "verify"
    <3> DEFINE r == [Maintenance!Resting EXCEPT !.phase = "verify",
                       !.pc = IF pass[p].seeded THEN "drain" ELSE "list"]
    <3>1. /\ Maintenance!Resting \in PassType /\ Sound(Maintenance!Resting, owner)
          /\ Maintenance!Resting.pc = "idle"
      BY RestingIsSound DEF Maintenance!Resting
    <3>2. r \in PassType /\ Sound(r, owner)
      BY <3>1 DEF PassType, Sound, Bounded, FreshRest, Due
    <3>3. pass' = [pass EXCEPT ![p] = r]
      BY <2>3 DEF Maintenance!Turn
    <3> HIDE DEF r
    <3> QED BY <1>2, <3>2, <3>3, OwnStep
  <2> QED BY <2>1, <2>2, <2>3
<1> QED BY <1>3, OwnersStay, CheckpointStays, UsedStays, MaintenanceEnds DEF Maintenance!Turn

LEMMA GiveUpPassKeeps ==
  ASSUME MaintenanceInv, NEW p \in Passes, Maintenance!GiveUp(p)
  PROVE  MaintenanceInv'
<1>1. Len(pass[p].page) # 0 /\ pass[p].pc = "call" /\ AllSound(pass, owner)
  BY CallIsDue DEF Maintenance!GiveUp, MaintenanceInv
<1>2. AllSound(pass', owner')
  BY <1>1, SkipSound DEF Maintenance!GiveUp
<1> QED BY <1>2, OwnersStay, CheckpointStays, UsedStays, MaintenanceEnds DEF Maintenance!GiveUp

LEMMA LoseKeeps ==
  ASSUME MaintenanceInv, NEW p \in Passes, Maintenance!Lose(p)
  PROVE  MaintenanceInv'
<1>1. AllSound(pass', owner')
  BY Aborts DEF Maintenance!Lose
<1> QED BY <1>1, OwnersStay, CheckpointStays, UsedStays, MaintenanceEnds DEF Maintenance!Lose

\* What a page says is so when it is read.
LEMMA SnapshotIsFresh ==
  ASSUME MaintenanceInv, NEW o \in Owners
  PROVE  Maintenance!Snapshot(o) \in Maintenance!Candidate /\ Fresh(Maintenance!Snapshot(o), owner)
<1> DEFINE c == Maintenance!Snapshot(o)
<1>1. owner[o] \in OwnerType
  BY DEF MaintenanceInv, MaintenanceTypes
<1>2. /\ c.owner = o /\ c.over = Maintenance!Over(o) /\ c.build = owner[o].build
      /\ c.complete = Maintenance!Counted(o) /\ c.ready = owner[o].ready
  BY DEF Maintenance!Snapshot
<1>3. Maintenance!Over(o) \in BOOLEAN /\ Maintenance!Counted(o) \in BOOLEAN
  BY DEF Maintenance!Over, Maintenance!Counted
<1>4. c \in Maintenance!Candidate
  BY <1>1, <1>3 DEF Maintenance!Snapshot, Maintenance!Candidate, OwnerType
<1> HIDE DEF c
<1>6. ~c.ready => Unopened(owner[o])
  BY <1>2 DEF MaintenanceInv, Proven, Honest
<1>5. Fresh(c, owner)
  BY <1>2, <1>6, Reads DEF Fresh
<1> QED BY <1>4, <1>5 DEF c

LEMMA ListKeeps ==
  ASSUME MaintenanceInv, NEW p \in Passes, Maintenance!List(p)
  PROVE  MaintenanceInv'
<1> DEFINE phase == pass[p].phase
           rest == Maintenance!Rest(p, phase)
           page == Maintenance!PageOf(rest)
           owners == Maintenance!InOrder(page)
           last == IF page = {} THEN 0 ELSE owners[Len(owners)]
           outdated == [q \in Passes |-> IF pass[q].phase = phase THEN [pass[q] EXCEPT !.fresh = FALSE]
                                         ELSE pass[q]]
           f == [i \in DOMAIN owners |-> Maintenance!Snapshot(owners[i])]
<1>1. /\ pass[p] \in PassType /\ Sound(pass[p], owner) /\ pass \in [Passes -> PassType]
      /\ phase \in {"seed", "verify"}
      /\ checkpoint \in [{"seed", "verify"} -> Owners \cup {0}]
  BY DEF MaintenanceInv, AllSound, MaintenanceTypes, PassType
<1>2. CASE pass[p].pages > 0 /\ ~pass[p].fresh
  <2>1. UNCHANGED <<owner, used, checkpoint>> /\ Maintenance!Abort(p)
    BY <1>2 DEF Maintenance!List
  <2> QED BY <2>1, Aborts, OwnersStay, CheckpointStays, UsedStays, MaintenanceEnds
<1>3. CASE ~(pass[p].pages > 0 /\ ~pass[p].fresh)
  <2> DEFINE g == [outdated[p] EXCEPT !.pc = "visit", !.fresh = TRUE, !.pages = @ + 1,
                     !.more = (rest # page), !.page = f]
  <2>1. /\ UNCHANGED <<owner, used>> /\ pass[p].pc = "list"
        /\ checkpoint' = [checkpoint EXCEPT ![phase] = last]
        /\ pass' = [outdated EXCEPT ![p].pc = "visit", ![p].fresh = TRUE, ![p].pages = @ + 1,
                      ![p].more = (rest # page), ![p].page = f]
    BY <1>3 DEF Maintenance!List
  <2>3. rest \in SUBSET Owners
    <3>1. \A o \in rest : o \in Owners
      BY DEF Maintenance!Rest
    <3> QED BY <3>1
  <2> HIDE DEF rest
  <2>4. rest \in SUBSET Int /\ IsFiniteSet(rest)
    <3>1. Owners \subseteq Int /\ IsFiniteSet(Owners)
      BY MaintenanceBounds
    <3>2. rest \in SUBSET Int
      BY <2>3, <3>1
    <3>3. IsFiniteSet(rest)
      BY <2>3, <3>1, FS_Subset
    <3> QED BY <3>2, <3>3
  <2>5. page = Lowest(PageLimit, rest)
    BY MaintenanceRanks DEF Maintenance!PageOf
  <2>6. page \subseteq rest /\ IsFiniteSet(page) /\ Cardinality(page) \in 0 .. PageLimit
    BY <2>4, <2>5, LowestIsPart, MaintenanceBounds
  <2> HIDE DEF page
  <2>7. owners = InOrder(page)
    BY MaintenanceRanks
  <2>8. page \in SUBSET Int
    BY <2>4, <2>6
  <2>9. /\ owners \in [1 .. Cardinality(page) -> page] /\ owners \in Seq(page)
        /\ Len(owners) = Cardinality(page) /\ (page # {} => Cardinality(page) # 0)
    BY <2>6, <2>7, <2>8, InOrderLists
  <2> HIDE DEF owners
  <2>10. last \in Owners \cup {0}
    <3>1. CASE page = {}
      BY <3>1
    <3>2. CASE page # {}
      <4>1. Len(owners) \in 1 .. Cardinality(page)
        BY <2>6, <2>9, <3>2
      <4> QED BY <2>3, <2>6, <2>9, <3>2, <4>1
    <3> QED BY <3>1, <3>2
  <2> HIDE DEF last
  <2>11. /\ f \in [1 .. Cardinality(page) -> Maintenance!Candidate]
         /\ \A i \in 1 .. Cardinality(page) : Fresh(f[i], owner)
    <3>1. DOMAIN owners = 1 .. Cardinality(page)
      BY <2>9
    <3>2. \A i \in 1 .. Cardinality(page) : owners[i] \in Owners
      BY <2>3, <2>6, <2>9
    <3>3. \A i \in 1 .. Cardinality(page) :
            f[i] \in Maintenance!Candidate /\ Fresh(f[i], owner)
      BY <3>1, <3>2, SnapshotIsFresh
    <3> QED BY <3>1, <3>3
  <2> HIDE DEF f
  <2>12. f \in Seq(Maintenance!Candidate) /\ Len(f) = Cardinality(page)
         /\ DOMAIN f = 1 .. Cardinality(page)
    BY <2>6, <2>11
  <2>13. AllSound(outdated, owner)
    <3>1. ASSUME NEW q \in PassType, Sound(q, owner)
          PROVE  [q EXCEPT !.fresh = FALSE] \in PassType /\ Sound([q EXCEPT !.fresh = FALSE], owner)
      BY <3>1 DEF PassType, Sound, Bounded, FreshRest, Due
    <3>2. \A q \in Passes : pass[q] \in PassType /\ Sound(pass[q], owner)
      BY DEF MaintenanceInv, AllSound
    <3> QED BY <3>1, <3>2 DEF AllSound
  <2>14. /\ outdated[p] \in PassType /\ outdated[p].pages = pass[p].pages
         /\ outdated[p].seeds = pass[p].seeds
    BY <1>1 DEF PassType
  <2> HIDE DEF outdated
  <2>2. pass' = [outdated EXCEPT ![p] = g]
    BY <2>1, <2>13 DEF AllSound
  <2>15. pass[p].pages + 1 \in 0 .. MaxPages /\ pass[p].seeds < MaxSeedPages
    BY <1>1, <2>1, MaintenanceBounds DEF PassType, Sound, Bounded
  <2>16. /\ g \in PassType /\ g.pc = "visit" /\ g.page = f /\ g.seeds = pass[p].seeds
    BY <2>12, <2>14, <2>15 DEF PassType
  <2> HIDE DEF g
  <2>17. Sound(g, owner)
    BY <2>6, <2>11, <2>12, <2>15, <2>16 DEF Sound, Bounded, FreshRest, Due
  <2>18. AllSound([outdated EXCEPT ![p] = g], owner)
    BY <2>13, <2>16, <2>17, Replaced
  <2>19. AllSound(pass', owner')
    BY <2>1, <2>2, <2>18
  <2>20. checkpoint' \in [{"seed", "verify"} -> Owners \cup {0}]
    BY <1>1, <2>1, <2>10
  <2> HIDE DEF phase
  <2> QED BY <2>1, <2>19, <2>20, OwnersStay, UsedStays, MaintenanceEnds
<1> QED BY <1>2, <1>3

LEMMA VisitKeeps ==
  ASSUME MaintenanceInv, NEW p \in Passes, Maintenance!Visit(p)
  PROVE  MaintenanceInv'
<1> DEFINE c == Maintenance!Here(p)
           due0 == Maintenance!Due(c, pass[p].phase)
<1>1. /\ pass[p] \in PassType /\ Sound(pass[p], owner) /\ pass \in [Passes -> PassType]
      /\ AllSound(pass, owner)
  BY DEF MaintenanceInv, AllSound
<1>2. /\ UNCHANGED <<owner, checkpoint, used>> /\ pass[p].pc = "visit" /\ pass[p].page # <<>>
      /\ pass' = IF due0 = <<>> THEN Maintenance!Skip(p, pass)
                 ELSE [pass EXCEPT ![p].pc = "call", ![p].todo = due0]
  BY DEF Maintenance!Visit
<1>3. /\ pass[p].page \in Seq(Maintenance!Candidate) /\ Len(pass[p].page) \in Nat \ {0}
      /\ 1 \in DOMAIN pass[p].page
  BY <1>1, <1>2 DEF PassType
<1>4. c = pass[p].page[1] /\ c \in Maintenance!Candidate
  BY <1>3 DEF Maintenance!Here
<1>5. Fresh(c, owner)
  BY <1>1, <1>2, <1>3, <1>4 DEF Sound, FreshRest
<1> HIDE DEF c
<1>6. AllSound(pass', owner')
  <2>1. CASE due0 = <<>>
    BY <1>1, <1>2, <1>3, <2>1, SkipSound
  <2>2. CASE due0 # <<>>
    <3> DEFINE r == [pass[p] EXCEPT !.pc = "call", !.todo = due0]
    <3>1. due0 \in Plans
      BY <1>4, <2>2 DEF Maintenance!Due, Maintenance!Discard, Plans, Maintenance!Candidate,
                        Maintenance!Models
    <3>2. due0 \in Seq(Calls)
      BY <3>1, PlansAreCalls
    <3>3. c.token = "present" => Reasoned(owner[c.owner], due0)
      BY <1>4, <1>5, <2>2, PlanHeads
         DEF Maintenance!Due, Maintenance!Discard, Maintenance!Candidate, Maintenance!Models,
             Fresh, Reasoned
    <3> HIDE DEF due0
    <3>4. /\ r \in PassType /\ r.page = pass[p].page /\ r.todo = due0 /\ r.pc = "call"
          /\ r.seeds = pass[p].seeds /\ r.pages = pass[p].pages
      BY <1>1, <3>2 DEF PassType
    <3>5. pass' = [pass EXCEPT ![p] = r]
      BY <1>1, <1>2, <2>2
    <3> HIDE DEF r
    <3>6. Sound(r, owner)
      BY <1>1, <1>2, <1>3, <1>4, <3>1, <3>3, <3>4 DEF Sound, Bounded, FreshRest, Due
    <3> QED BY <1>2, <3>4, <3>5, <3>6, OwnStep
  <2> QED BY <2>1, <2>2
<1> QED BY <1>2, <1>6, OwnersStay, CheckpointStays, UsedStays, MaintenanceEnds

\* What becomes of an owner whose build is gone.
Bare(x) == [x EXCEPT !.build = "none", !.proven = FALSE,
                     !.note = [n \in Notes |-> IF x.note[n] = "out" THEN "out" ELSE "missing"]]

LEMMA BareType ==
  ASSUME NEW x \in OwnerType
  PROVE  /\ Bare(x) \in OwnerType /\ ~Bare(x).proven /\ Bare(x).served = x.served
         /\ Unopened(Bare(x)) /\ Honest(Bare(x))
<1> DEFINE f == [n \in Notes |-> IF x.note[n] = "out" THEN "out" ELSE "missing"]
<1>1. f \in [Notes -> IndexStates] /\ \A n \in Notes : f[n] # "covered"
  BY DEF IndexStates
<1> HIDE DEF f
<1>2. [x EXCEPT !.build = "none", !.proven = FALSE, !.note = f] \in
        {y \in OwnerType : ~y.proven /\ y.served = x.served /\ y.note = f}
  BY <1>1 DEF OwnerType, Maintenance!Models
<1>3. Bare(x) \in {y \in OwnerType : ~y.proven /\ y.served = x.served /\ y.note = f}
  BY <1>2 DEF Bare, f
<1> QED BY <1>1, <1>3 DEF Unopened, Honest

LEMMA UnbuiltIsBare ==
  ASSUME owner \in [Owners -> OwnerType], NEW o \in Owners
  PROVE  Maintenance!Unbuilt(o) = [owner EXCEPT ![o] = Bare(owner[o])]
BY DEF Maintenance!Unbuilt, Bare, OwnerType

LEMMA FailBuildKeeps ==
  ASSUME MaintenanceInv, NEW p \in Passes, NEW why \in Maintenance!Reasons,
         Maintenance!Fail(p, why)
  PROVE  MaintenanceInv'
<1> DEFINE o == Maintenance!Here(p).owner
<1>1. pass[p].pc = "call" /\ UNCHANGED <<checkpoint, used>>
  BY DEF Maintenance!Fail, Maintenance!Calling
<1>2. o \in Owners /\ pass \in [Passes -> PassType] /\ AllSound(pass, owner)
  BY <1>1, CallIsDue DEF MaintenanceInv
<1>3. CASE Maintenance!Known(p) /\ owner' = Maintenance!Unbuilt(o)
           /\ pass' = Maintenance!Done(p, Maintenance!After(o, "failed"))
  <2>1. owner \in [Owners -> OwnerType] /\ owner[o] \in OwnerType
    BY <1>2 DEF MaintenanceInv, MaintenanceTypes
  <2>2. owner' = [owner EXCEPT ![o] = Bare(owner[o])]
    BY <1>2, <1>3, <2>1, UnbuiltIsBare
  <2>3. /\ owner' \in [Owners -> OwnerType] /\ Proven(owner')
        /\ \A m \in Owners \ {o} : owner'[m] = owner[m]
    BY <1>2, <2>1, <2>2, BareType, OwnerChanges
  <2> HIDE DEF o
  <2>4. AllSound(Maintenance!After(o, "failed"), owner')
    BY <2>3, AgesSound
  <2>5. Aged(pass[p], Maintenance!After(o, "failed")[p], o)
    BY <1>2, AfterAges
  <2>6. AllSound(pass', owner')
    BY <1>1, <1>3, <2>4, <2>5, DoneSound DEF Aged
  <2> QED BY <1>1, <2>3, <2>6, CheckpointStays, UsedStays, MaintenanceEnds
<1>4. CASE pass' = Maintenance!Done(p, pass) /\ UNCHANGED owner
  <2>1. AllSound(pass', owner')
    BY <1>1, <1>2, <1>4, DoneSound
  <2> QED BY <1>1, <1>4, <2>1, OwnersStay, CheckpointStays, UsedStays, MaintenanceEnds
<1>5. CASE Maintenance!Abort(p) /\ UNCHANGED owner
  BY <1>1, <1>5, Aborts, OwnersStay, CheckpointStays, UsedStays, MaintenanceEnds
<1> QED BY <1>3, <1>4, <1>5 DEF Maintenance!Fail

LEMMA EnsureKeeps ==
  ASSUME MaintenanceInv, NEW p \in Passes, Maintenance!Ensure(p)
  PROVE  MaintenanceInv'
<1> DEFINE o == Maintenance!Here(p).owner
           R == Maintenance!Renewed(p)
<1>1. /\ pass[p].pc = "call" /\ Head(pass[p].todo) = "ensure" /\ UNCHANGED <<checkpoint, used>>
  BY DEF Maintenance!Ensure, Maintenance!Calling
<1>2. o \in Owners /\ owner \in [Owners -> OwnerType] /\ owner[o] \in OwnerType /\ Proven(owner)
  BY <1>1, CallIsDue DEF MaintenanceInv, MaintenanceTypes
<1>3. CASE owner[o].build = "none" /\ owner[o].ready
  <2> DEFINE x == [owner[o] EXCEPT !.build = "deployed"]
  <2>1. /\ owner' = [owner EXCEPT ![o].build = "deployed"]
        /\ pass' = IF Maintenance!Over(o) THEN [R EXCEPT ![p].todo = <<"fail over capacity">>]
                   ELSE Maintenance!Done(p, R)
    BY <1>3 DEF Maintenance!Ensure
  <2>2. owner' = [owner EXCEPT ![o] = x]
    BY <1>2, <2>1
  <2>3. /\ x \in OwnerType /\ x.proven = owner[o].proven /\ x.note = owner[o].note
        /\ x.ready = owner[o].ready
    BY <1>2 DEF OwnerType, Maintenance!Models
  <2> HIDE DEF x
  <2>4. Honest(x)
    BY <1>2, <2>3 DEF Proven, Honest, Whole, Unopened
  <2>5. /\ owner' \in [Owners -> OwnerType] /\ Proven(owner') /\ owner'[o] = x
        /\ \A m \in Owners \ {o} : owner'[m] = owner[m]
    BY <1>2, <2>2, <2>3, <2>4, OwnerChanges
  <2>6. /\ AllSound(R, owner') /\ R[p].pc = "call" /\ R[p].todo = pass[p].todo
        /\ R[p].page[1].owner = o
    BY <1>1, <2>5, Renews
  <2> HIDE DEF R, o
  <2>7. AllSound(pass', owner')
    <3>1. CASE Maintenance!Over(o)
      <4>1. Many(owner'[o])
        BY <1>2, <2>3, <2>5, <3>1, Reads DEF Many
      <4> QED BY <2>1, <2>6, <3>1, <4>1, OverSound
    <3>2. CASE ~Maintenance!Over(o)
      BY <2>1, <2>6, <3>2, DoneSound
    <3> QED BY <3>1, <3>2
  <2> QED BY <1>1, <2>5, <2>7, CheckpointStays, UsedStays, MaintenanceEnds
<1>4. CASE ~(owner[o].build = "none" /\ owner[o].ready)
  <2>1. Maintenance!Abort(p) /\ UNCHANGED owner
    BY <1>4 DEF Maintenance!Ensure
  <2> QED BY <1>1, <2>1, Aborts, OwnersStay, CheckpointStays, UsedStays, MaintenanceEnds
<1> QED BY <1>3, <1>4

LEMMA SeedKeeps ==
  ASSUME MaintenanceInv, NEW p \in Passes, Maintenance!Seed(p)
  PROVE  MaintenanceInv'
<1> DEFINE o == Maintenance!Here(p).owner
           last == pass[p].seeds + 1 = MaxSeedPages
<1>1. /\ pass[p].pc = "call" /\ Head(pass[p].todo) = "seed" /\ UNCHANGED <<checkpoint, used>>
  BY DEF Maintenance!Seed, Maintenance!Calling
<1>2. /\ o \in Owners /\ owner \in [Owners -> OwnerType] /\ owner[o] \in OwnerType /\ Proven(owner)
      /\ AllSound(pass, owner) /\ pass[p] \in PassType /\ Len(pass[p].page) # 0
      /\ Maintenance!Here(p) = pass[p].page[1] /\ pass \in [Passes -> PassType]
  BY <1>1, CallIsDue DEF MaintenanceInv, MaintenanceTypes
<1>3. CASE ~Maintenance!Known(p)
  <2>1. Maintenance!Abort(p) /\ UNCHANGED owner
    BY <1>3 DEF Maintenance!Seed
  <2> QED BY <1>1, <2>1, Aborts, OwnersStay, CheckpointStays, UsedStays, MaintenanceEnds
<1>4. CASE Maintenance!Known(p) /\ Maintenance!Blocked(o)
  <2>1. pass' = [pass EXCEPT ![p].todo = <<"fail blocked">>] /\ UNCHANGED owner
    BY <1>4 DEF Maintenance!Seed
  <2>2. Reasoned(owner[pass[p].page[1].owner], <<"fail blocked">>)
    BY <1>2, <1>4, PlanHeads, Reads DEF Reasoned
  <2>3. "fail blocked" \in Calls /\ <<"fail blocked">> \in Plans
    BY DEF Calls, Maintenance!Reasons, Plans
  <2>4. AllSound(pass', owner')
    BY <1>1, <1>2, <2>1, <2>2, <2>3, ReplanSound
  <2> QED BY <1>1, <2>1, <2>4, OwnersStay, CheckpointStays, UsedStays, MaintenanceEnds
<1>5. CASE Maintenance!Known(p) /\ ~Maintenance!Blocked(o)
  <2>0. PICK batch \in Maintenance!Batches(o) :
        LET seeded == IF batch = {} THEN pass ELSE Maintenance!Renewed(p) IN
        /\ owner' = [owner EXCEPT ![o].note =
             [n \in Notes |-> IF n \in batch THEN "queued" ELSE @[n]],
             ![o].proven = @ /\ batch = {}]
        /\ pass' = IF Maintenance!Over(o) THEN [seeded EXCEPT ![p].todo = <<"fail over capacity">>]
                   ELSE IF last \/ batch = Maintenance!In(o, "missing")
                   THEN Maintenance!Skip(p, [seeded EXCEPT ![p].seeded = TRUE])
                   ELSE [seeded EXCEPT ![p].seeds = @ + 1]
    BY <1>5 DEF Maintenance!Seed
  <2> DEFINE S == IF batch = {} THEN pass ELSE Maintenance!Renewed(p)
             f == [n \in Notes |-> IF n \in batch THEN "queued" ELSE owner[o].note[n]]
             none == batch = {}
             x == [owner[o] EXCEPT !.note = f, !.proven = @ /\ none]
  <2>1. pass' = IF Maintenance!Over(o) THEN [S EXCEPT ![p].todo = <<"fail over capacity">>]
               ELSE IF last \/ batch = Maintenance!In(o, "missing")
               THEN Maintenance!Skip(p, [S EXCEPT ![p].seeded = TRUE])
               ELSE [S EXCEPT ![p].seeds = @ + 1]
    BY <2>0
  <2>2. owner' = [owner EXCEPT ![o] = x]
    BY <1>2, <2>0 DEF OwnerType
  <2>3. /\ f \in [Notes -> IndexStates] /\ (none => f = owner[o].note)
        /\ {n \in Notes : f[n] # "out"} = {n \in Notes : owner[o].note[n] # "out"}
        /\ \A n \in Notes : f[n] = "covered" => owner[o].note[n] = "covered"
    <3>1. \A n \in batch : owner[o].note[n] = "missing"
      BY DEF Maintenance!Batches, Maintenance!In
    <3> QED BY <1>2, <3>1 DEF OwnerType, IndexStates
  <2> HIDE DEF f
  <2>4. none \in BOOLEAN
    OBVIOUS
  <2> HIDE DEF none
  <2>5. /\ x \in OwnerType /\ x.proven = (owner[o].proven /\ none) /\ x.note = f
        /\ x.build = owner[o].build /\ x.ready = owner[o].ready
    BY <1>2, <2>3, <2>4 DEF OwnerType
  <2> HIDE DEF x
  <2>6. Honest(x)
    <3>1. x.proven => Whole(x)
      BY <1>2, <2>3, <2>5 DEF Proven, Honest, Whole
    <3>2. Unopened(owner[o]) => Unopened(x)
      BY <2>3, <2>5 DEF Unopened
    <3> QED BY <1>2, <2>5, <3>1, <3>2 DEF Proven, Honest
  <2>7. /\ owner' \in [Owners -> OwnerType] /\ Proven(owner') /\ owner'[o] = x
        /\ \A m \in Owners \ {o} : owner'[m] = owner[m]
    BY <1>2, <2>2, <2>5, <2>6, OwnerChanges
  <2>8. /\ AllSound(S, owner') /\ S[p].pc = "call" /\ S[p].todo = pass[p].todo
        /\ S[p].seeds = pass[p].seeds /\ Len(S[p].page) # 0 /\ S[p].page[1].owner = o
    <3>1. CASE none
      <4>1. S = pass
        BY <3>1 DEF none
      <4>2. Stays(owner[o], x)
        BY <2>3, <2>5, <3>1 DEF Stays, Many, Tallied, Stuck, Missed, Whole, Unopened
      <4>3. AllSound(pass, owner')
        BY <2>7, <4>2, StaysPut, PassesStay
      <4> HIDE DEF S
      <4> QED BY <1>1, <1>2, <4>1, <4>3
    <3>2. CASE ~none
      <4>1. S = Maintenance!Renewed(p)
        BY <3>2 DEF none
      <4> HIDE DEF S
      <4> QED BY <1>1, <2>7, <4>1, Renews
    <3> QED BY <3>1, <3>2
  <2> HIDE DEF S, o
  <2>9. S \in [Passes -> PassType] /\ S[p] \in PassType /\ Sound(S[p], owner')
    BY <2>8 DEF AllSound
  <2>10. AllSound(pass', owner')
    <3>1. CASE Maintenance!Over(o)
      <4>1. Many(owner'[o])
        BY <1>2, <2>3, <2>5, <2>7, <3>1, Reads DEF Many
      <4> QED BY <2>1, <2>8, <3>1, <4>1, OverSound
    <3>2. CASE ~Maintenance!Over(o) /\ (last \/ batch = Maintenance!In(o, "missing"))
      <4> DEFINE r == [S[p] EXCEPT !.seeded = TRUE]
                 T == [S EXCEPT ![p].seeded = TRUE]
      <4>1. /\ r \in PassType /\ Sound(r, owner') /\ r.pc = "call" /\ r.page = S[p].page
        BY <2>8, <2>9 DEF PassType, Sound, Bounded, FreshRest, Due
      <4>2. T = [S EXCEPT ![p] = r] /\ T[p] = r
        BY <2>9
      <4> HIDE DEF r, T
      <4>3. AllSound([S EXCEPT ![p] = r], owner')
        BY <2>8, <4>1, Replaced
      <4>4. AllSound(T, owner') /\ T[p].pc = "call" /\ Len(T[p].page) # 0
        BY <2>8, <4>1, <4>2, <4>3
      <4>5. pass' = Maintenance!Skip(p, T)
        BY <2>1, <3>2 DEF T
      <4> QED BY <4>4, <4>5, SkipSound
    <3>3. CASE ~Maintenance!Over(o) /\ ~(last \/ batch = Maintenance!In(o, "missing"))
      <4> DEFINE k == S[p].seeds + 1
                 r == [S[p] EXCEPT !.seeds = k]
      <4>1. k \in Nat /\ k < MaxSeedPages
        BY <2>8, <2>9, <3>3, MaintenanceBounds DEF PassType, Sound, Bounded
      <4>2. [S EXCEPT ![p].seeds = @ + 1] = [S EXCEPT ![p] = r]
        BY <2>9
      <4> HIDE DEF k
      <4>3. /\ r \in PassType /\ r.seeds < MaxSeedPages /\ r.page = S[p].page /\ r.pc = S[p].pc
            /\ r.pages = S[p].pages /\ r.todo = S[p].todo
        BY <2>9, <4>1 DEF PassType
      <4> HIDE DEF r
      <4>4. Sound(r, owner')
        BY <2>9, <4>3 DEF Sound, Bounded, FreshRest, Due
      <4>5. AllSound([S EXCEPT ![p] = r], owner')
        BY <2>8, <4>3, <4>4, Replaced
      <4> QED BY <2>1, <3>3, <4>2, <4>5
    <3> QED BY <3>1, <3>2, <3>3
  <2> QED BY <1>1, <2>7, <2>10, CheckpointStays, UsedStays, MaintenanceEnds
<1> QED BY <1>3, <1>4, <1>5

LEMMA VerifyIndexKeeps ==
  ASSUME MaintenanceInv, NEW p \in Passes, Maintenance!Verify(p)
  PROVE  MaintenanceInv'
<1> DEFINE o == Maintenance!Here(p).owner
<1>1. /\ pass[p].pc = "call" /\ Head(pass[p].todo) = "verify" /\ UNCHANGED checkpoint
  BY DEF Maintenance!Verify, Maintenance!Calling
<1>2. /\ o \in Owners /\ owner \in [Owners -> OwnerType] /\ owner[o] \in OwnerType
      /\ AllSound(pass, owner) /\ pass[p] \in PassType /\ Len(pass[p].page) # 0
      /\ Honest(owner[o])
      /\ Maintenance!Here(p) = pass[p].page[1]
      /\ Maintenance!Known(p) => Reasoned(owner[o], pass[p].todo)
  BY <1>1, CallIsDue DEF MaintenanceInv, MaintenanceTypes, Proven
<1>3. CASE /\ Maintenance!Known(p) /\ Maintenance!Complete(o)
           /\ owner' = [owner EXCEPT ![o].proven = TRUE]
           /\ pass' = Maintenance!Done(p, pass) /\ UNCHANGED used
  <2> DEFINE x == [owner[o] EXCEPT !.proven = TRUE]
  <2>1. owner' = [owner EXCEPT ![o] = x]
    BY <1>2, <1>3
  <2>2. /\ x \in OwnerType /\ x.note = owner[o].note /\ x.build = owner[o].build
        /\ x.ready = owner[o].ready
    BY <1>2 DEF OwnerType
  <2> HIDE DEF x
  <2>3. Honest(x) /\ Stays(owner[o], x)
    <3>1. Whole(owner[o])
      BY <1>2, <1>3, Reads
    <3>2. Whole(x) /\ (Unopened(owner[o]) => Unopened(x))
      BY <2>2, <3>1 DEF Whole, Unopened
    <3>3. Stays(owner[o], x)
      BY <2>2, <3>2 DEF Stays, Many, Tallied, Stuck, Missed
    <3> QED BY <1>2, <2>2, <3>2, <3>3 DEF Honest
  <2>4. /\ owner' \in [Owners -> OwnerType] /\ Proven(owner') /\ owner'[o] = x
        /\ \A m \in Owners \ {o} : owner'[m] = owner[m]
    BY <1>2, <2>1, <2>2, <2>3, OwnerChanges
  <2>5. AllSound(pass, owner')
    BY <2>3, <2>4, StaysPut, PassesStay
  <2>6. AllSound(pass', owner')
    BY <1>1, <1>3, <2>5, DoneSound
  <2> QED BY <1>1, <1>3, <2>4, <2>6, CheckpointStays, UsedStays, MaintenanceEnds
<1>4. CASE pass' = Maintenance!Skip(p, pass) /\ UNCHANGED <<owner, used>>
  <2>1. AllSound(pass', owner')
    BY <1>1, <1>2, <1>4, SkipSound
  <2> QED BY <1>1, <1>4, <2>1, OwnersStay, CheckpointStays, UsedStays, MaintenanceEnds
<1>5. CASE /\ Maintenance!Known(p)
           /\ IF Maintenance!Complete(o) THEN Maintenance!Faulty ELSE UNCHANGED used
           /\ pass' = [pass EXCEPT ![p].todo =
                IF Maintenance!Complete(o) THEN <<"fail corrupt">> ELSE <<"fail incomplete">>]
           /\ UNCHANGED owner
  <2>1. Tallied(owner[o]) /\ (Maintenance!Complete(o) <=> Whole(owner[o]))
    BY <1>1, <1>2, <1>5, Reads DEF Reasoned
  <2>2. AllSound(pass', owner')
    <3>1. CASE Maintenance!Complete(o)
      <4>1. "fail corrupt" \in Calls /\ <<"fail corrupt">> \in Plans
        BY DEF Calls, Maintenance!Reasons, Plans
      <4>2. Reasoned(owner[pass[p].page[1].owner], <<"fail corrupt">>)
        BY <1>2, <2>1, <3>1, PlanHeads DEF Reasoned
      <4> QED BY <1>1, <1>2, <1>5, <3>1, <4>1, <4>2, ReplanSound
    <3>2. CASE ~Maintenance!Complete(o)
      <4>1. "fail incomplete" \in Calls /\ <<"fail incomplete">> \in Plans
        BY DEF Calls, Maintenance!Reasons, Plans
      <4>2. Missed(owner[o])
        BY <2>1, <3>2 DEF Missed, Whole, Tallied
      <4>3. Reasoned(owner[pass[p].page[1].owner], <<"fail incomplete">>)
        BY <1>2, <2>1, <4>2, PlanHeads DEF Reasoned
      <4> QED BY <1>1, <1>2, <1>5, <3>2, <4>1, <4>3, ReplanSound
    <3> QED BY <3>1, <3>2
  <2> QED BY <1>1, <1>5, <2>2, OwnersStay, CheckpointStays, UsedStays, MaintenanceEnds
<1> QED BY <1>3, <1>4, <1>5 DEF Maintenance!Verify

LEMMA ActivateKeeps ==
  ASSUME MaintenanceInv, NEW p \in Passes, Maintenance!Activate(p)
  PROVE  MaintenanceInv'
<1> DEFINE o == Maintenance!Here(p).owner
<1>1. pass[p].pc = "call" /\ UNCHANGED <<checkpoint, used>>
  BY DEF Maintenance!Activate, Maintenance!Calling
<1>2. /\ o \in Owners /\ owner \in [Owners -> OwnerType] /\ owner[o] \in OwnerType
      /\ pass \in [Passes -> PassType] /\ AllSound(pass, owner)
  BY <1>1, CallIsDue DEF MaintenanceInv, MaintenanceTypes
<1>3. CASE Maintenance!Known(p) /\ owner[o].proven
  <2> DEFINE x == [Bare(owner[o]) EXCEPT !.served = owner[o].build]
  <2>1. /\ owner' = [Maintenance!Unbuilt(o) EXCEPT ![o].served = owner[o].build]
        /\ pass' = Maintenance!Done(p, Maintenance!After(o, "activated"))
    BY <1>3 DEF Maintenance!Activate
  <2>2. Bare(owner[o]) \in OwnerType /\ ~Bare(owner[o]).proven /\ Unopened(Bare(owner[o]))
    BY <1>2, BareType
  <2>3. owner' = [owner EXCEPT ![o] = x]
    BY <1>2, <2>1, UnbuiltIsBare
  <2>4. x \in OwnerType /\ Honest(x)
    <3>1. x \in OwnerType /\ ~x.proven /\ x.note = Bare(owner[o]).note
      BY <1>2, <2>2 DEF OwnerType
    <3>2. Unopened(x)
      BY <2>2, <3>1 DEF Unopened
    <3> QED BY <3>1, <3>2 DEF Honest
  <2> HIDE DEF x, o
  <2>5. /\ owner' \in [Owners -> OwnerType] /\ Proven(owner')
        /\ \A m \in Owners \ {o} : owner'[m] = owner[m]
    BY <1>2, <2>3, <2>4, OwnerChanges
  <2>6. AllSound(Maintenance!After(o, "activated"), owner')
    BY <2>5, AgesSound
  <2>7. Aged(pass[p], Maintenance!After(o, "activated")[p], o)
    BY <1>2, AfterAges
  <2>8. AllSound(pass', owner')
    BY <1>1, <2>1, <2>6, <2>7, DoneSound DEF Aged
  <2> QED BY <1>1, <2>5, <2>8, CheckpointStays, UsedStays, MaintenanceEnds
<1>4. CASE ~(Maintenance!Known(p) /\ owner[o].proven)
  <2>1. (pass' = Maintenance!Done(p, pass) \/ Maintenance!Abort(p)) /\ UNCHANGED owner
    BY <1>4 DEF Maintenance!Activate
  <2>2. AllSound(pass', owner')
    BY <1>1, <1>2, <2>1, DoneSound, Aborts
  <2> QED BY <1>1, <2>1, <2>2, OwnersStay, CheckpointStays, UsedStays, MaintenanceEnds
<1> QED BY <1>3, <1>4

LEMMA MaintenanceStepKeeps ==
  ASSUME MaintenanceInv, Maintenance!Next
  PROVE  MaintenanceInv'
BY WriteKeeps, RevokeKeyKeeps, AddKeyKeeps, IndexKeeps, FailJobKeeps, StartKeeps, ListKeeps,
   VisitKeeps, EnsureKeeps, SeedKeeps, VerifyIndexKeeps, ActivateKeeps, FailBuildKeeps, TurnKeeps,
   DrainedKeeps, GiveUpPassKeeps, LoseKeeps
   DEF Maintenance!Next, Maintenance!Environment, Maintenance!Step

LEMMA MaintenanceStutterKeeps ==
  ASSUME MaintenanceInv, UNCHANGED indexVars
  PROVE  MaintenanceInv'
BY DEF MaintenanceInv, MaintenanceTypes, indexVars

-----------------------------------------------------------------------------
(* What follows.                                                           *)

\* Most steps leave the generations of the owners, or begin one.
Untouched == \A o \in Owners :
               /\ owner'[o].served = owner[o].served
               /\ owner'[o].build = owner[o].build \/ owner'[o].build = "deployed"

LEMMA UntouchedIsJudged ==
  ASSUME Untouched PROVE Maintenance!FailedStep /\ Maintenance!ActivatedStep
<1>1. Maintenance!FailedStep
  BY DEF Untouched, Maintenance!FailedStep
<1>2. Maintenance!ActivatedStep
  BY DEF Untouched, Maintenance!ActivatedStep
<1> QED BY <1>1, <1>2

LEMMA OthersStay ==
  ASSUME MaintenanceInv, UNCHANGED owner
  PROVE  Untouched
BY DEF Untouched

LEMMA EnvironmentTouchesNone ==
  ASSUME MaintenanceInv, Maintenance!Environment
  PROVE  Untouched
<1>1. owner \in [Owners -> OwnerType]
  BY DEF MaintenanceInv, MaintenanceTypes
<1>2. ASSUME NEW o \in Owners, NEW n \in Notes, NEW eligible \in BOOLEAN,
             Maintenance!Write(o, n, eligible)
      PROVE  Untouched
  BY <1>1, <1>2 DEF Maintenance!Write, Untouched, OwnerType
<1>3. ASSUME NEW o \in Owners, Maintenance!RevokeKey(o) PROVE Untouched
  BY <1>1, <1>3 DEF Maintenance!RevokeKey, Untouched, OwnerType
<1>4. ASSUME NEW o \in Owners, Maintenance!AddKey(o) PROVE Untouched
  BY <1>1, <1>4 DEF Maintenance!AddKey, Untouched, OwnerType
<1>5. ASSUME NEW o \in Owners, NEW n \in Notes, Maintenance!Index(o, n) PROVE Untouched
  BY <1>1, <1>5 DEF Maintenance!Index, Untouched, OwnerType
<1>6. ASSUME NEW o \in Owners, NEW n \in Notes, Maintenance!FailJob(o, n) PROVE Untouched
  BY <1>1, <1>6 DEF Maintenance!FailJob, Untouched, OwnerType
<1> QED BY <1>2, <1>3, <1>4, <1>5, <1>6 DEF Maintenance!Environment

LEMMA BuildingTouchesNone ==
  ASSUME MaintenanceInv, NEW p \in Passes,
         Maintenance!Ensure(p) \/ Maintenance!Seed(p) \/ Maintenance!Verify(p)
  PROVE  Untouched
<1> DEFINE o == Maintenance!Here(p).owner
<1>1. owner \in [Owners -> OwnerType]
  BY DEF MaintenanceInv, MaintenanceTypes
<1>2. CASE Maintenance!Ensure(p)
  <2>1. owner' = [owner EXCEPT ![o].build = "deployed"] \/ UNCHANGED owner
    BY <1>2 DEF Maintenance!Ensure
  <2> QED BY <1>1, <2>1 DEF Untouched, OwnerType
<1>3. CASE Maintenance!Seed(p)
  <2>1. UNCHANGED owner \/ \E batch :
          owner' = [owner EXCEPT ![o].note =
                      [n \in Notes |-> IF n \in batch THEN "queued" ELSE @[n]],
                      ![o].proven = @ /\ batch = {}]
    BY <1>3, Zenon DEF Maintenance!Seed
  <2> HIDE DEF o
  <2> QED BY <1>1, <2>1 DEF Untouched, OwnerType
<1>4. CASE Maintenance!Verify(p)
  <2>1. owner' = [owner EXCEPT ![o].proven = TRUE] \/ UNCHANGED owner
    BY <1>4 DEF Maintenance!Verify
  <2> QED BY <1>1, <2>1 DEF Untouched, OwnerType
<1> QED BY <1>2, <1>3, <1>4

\* A call that is carried out is not due any more.
LEMMA DoneIsDue ==
  ASSUME MaintenanceInv, NEW p \in Passes, pass[p].pc = "call", NEW o,
         NEW how \in {"failed", "activated"}, pass' = Maintenance!Done(p, Maintenance!After(o, how))
  PROVE  pass'[p].todo # pass[p].todo
<1> DEFINE A == Maintenance!After(o, how)
<1>1. pass \in [Passes -> PassType] /\ pass[p].todo \in Plans
  BY CallIsDue
<1>2. A \in [Passes -> PassType] /\ A[p].todo = pass[p].todo
  BY <1>1, AfterAges DEF Aged
<1> HIDE DEF A
<1>3. pass[p].todo \in Seq(Calls) /\ Len(pass[p].todo) \in Nat \ {0}
  <2>1. \A a, b, c : Len(<<a>>) = 1 /\ Len(<<a, b>>) = 2 /\ Len(<<a, b, c>>) = 3
    BY Tuples
  <2>2. Len(pass[p].todo) \in {1, 2, 3}
    BY <1>1, <2>1 DEF Plans
  <2>3. pass[p].todo \in Seq(Calls)
    BY <1>1, PlansAreCalls, Zenon
  <2>4. Len(pass[p].todo) \in Nat \ {0}
    <3> DEFINE k == Len(pass[p].todo)
    <3>1. k \in {1, 2, 3}
      BY <2>2
    <3> HIDE DEF k
    <3>2. k \in Nat \ {0}
      BY <3>1
    <3> QED BY <3>2 DEF k
  <2> QED BY <2>3, <2>4, Zenon
<1>4. CASE Len(pass[p].todo) = 1
  <2>1. pass' = Maintenance!Skip(p, A)
    BY <1>4 DEF Maintenance!Done, A
  <2>2. pass'[p].todo = <<>>
    BY <1>2, <2>1 DEF Maintenance!Skip, PassType
  <2> QED BY <1>3, <2>2
<1>5. CASE Len(pass[p].todo) # 1
  <2>1. pass' = [A EXCEPT ![p].todo = Tail(@)]
    BY <1>5 DEF Maintenance!Done, A
  <2>2. pass'[p].todo = Tail(pass[p].todo)
    BY <1>2, <2>1 DEF PassType
  <2>3. Len(Tail(pass[p].todo)) = Len(pass[p].todo) - 1
    BY <1>3
  <2>4. Tail(pass[p].todo) # pass[p].todo
    <3> DEFINE t == pass[p].todo
    <3>1. Len(Tail(t)) # Len(t)
      BY <1>3, <2>3
    <3> HIDE DEF t
    <3>2. Tail(t) # t
      BY <3>1
    <3> QED BY <3>2 DEF t
  <2> QED BY <2>2, <2>4, Zenon
<1> QED BY <1>4, <1>5

LEMMA MaintenanceJudges ==
  ASSUME MaintenanceInv, Maintenance!Next
  PROVE  Maintenance!FailedStep /\ Maintenance!ActivatedStep
<1>1. owner \in [Owners -> OwnerType] /\ Proven(owner)
  BY DEF MaintenanceInv, MaintenanceTypes
<1>2. CASE Maintenance!Environment
  BY <1>2, EnvironmentTouchesNone, UntouchedIsJudged
<1>3. ASSUME NEW p \in Passes, NEW why \in Maintenance!Reasons, Maintenance!Fail(p, why)
      PROVE  Maintenance!FailedStep /\ Maintenance!ActivatedStep
  <2> DEFINE o == Maintenance!Here(p).owner
  <2>1. /\ pass[p].pc = "call" /\ Head(pass[p].todo) = why
        /\ \/ UNCHANGED owner
           \/ /\ Maintenance!Known(p) /\ owner' = Maintenance!Unbuilt(o)
              /\ pass' = Maintenance!Done(p, Maintenance!After(o, "failed"))
    BY <1>3 DEF Maintenance!Fail, Maintenance!Calling
  <2>2. CASE UNCHANGED owner
    BY <2>2, OthersStay, UntouchedIsJudged
  <2>3. CASE /\ Maintenance!Known(p) /\ owner' = Maintenance!Unbuilt(o)
             /\ pass' = Maintenance!Done(p, Maintenance!After(o, "failed"))
    <3>1. o \in Owners /\ Reasoned(owner[o], pass[p].todo)
      BY <2>1, <2>3, CallIsDue
    <3>2. owner' = [owner EXCEPT ![o] = Bare(owner[o])]
      BY <1>1, <2>3, <3>1, UnbuiltIsBare
    <3>3. Bare(owner[o]).served = owner[o].served
      BY <1>1, <3>1, BareType
    <3>4. \A m \in Owners : owner'[m].served = owner[m].served
      BY <1>1, <3>1, <3>2, <3>3
    <3>5. \A m \in Owners : m # o => owner'[m] = owner[m]
      BY <1>1, <3>1, <3>2
    <3>6. Maintenance!Justified(why, o)
      <4>1. why # "activate"
        BY DEF Maintenance!Reasons
      <4> QED BY <2>1, <3>1, <4>1, Reads DEF Maintenance!Justified, Reasoned
    <3>9. pass'[p].todo # pass[p].todo
      BY <2>1, <2>3, DoneIsDue
    <3>7. Maintenance!ActivatedStep
      BY <3>4 DEF Maintenance!ActivatedStep
    <3>8. Maintenance!FailedStep
      BY <2>1, <3>5, <3>6, <3>9 DEF Maintenance!FailedStep
    <3> QED BY <3>7, <3>8
  <2> QED BY <2>1, <2>2, <2>3
<1>4. ASSUME NEW p \in Passes, Maintenance!Activate(p)
      PROVE  Maintenance!FailedStep /\ Maintenance!ActivatedStep
  <2> DEFINE o == Maintenance!Here(p).owner
  <2>1. /\ pass[p].pc = "call" /\ Head(pass[p].todo) = "activate"
        /\ \/ UNCHANGED owner
           \/ /\ Maintenance!Known(p) /\ owner[o].proven
              /\ owner' = [Maintenance!Unbuilt(o) EXCEPT ![o].served = owner[o].build]
              /\ pass' = Maintenance!Done(p, Maintenance!After(o, "activated"))
    BY <1>4 DEF Maintenance!Activate, Maintenance!Calling
  <2>2. CASE UNCHANGED owner
    BY <2>2, OthersStay, UntouchedIsJudged
  <2>3. CASE /\ Maintenance!Known(p) /\ owner[o].proven
             /\ owner' = [Maintenance!Unbuilt(o) EXCEPT ![o].served = owner[o].build]
             /\ pass' = Maintenance!Done(p, Maintenance!After(o, "activated"))
    <3>1. o \in Owners /\ Reasoned(owner[o], pass[p].todo)
      BY <2>1, <2>3, CallIsDue
    <3>2. owner' = [owner EXCEPT ![o] = [Bare(owner[o]) EXCEPT !.served = owner[o].build]]
      BY <1>1, <2>3, <3>1, UnbuiltIsBare
    <3>3. owner[o].build = "deployed"
      BY <2>1, <3>1 DEF Reasoned
    <3>4. Maintenance!Complete(o)
      BY <1>1, <2>3, <3>1, Reads DEF Proven, Honest
    <3>5. Bare(owner[o]) \in OwnerType
      BY <1>1, <3>1, BareType
    <3>6. /\ \A m \in Owners : m # o => owner'[m] = owner[m]
          /\ owner'[o] = [Bare(owner[o]) EXCEPT !.served = owner[o].build]
      BY <1>1, <3>1, <3>2
    <3>7. owner'[o].served = "deployed"
      BY <3>3, <3>5, <3>6 DEF OwnerType
    <3>8. Maintenance!Justified("activate", o)
      BY <3>3, <3>4 DEF Maintenance!Justified
    <3>11. pass'[p].todo # pass[p].todo
      BY <2>1, <2>3, DoneIsDue
    <3>9. Maintenance!ActivatedStep
      BY <3>4, <3>6, <3>7 DEF Maintenance!ActivatedStep
    <3>10. Maintenance!FailedStep
      BY <2>1, <3>6, <3>8, <3>11 DEF Maintenance!FailedStep
    <3> QED BY <3>9, <3>10
  <2> QED BY <2>1, <2>2, <2>3
<1>5. ASSUME NEW p \in Passes,
             Maintenance!Ensure(p) \/ Maintenance!Seed(p) \/ Maintenance!Verify(p)
      PROVE  Maintenance!FailedStep /\ Maintenance!ActivatedStep
  BY <1>5, BuildingTouchesNone, UntouchedIsJudged
<1>6. ASSUME NEW p \in Passes,
             \/ Maintenance!Start(p) \/ Maintenance!List(p) \/ Maintenance!Visit(p)
             \/ Maintenance!Turn(p) \/ Maintenance!Drained(p)
             \/ Maintenance!GiveUp(p) \/ Maintenance!Lose(p)
      PROVE  Maintenance!FailedStep /\ Maintenance!ActivatedStep
  <2>1. UNCHANGED owner
    BY <1>6 DEF Maintenance!Start, Maintenance!List, Maintenance!Visit, Maintenance!Turn,
                Maintenance!Drained, Maintenance!GiveUp, Maintenance!Lose
  <2> QED BY <2>1, OthersStay, UntouchedIsJudged
<1> QED BY <1>2, <1>3, <1>4, <1>5, <1>6 DEF Maintenance!Next, Maintenance!Step

LEMMA MaintenanceInvSuffices ==
  ASSUME MaintenanceInv PROVE Maintenance!TypeOK
<1>1. owner \in [Owners -> [ready : BOOLEAN, served : Maintenance!Models, build : Maintenance!Models,
        proven : BOOLEAN,
        note : [Notes -> {"out", "missing", "queued", "failed", "covered", "lost"}]]]
  BY DEF MaintenanceInv, MaintenanceTypes, OwnerType, IndexStates
<1>2. checkpoint \in [{"seed", "verify"} -> Owners \cup {0}]
      /\ used \in [writes : 0 .. MaxWrites, faults : 0 .. MaxFaults]
  BY DEF MaintenanceInv, MaintenanceTypes
<1>3. ASSUME NEW p \in Passes
      PROVE  /\ pass[p].pc \in {"idle", "list", "visit", "call", "drain"}
             /\ pass[p].phase \in {"seed", "verify"}
             /\ Len(pass[p].page) <= PageLimit
             /\ \A i \in DOMAIN pass[p].page : pass[p].page[i] \in Maintenance!Candidate
             /\ pass[p].pages \in 0 .. MaxPages /\ pass[p].seeds \in 0 .. MaxSeedPages
             /\ {pass[p].more, pass[p].fresh, pass[p].seeded} \subseteq BOOLEAN
             /\ \A i \in DOMAIN pass[p].todo :
                  pass[p].todo[i] \in Maintenance!Reasons \cup {"ensure", "seed", "verify", "activate"}
  <2>1. pass[p] \in PassType /\ Bounded(pass[p])
    BY DEF MaintenanceInv, AllSound, Sound
  <2>2. \A i \in DOMAIN pass[p].page : pass[p].page[i] \in Maintenance!Candidate
    BY <2>1 DEF PassType
  <2>3. \A i \in DOMAIN pass[p].todo : pass[p].todo[i] \in Calls
    BY <2>1 DEF PassType
  <2>4. pass[p].seeds \in 0 .. MaxSeedPages /\ Len(pass[p].page) <= PageLimit
    BY <2>1, MaintenanceBounds DEF PassType, Bounded
  <2> QED BY <2>1, <2>2, <2>3, <2>4 DEF PassType, Calls
<1> QED BY <1>1, <1>2, <1>3 DEF Maintenance!TypeOK

-----------------------------------------------------------------------------
(* The retention of deleted notes.                                         *)

CaptureType ==
  [job : {"active", "done"}, gone : BOOLEAN, out : {"none", "review", "inbox", "routed"},
   dest : Trashable \cup {None}, targets : SUBSET Trashable, removed : SUBSET Trashable,
   ties : SUBSET Trashable, asked : SUBSET Trashable, rrev : Nat]

\* What a receipt names is tied to its capture, and only a routed one names any.
Tied(x) ==
  /\ x.removed \subseteq x.targets /\ x.targets \subseteq x.ties
  /\ x.dest \in x.ties \cup {None}
  /\ x.out # "routed" => x.targets = {} /\ x.dest = None
Rows == {x \in CaptureType : Tied(x)}

\* Nothing that is tied to a capture, or that its review asks about, is gone.
Apart(x, gone) == (x.ties \cup x.asked) \cap gone = {}

SnapshotType ==
  [note : Trashable, rev : Nat, capture : UNION {[D -> Rows] : D \in SUBSET Captures}]
StillPlan == [mode : {"inbox", "preserve", "refuse"}]
RoutedPlan == [mode : {"routed"}, primary : Trashable, at : Nat]
PlanType == StillPlan \cup RoutedPlan
RunType ==
  [pc : {"idle", "claimed", "prepared"}, queue : Seq(SnapshotType),
   plan : {<<>>} \cup UNION {[D -> PlanType] : D \in SUBSET Captures}]
LeaseType == {None} \cup [by : Runs \cup {Orphan}, over : BOOLEAN]

\* The plan for a receipt is one for the capture as the claim has it.
Fits(q, x, n) ==
  \/ q.mode = "inbox" /\ x.targets \ {n} = {}
  \/ q.mode = "routed" /\ n \in x.targets /\ q.primary \in x.targets \ {n}
  \/ q.mode = "preserve" /\ n \notin x.targets
Planned(x) ==
  x.pc = "prepared" =>
    /\ DOMAIN x.plan = Retention!Receipts(Head(x.queue))
    /\ \A c \in DOMAIN x.plan :
         Fits(x.plan[c], Head(x.queue).capture[c], Head(x.queue).note)
RunSound(x) == x \in RunType /\ (x.pc = "idle") = (x.queue = <<>>) /\ Planned(x)

RetentionTypes ==
  /\ trash \in Seq(Trashable) /\ due \in 0 .. Len(trash) /\ purged \subseteq Trashable
  /\ rev \in [Trashable -> Nat] /\ lease \in [Trashable -> LeaseType]
CapturesSound(X, gone) == X \in [Captures -> Rows] /\ \A c \in Captures : Apart(X[c], gone)
RunsSound(X) == X \in [Runs -> RunType] /\ \A r \in Runs : RunSound(X[r])
\* No capture names a note that is gone, and no run is to rewrite one to do so.
RetentionInv == RetentionTypes /\ CapturesSound(capture, purged) /\ RunsSound(run)

LEMMA RetentionBounds ==
  /\ Batch \in Nat \ {0} /\ Window \in Nat \ {0} /\ None \notin Trashable /\ None \notin Runs
  /\ Orphan \notin Runs /\ None # Orphan
BY ServerAssumption DEF Retention!RetentionAssumption

LEMMA RetentionSets ==
  ASSUME NEW S
  PROVE  Retention!Cardinality(S) = Cardinality(S)
BY DEF Retention!Cardinality, Cardinality

LEMMA RetentionRanks ==
  ASSUME NEW S, NEW k
  PROVE  Retention!Lowest(k, S) = Lowest(k, S) /\ Retention!InOrder(S) = InOrder(S)
<1>1. \A x : Retention!Rank(x, S) = Rank(x, S)
  BY RetentionSets DEF Retention!Rank, Rank
<1>2. Retention!Lowest(k, S) = Lowest(k, S)
  BY <1>1 DEF Retention!Lowest, Lowest
<1>3. Retention!Cardinality(S) = Cardinality(S)
  BY RetentionSets
<1>4. Retention!InOrder(S) = InOrder(S)
  <2>1. ASSUME NEW i
        PROVE  (CHOOSE x \in S : Retention!Rank(x, S) = i) = (CHOOSE x \in S : Rank(x, S) = i)
    BY <1>1
  <2> QED BY <1>3, <2>1 DEF Retention!InOrder, InOrder
<1> QED BY <1>2, <1>4

LEMMA RunRests ==
  RunSound([pc |-> "idle", queue |-> <<>>, plan |-> <<>>])
<1>1. <<>> \in Seq(SnapshotType)
  OBVIOUS
<1> QED BY <1>1 DEF RunSound, RunType, Planned

LEMMA RetentionBegins ==
  ASSUME Retention!Init PROVE RetentionInv
<1>1. RetentionTypes
  BY DEF Retention!Init, RetentionTypes, LeaseType
<1>2. RunsSound(run)
  <2>1. run = [r \in Runs |-> [pc |-> "idle", queue |-> <<>>, plan |-> <<>>]]
    BY DEF Retention!Init
  <2> QED BY <2>1, RunRests DEF RunsSound, RunSound
<1>3. CapturesSound(capture, purged)
  <2>1. PICK directed \in [Captures -> {{}} \cup {{n} : n \in Trashable}] :
          capture = [c \in Captures |-> Retention!Fresh(directed[c])]
    BY DEF Retention!Init
  <2>2. \A c \in Captures : directed[c] \in SUBSET Trashable
    OBVIOUS
  <2>3. ASSUME NEW ties \in SUBSET Trashable
        PROVE  Retention!Fresh(ties) \in Rows
    BY DEF Retention!Fresh, Rows, CaptureType, Tied
  <2>4. purged = {}
    BY DEF Retention!Init
  <2> QED BY <2>1, <2>2, <2>3, <2>4 DEF CapturesSound, Apart
<1> QED BY <1>1, <1>2, <1>3 DEF RetentionInv

\* What a capture is made into.
Filed(x, out, d, targets, removed) ==
  [x EXCEPT !.job = "done", !.out = out, !.dest = d, !.targets = targets, !.removed = removed]

LEMMA FiledRow ==
  ASSUME NEW x \in CaptureType, NEW out \in {"none", "review", "inbox", "routed"},
         NEW d \in Trashable \cup {None}, NEW targets \in SUBSET Trashable,
         NEW removed \in SUBSET Trashable,
         NEW y, y = Filed(x, out, d, targets, removed)
  PROVE  /\ y \in CaptureType /\ y.out = out /\ y.dest = d /\ y.targets = targets
         /\ y.removed = removed /\ y.ties = x.ties /\ y.asked = x.asked /\ y.rrev = x.rrev
<1> DEFINE a == [x EXCEPT !.job = "done", !.out = out]
           b == [a EXCEPT !.dest = d, !.targets = targets]
           c == [b EXCEPT !.removed = removed]
<1>1. y = c
  BY DEF Filed
<1>2. /\ a \in CaptureType /\ a.out = out /\ a.ties = x.ties /\ a.asked = x.asked
      /\ a.rrev = x.rrev
  BY DEF CaptureType
<1> HIDE DEF a
<1>3. /\ b \in CaptureType /\ b.out = out /\ b.dest = d /\ b.targets = targets
      /\ b.ties = x.ties /\ b.asked = x.asked /\ b.rrev = x.rrev
  BY <1>2 DEF CaptureType
<1> HIDE DEF b
<1>4. /\ c \in CaptureType /\ c.out = out /\ c.dest = d /\ c.targets = targets
      /\ c.removed = removed /\ c.ties = x.ties /\ c.asked = x.asked /\ c.rrev = x.rrev
  BY <1>3 DEF CaptureType
<1> QED BY <1>1, <1>4

LEMMA RoutedRow ==
  ASSUME NEW x \in Rows, NEW d \in Trashable, NEW targets \in SUBSET Trashable,
         NEW removed \in SUBSET targets, d \in x.ties \cup targets
  PROVE  /\ Retention!Routed(x, d, targets, removed) \in Rows
         /\ Retention!Routed(x, d, targets, removed).ties = x.ties \cup targets
         /\ Retention!Routed(x, d, targets, removed).asked = x.asked
         /\ Retention!Routed(x, d, targets, removed).targets = targets
         /\ Retention!Routed(x, d, targets, removed).removed = removed
         /\ Retention!Routed(x, d, targets, removed).dest = d
<1> DEFINE y == Retention!Routed(x, d, targets, removed)
           z == Filed(x, "routed", d, targets, removed)
           ties == x.ties \cup targets
           k == x.rrev + 1
           w == [z EXCEPT !.ties = ties, !.rrev = k]
<1>1. x \in CaptureType /\ k \in Nat /\ ties \in SUBSET Trashable /\ removed \in SUBSET Trashable
  BY DEF Rows, CaptureType
<1>2. y = w
  BY DEF Retention!Routed, Filed
<1> HIDE DEF y, z, ties, k
<1>3. /\ z \in CaptureType /\ z.out = "routed" /\ z.dest = d /\ z.targets = targets
      /\ z.removed = removed /\ z.asked = x.asked
  BY <1>1, FiledRow DEF z
<1>4. /\ w \in CaptureType /\ w.ties = ties /\ w.asked = x.asked /\ w.targets = targets
      /\ w.out = "routed" /\ w.dest = d /\ w.removed = removed
  BY <1>1, <1>3 DEF CaptureType
<1> HIDE DEF w
<1>5. Tied(w)
  BY <1>4 DEF Tied, ties
<1> QED BY <1>2, <1>4, <1>5 DEF Rows, y, ties

LEMMA UnroutedRow ==
  ASSUME NEW x \in Rows, NEW out \in {"none", "review", "inbox"}
  PROVE  /\ Retention!Unrouted(x, out) \in Rows
         /\ Retention!Unrouted(x, out).ties = x.ties /\ Retention!Unrouted(x, out).asked = x.asked
         /\ Retention!Unrouted(x, out).targets = {} /\ Retention!Unrouted(x, out).dest = None
         /\ Retention!Unrouted(x, out).removed = {} /\ Retention!Unrouted(x, out).out = out
<1> DEFINE y == Retention!Unrouted(x, out)
           z == Filed(x, out, None, {}, {})
           k == x.rrev + 1
           w == [z EXCEPT !.rrev = k]
<1>1. x \in CaptureType /\ k \in Nat
  BY DEF Rows, CaptureType
<1>2. y = w
  BY DEF Retention!Unrouted, Filed
<1> HIDE DEF y, z, k
<1>3. /\ z \in CaptureType /\ z.out = out /\ z.dest = None /\ z.targets = {}
      /\ z.removed = {} /\ z.asked = x.asked /\ z.ties = x.ties
  BY <1>1, FiledRow DEF z
<1>4. /\ w \in CaptureType /\ w.ties = x.ties /\ w.asked = x.asked /\ w.targets = {}
      /\ w.out = out /\ w.dest = None /\ w.removed = {}
  BY <1>1, <1>3 DEF CaptureType
<1> HIDE DEF w
<1>5. Tied(w)
  BY <1>4 DEF Tied
<1> QED BY <1>2, <1>4, <1>5 DEF Rows, y

LEMMA WithoutIsShorter ==
  ASSUME RetentionTypes, NEW n, NEW at \in DOMAIN trash, trash[at] = n
  PROVE  Retention!Without(n) \in Seq(Trashable) /\ Len(Retention!Without(n)) = Len(trash) - 1
<1> DEFINE k == CHOOSE i \in DOMAIN trash : trash[i] = n
           a == SubSeq(trash, 1, k - 1)
           b == SubSeq(trash, k + 1, Len(trash))
<1>1. k \in DOMAIN trash
  OBVIOUS
<1>2. Retention!Without(n) = a \o b
  BY DEF Retention!Without, Retention!RemoveAt
<1> HIDE DEF k
<1>3. trash \in Seq(Trashable) /\ k \in 1 .. Len(trash) /\ Len(trash) \in Nat
  BY <1>1 DEF RetentionTypes
<1>4. a \in Seq(Trashable) /\ Len(a) = k - 1
  BY <1>3
<1>5. b \in Seq(Trashable) /\ Len(b) = Len(trash) - k
  BY <1>3
<1> HIDE DEF a, b
<1>6. (a \o b) \in Seq(Trashable) /\ Len(a \o b) = Len(a) + Len(b)
  BY <1>4, <1>5
<1> QED BY <1>2, <1>3, <1>4, <1>5, <1>6

LEMMA AskedRow ==
  ASSUME NEW x \in Rows, NEW asked \in SUBSET Trashable
  PROVE  /\ [x EXCEPT !.asked = asked] \in Rows /\ [x EXCEPT !.asked = asked].ties = x.ties
         /\ [x EXCEPT !.asked = asked].asked = asked
<1> DEFINE y == [x EXCEPT !.asked = asked]
<1>1. /\ y \in CaptureType /\ y.ties = x.ties /\ y.asked = asked /\ y.targets = x.targets
      /\ y.out = x.out /\ y.dest = x.dest /\ y.removed = x.removed
  BY DEF Rows, CaptureType
<1> HIDE DEF y
<1>2. Tied(y)
  BY <1>1 DEF Tied, Rows
<1> QED BY <1>1, <1>2 DEF Rows, y

-----------------------------------------------------------------------------
(* Owners and the organizer.                                               *)

LEMMA LiveNotes ==
  ASSUME NEW n \in Retention!Live
  PROVE  n \in Trashable /\ n \notin purged
BY DEF Retention!Live

LEMMA RetentionEnds ==
  ASSUME trash' \in Seq(Trashable), due' \in 0 .. Len(trash'), purged' \subseteq Trashable,
         rev' \in [Trashable -> Nat], lease' \in [Trashable -> LeaseType],
         CapturesSound(capture', purged'), RunsSound(run')
  PROVE  RetentionInv'
BY DEF RetentionInv, RetentionTypes

LEMMA RunsStay ==
  ASSUME RetentionInv, UNCHANGED <<lease, run>>
  PROVE  lease' \in [Trashable -> LeaseType] /\ RunsSound(run')
BY DEF RetentionInv, RetentionTypes

LEMMA TrashStays ==
  ASSUME RetentionInv, UNCHANGED <<trash, due, purged>>
  PROVE  /\ trash' \in Seq(Trashable) /\ due' \in 0 .. Len(trash')
         /\ purged' \subseteq Trashable
BY DEF RetentionInv, RetentionTypes

LEMMA RevStays ==
  ASSUME RetentionInv, UNCHANGED rev \/ \E ns : Retention!Write(ns)
  PROVE  rev' \in [Trashable -> Nat]
BY DEF RetentionInv, RetentionTypes, Retention!Write

LEMMA CapturesStay ==
  ASSUME RetentionInv, UNCHANGED <<capture, purged>>
  PROVE  CapturesSound(capture', purged')
BY DEF RetentionInv

LEMMA CaptureChanges ==
  ASSUME RetentionInv, UNCHANGED purged, NEW c \in Captures, NEW x \in Rows, Apart(x, purged),
         capture' = [capture EXCEPT ![c] = x]
  PROVE  CapturesSound(capture', purged')
BY DEF RetentionInv, CapturesSound

\* What is known of a capture.
LEMMA CaptureIs ==
  ASSUME RetentionInv, NEW c \in Captures
  PROVE  /\ capture[c] \in Rows /\ capture[c] \in CaptureType /\ Tied(capture[c])
         /\ Apart(capture[c], purged)
BY DEF RetentionInv, CapturesSound, Rows

LEMMA DeleteKeeps ==
  ASSUME RetentionInv, NEW n \in Trashable, Retention!Delete(n)
  PROVE  RetentionInv'
<1>1. /\ trash' = Append(trash, n) /\ UNCHANGED <<due, purged, capture, lease, run>>
      /\ Retention!Write({n})
  BY DEF Retention!Delete
<1>2. trash \in Seq(Trashable) /\ due \in 0 .. Len(trash) /\ purged \subseteq Trashable
  BY DEF RetentionInv, RetentionTypes
<1>3. trash' \in Seq(Trashable) /\ due' \in 0 .. Len(trash') /\ purged' \subseteq Trashable
  BY <1>1, <1>2
<1> QED BY <1>1, <1>3, RunsStay, RevStays, CapturesStay, RetentionEnds

LEMMA RestoreKeeps ==
  ASSUME RetentionInv, NEW n \in Trashable, Retention!Restore(n)
  PROVE  RetentionInv'
<1>1. /\ trash' = Retention!Without(n) /\ UNCHANGED <<purged, capture, lease, run>>
      /\ due' = IF n \in Retention!Expired THEN due - 1 ELSE due
      /\ Retention!Write({n}) /\ n \in Retention!ToSet(trash)
  BY DEF Retention!Restore
<1>2. /\ trash \in Seq(Trashable) /\ due \in 0 .. Len(trash) /\ purged \subseteq Trashable
      /\ RetentionTypes
  BY DEF RetentionInv, RetentionTypes
<1>3. PICK at \in DOMAIN trash : trash[at] = n
  BY <1>1 DEF Retention!ToSet
<1>4. trash' \in Seq(Trashable) /\ Len(trash') = Len(trash) - 1
  BY <1>1, <1>2, <1>3, WithoutIsShorter
<1>5. due' \in 0 .. Len(trash')
  <2>1. CASE n \in Retention!Expired
    <3>1. due >= 1
      BY <1>2, <2>1 DEF Retention!Expired
    <3> QED BY <1>1, <1>2, <1>4, <2>1, <3>1
  <2>2. CASE n \notin Retention!Expired
    <3>1. ~(at \in 1 .. due) /\ at \in 1 .. Len(trash)
      BY <1>2, <1>3, <2>2 DEF Retention!Expired
    <3>2. due <= Len(trash) - 1
      BY <1>2, <3>1
    <3> QED BY <1>1, <1>2, <1>4, <2>2, <3>2
  <2> QED BY <2>1, <2>2
<1> QED BY <1>1, <1>2, <1>4, <1>5, RunsStay, RevStays, CapturesStay, RetentionEnds

LEMMA EditKeeps ==
  ASSUME RetentionInv, NEW n \in Trashable, Retention!Edit(n)
  PROVE  RetentionInv'
<1>1. UNCHANGED <<trash, due, purged, capture, lease, run>> /\ Retention!Write({n})
  BY DEF Retention!Edit
<1> QED BY <1>1, TrashStays, RunsStay, RevStays, CapturesStay, RetentionEnds

LEMMA AgeKeeps ==
  ASSUME RetentionInv, Retention!Age
  PROVE  RetentionInv'
<1>1. /\ UNCHANGED <<trash, purged, rev, capture, lease, run>> /\ due < Len(trash)
      /\ due' = due + 1
  BY DEF Retention!Age
<1>2. trash \in Seq(Trashable) /\ due \in 0 .. Len(trash) /\ purged \subseteq Trashable
  BY DEF RetentionInv, RetentionTypes
<1>3. trash' \in Seq(Trashable) /\ due' \in 0 .. Len(trash') /\ purged' \subseteq Trashable
  BY <1>1, <1>2
<1> QED BY <1>1, <1>3, RunsStay, RevStays, CapturesStay, RetentionEnds

LEMMA OrganizeKeeps ==
  ASSUME RetentionInv, NEW c \in Captures, Retention!Organize(c)
  PROVE  RetentionInv'
<1>1. UNCHANGED <<trash, due, purged, lease, run>>
  BY DEF Retention!Organize
<1>2. capture[c] \in Rows /\ Apart(capture[c], purged)
  BY CaptureIs
<1>3. ASSUME NEW d \in Retention!Live,
             capture' = [capture EXCEPT ![c] = Retention!Routed(@, d, {d}, {})],
             rev' = [rev EXCEPT ![d] = @ + 1]
      PROVE  RetentionInv'
  <2> DEFINE y == Retention!Routed(capture[c], d, {d}, {})
  <2>1. /\ y \in Rows /\ y.ties = capture[c].ties \cup {d} /\ y.asked = capture[c].asked
    BY <1>2, LiveNotes, RoutedRow
  <2>2. capture' = [capture EXCEPT ![c] = y]
    BY <1>3
  <2> HIDE DEF y
  <2>3. Apart(y, purged)
    BY <1>2, <2>1, LiveNotes DEF Apart
  <2>4. CapturesSound(capture', purged')
    BY <1>1, <2>1, <2>2, <2>3, CaptureChanges
  <2>5. rev' \in [Trashable -> Nat]
    BY <1>3, LiveNotes DEF RetentionInv, RetentionTypes
  <2> QED BY <1>1, <2>4, <2>5, TrashStays, RunsStay, RetentionEnds
<1>4. ASSUME NEW asked \in {{}} \cup {{n} : n \in {m \in Retention!Live : "review" \in Ways}},
             capture' = [capture EXCEPT ![c] =
                           [Retention!Unrouted(@, "review") EXCEPT !.asked = asked]],
             UNCHANGED rev
      PROVE  RetentionInv'
  <2> DEFINE z == Retention!Unrouted(capture[c], "review")
             y == [z EXCEPT !.asked = asked]
  <2>1. z \in Rows /\ z.ties = capture[c].ties
    BY <1>2, UnroutedRow
  <2>2. capture' = [capture EXCEPT ![c] = y]
    BY <1>4
  <2> HIDE DEF z
  <2>3. asked \in SUBSET Trashable /\ asked \cap purged = {}
    BY LiveNotes
  <2>4. y \in Rows /\ y.ties = capture[c].ties /\ y.asked = asked
    BY <2>1, <2>3, AskedRow
  <2> HIDE DEF y
  <2>5. Apart(y, purged)
    BY <1>2, <2>3, <2>4 DEF Apart
  <2>6. CapturesSound(capture', purged')
    BY <1>1, <2>2, <2>4, <2>5, CaptureChanges
  <2> QED BY <1>1, <1>4, <2>6, TrashStays, RunsStay, RevStays, RetentionEnds
<1> QED BY <1>3, <1>4 DEF Retention!Organize

LEMMA UndoKeeps ==
  ASSUME RetentionInv, NEW c \in Captures, Retention!Undo(c)
  PROVE  RetentionInv'
<1> DEFINE x == capture[c]
           d == CHOOSE n \in x.removed : TRUE
           y == IF x.removed = {} THEN Retention!Unrouted(x, "inbox")
                ELSE Retention!Routed(x, d, {}, {})
<1>1. /\ UNCHANGED <<trash, due, purged, lease, run>> /\ Retention!Write(x.targets)
      /\ capture' = [capture EXCEPT ![c] = y]
  BY DEF Retention!Undo
<1>2. x \in Rows /\ x \in CaptureType /\ Apart(x, purged) /\ Tied(x)
  BY CaptureIs
<1>3. y \in Rows /\ y.ties = x.ties /\ y.asked = x.asked
  <2>1. CASE x.removed = {}
    BY <1>2, <2>1, UnroutedRow
  <2>2. CASE x.removed # {}
    <3>1. d \in x.removed
      BY <2>2
    <3> DEFINE t == {}
    <3>2. d \in Trashable /\ t \in SUBSET Trashable /\ t \in SUBSET t
      BY <1>2, <3>1 DEF Tied, CaptureType
    <3>3. Retention!Routed(x, d, {}, {}) = Retention!Routed(x, d, t, t) /\ x.ties \cup t = x.ties
      OBVIOUS
    <3> HIDE DEF x, d, t
    <3>4. d \in x.ties \cup t
      BY <1>2, <3>1 DEF Tied
    <3>5. /\ Retention!Routed(x, d, t, t) \in Rows
          /\ Retention!Routed(x, d, t, t).ties = x.ties \cup t
          /\ Retention!Routed(x, d, t, t).asked = x.asked
      BY <1>2, <3>2, <3>4, RoutedRow
    <3> QED BY <2>2, <3>3, <3>5
  <2> QED BY <2>1, <2>2
<1> HIDE DEF y
<1>4. Apart(y, purged)
  BY <1>2, <1>3 DEF Apart
<1>5. CapturesSound(capture', purged')
  BY <1>1, <1>3, <1>4, CaptureChanges
<1> QED BY <1>1, <1>5, TrashStays, RunsStay, RevStays, RetentionEnds

LEMMA MoveKeeps ==
  ASSUME RetentionInv, NEW c \in Captures, NEW m \in Trashable, Retention!Move(c, m)
  PROVE  RetentionInv'
<1> DEFINE x == capture[c]
           y == Retention!Routed(x, m, {x.dest, m}, {x.dest})
<1>1. /\ UNCHANGED <<trash, due, purged, lease, run>> /\ Retention!Write({x.dest, m})
      /\ capture' = [capture EXCEPT ![c] = y]
      /\ x.dest \in Retention!Live /\ m \in Retention!Live
  BY DEF Retention!Move
<1>2. x \in Rows /\ Apart(x, purged)
  BY CaptureIs
<1>3. x.dest \in Trashable /\ x.dest \notin purged /\ m \notin purged
  BY <1>1, LiveNotes
<1> HIDE DEF x
<1>4. y \in Rows /\ y.ties = x.ties \cup {x.dest, m} /\ y.asked = x.asked
  BY <1>2, <1>3, RoutedRow
<1> HIDE DEF y
<1>5. Apart(y, purged)
  BY <1>2, <1>3, <1>4 DEF Apart
<1>6. CapturesSound(capture', purged')
  BY <1>1, <1>4, <1>5, CaptureChanges
<1> QED BY <1>1, <1>6, TrashStays, RunsStay, RevStays, RetentionEnds

LEMMA ResolveKeeps ==
  ASSUME RetentionInv, NEW c \in Captures, Retention!Resolve(c)
  PROVE  RetentionInv'
<1>1. UNCHANGED <<trash, due, purged, lease, run>> /\ \E ns : Retention!Write(ns)
  BY DEF Retention!Resolve
<1>2. capture[c] \in Rows /\ Apart(capture[c], purged)
  BY CaptureIs
<1>3. \E y \in Rows : Apart(y, purged) /\ capture' = [capture EXCEPT ![c] = y]
  <2>1. ASSUME NEW d \in Retention!Live,
               capture' = [capture EXCEPT ![c] = Retention!Routed(@, d, {d}, {})]
        PROVE  \E y \in Rows : Apart(y, purged) /\ capture' = [capture EXCEPT ![c] = y]
    <3> DEFINE y == Retention!Routed(capture[c], d, {d}, {})
    <3>1. y \in Rows /\ y.ties = capture[c].ties \cup {d} /\ y.asked = capture[c].asked
      BY <1>2, LiveNotes, RoutedRow
    <3>2. capture' = [capture EXCEPT ![c] = y]
      BY <2>1
    <3> HIDE DEF y
    <3>3. Apart(y, purged)
      BY <1>2, <3>1, LiveNotes DEF Apart
    <3> QED BY <3>1, <3>2, <3>3
  <2>2. ASSUME capture' = [capture EXCEPT ![c] = Retention!Unrouted(@, "inbox")]
        PROVE  \E y \in Rows : Apart(y, purged) /\ capture' = [capture EXCEPT ![c] = y]
    <3> DEFINE y == Retention!Unrouted(capture[c], "inbox")
    <3>1. y \in Rows /\ y.ties = capture[c].ties /\ y.asked = capture[c].asked
      BY <1>2, UnroutedRow
    <3>2. capture' = [capture EXCEPT ![c] = y]
      BY <2>2
    <3> HIDE DEF y
    <3>3. Apart(y, purged)
      BY <1>2, <3>1 DEF Apart
    <3> QED BY <3>1, <3>2, <3>3
  <2> QED BY <2>1, <2>2 DEF Retention!Resolve
<1>4. CapturesSound(capture', purged')
  BY <1>1, <1>3, CaptureChanges
<1> QED BY <1>1, <1>4, TrashStays, RunsStay, RevStays, RetentionEnds

LEMMA DeleteCaptureKeeps ==
  ASSUME RetentionInv, NEW c \in Captures, Retention!DeleteCapture(c)
  PROVE  RetentionInv'
<1> DEFINE x == capture[c]
           z == Retention!Unrouted(x, "none")
           w == [z EXCEPT !.gone = TRUE]
           y == [w EXCEPT !.asked = {}]
<1>1. /\ UNCHANGED <<trash, due, purged, lease, run>> /\ \E ns : Retention!Write(ns)
      /\ capture' = [capture EXCEPT ![c] = [z EXCEPT !.gone = TRUE, !.asked = {}]]
  BY DEF Retention!DeleteCapture
<1>2. x \in Rows /\ Apart(x, purged)
  BY CaptureIs
<1>3. z \in Rows /\ z.ties = x.ties
  BY <1>2, UnroutedRow
<1>4. capture' = [capture EXCEPT ![c] = y]
  BY <1>1
<1> HIDE DEF z
<1>5. /\ w \in CaptureType /\ w.ties = z.ties /\ w.targets = z.targets /\ w.removed = z.removed
      /\ w.dest = z.dest /\ w.out = z.out
  BY <1>3 DEF Rows, CaptureType
<1> HIDE DEF w
<1>6. w \in Rows
  BY <1>3, <1>5 DEF Rows, Tied
<1>7. y \in Rows /\ y.ties = w.ties /\ y.asked = {}
  BY <1>6, AskedRow
<1> HIDE DEF y
<1>8. Apart(y, purged)
  BY <1>2, <1>3, <1>5, <1>7 DEF Apart
<1>9. CapturesSound(capture', purged')
  BY <1>1, <1>4, <1>7, <1>8, CaptureChanges
<1> QED BY <1>1, <1>9, TrashStays, RunsStay, RevStays, RetentionEnds

-----------------------------------------------------------------------------
(* A run.                                                                  *)

RunAtRest == [pc |-> "idle", queue |-> <<>>, plan |-> <<>>]

LEMMA RunChanges ==
  ASSUME RetentionInv, NEW r \in Runs, NEW x, RunSound(x), run' = [run EXCEPT ![r] = x]
  PROVE  RunsSound(run')
BY DEF RetentionInv, RunsSound, RunSound

\* What is known of a run that is under way.
LEMMA RunIs ==
  ASSUME RetentionInv, NEW r \in Runs, run[r].pc # "idle"
  PROVE  /\ run \in [Runs -> RunType] /\ run[r] \in RunType /\ Planned(run[r])
         /\ run[r].queue \in Seq(SnapshotType) /\ run[r].queue # <<>>
         /\ Head(run[r].queue) \in SnapshotType /\ Tail(run[r].queue) \in Seq(SnapshotType)
<1>1. run \in [Runs -> RunType] /\ run[r] \in RunType /\ Planned(run[r]) /\ run[r].queue # <<>>
  BY DEF RetentionInv, RunsSound, RunSound
<1>2. run[r].queue \in Seq(SnapshotType)
  BY <1>1 DEF RunType
<1> QED BY <1>1, <1>2

LEMMA SnapshotIsTyped ==
  ASSUME RetentionInv, NEW n \in Trashable
  PROVE  /\ Retention!Snapshot(n) \in SnapshotType
         /\ DOMAIN Retention!Snapshot(n).capture = Retention!Related(n)
         /\ \A c \in Retention!Related(n) : Retention!Snapshot(n).capture[c] = capture[c]
<1> DEFINE f == [c \in Retention!Related(n) |-> capture[c]]
<1>1. Retention!Related(n) \in SUBSET Captures
  BY DEF Retention!Related
<1>2. f \in [Retention!Related(n) -> Rows] /\ rev[n] \in Nat
  BY <1>1, CaptureIs DEF RetentionInv, RetentionTypes
<1>3. f \in UNION {[D -> Rows] : D \in SUBSET Captures}
  BY <1>1, <1>2
<1>4. Retention!Snapshot(n) = [note |-> n, rev |-> rev[n], capture |-> f]
  BY DEF Retention!Snapshot
<1>5. DOMAIN f = Retention!Related(n) /\ \A c \in Retention!Related(n) : f[c] = capture[c]
  OBVIOUS
<1> HIDE DEF f
<1> QED BY <1>2, <1>3, <1>4, <1>5 DEF SnapshotType

LEMMA LeaseMarks ==
  ASSUME RetentionInv, NEW n \in Trashable, lease[n] # None, NEW by \in Runs \cup {Orphan}
  PROVE  [lease[n] EXCEPT !.by = by] \in LeaseType /\ [lease[n] EXCEPT !.over = TRUE] \in LeaseType
<1>1. lease[n] \in [by : Runs \cup {Orphan}, over : BOOLEAN]
  BY DEF RetentionInv, RetentionTypes, LeaseType
<1> QED BY <1>1 DEF LeaseType

LEMMA FailRunKeeps ==
  ASSUME RetentionInv, NEW r \in Runs, Retention!Fail(r, Retention!Mine(r))
  PROVE  lease' \in [Trashable -> LeaseType] /\ RunsSound(run')
<1>1. PICK kept \in SUBSET Retention!Mine(r) :
        /\ lease' = [n \in Trashable |-> IF n \notin Retention!Mine(r) THEN lease[n]
                     ELSE IF n \in kept THEN [lease[n] EXCEPT !.by = Orphan] ELSE None]
        /\ run' = [run EXCEPT ![r] = RunAtRest]
  BY DEF Retention!Fail, RunAtRest
<1>2. ASSUME NEW n \in Trashable
      PROVE  (IF n \notin Retention!Mine(r) THEN lease[n]
              ELSE IF n \in kept THEN [lease[n] EXCEPT !.by = Orphan] ELSE None) \in LeaseType
  <2>1. n \in kept => lease[n] # None
    BY DEF Retention!Mine
  <2>2. lease[n] \in LeaseType /\ None \in LeaseType
    BY DEF RetentionInv, RetentionTypes, LeaseType
  <2>3. lease[n] # None => [lease[n] EXCEPT !.by = Orphan] \in LeaseType
    BY LeaseMarks
  <2> QED BY <2>1, <2>2, <2>3
<1>3. lease' \in [Trashable -> LeaseType]
  BY <1>1, <1>2
<1>4. RunsSound(run')
  BY <1>1, RunRests, RunChanges DEF RunAtRest
<1> QED BY <1>3, <1>4

LEMMA ClaimNotesKeeps ==
  ASSUME RetentionInv, NEW r \in Runs, Retention!Claim(r)
  PROVE  RetentionInv'
<1> DEFINE kept == {n \in Trashable : lease[n] # None /\ ~lease[n].over}
           free == {i \in 1 .. due : trash[i] \notin kept}
           free0 == {i \in Retention!Lowest(Window, free) : Retention!Claimable(trash[i])}
           part0 == Retention!Lowest(Batch, free0)
           taken == Retention!InOrder(part0)
           queue == [i \in DOMAIN taken |-> Retention!Snapshot(trash[taken[i]])]
           x == [pc |-> IF taken = <<>> THEN "idle" ELSE "claimed", queue |-> queue, plan |-> <<>>]
<1>1. /\ lease' = [n \in Trashable |->
          IF \E i \in DOMAIN taken : trash[taken[i]] = n THEN [by |-> r, over |-> FALSE]
          ELSE IF n \in kept THEN lease[n] ELSE None]
      /\ run' = [run EXCEPT ![r] = x]
      /\ UNCHANGED <<trash, due, purged, rev, capture>>
  BY DEF Retention!Claim
<1>2. trash \in Seq(Trashable) /\ due \in 0 .. Len(trash) /\ lease \in [Trashable -> LeaseType]
  BY DEF RetentionInv, RetentionTypes
<1>3. lease' \in [Trashable -> LeaseType]
  <2> DEFINE Took(n) == \E i \in DOMAIN taken : trash[taken[i]] = n
  <2>1. lease' = [n \in Trashable |-> IF Took(n) THEN [by |-> r, over |-> FALSE]
                                      ELSE IF n \in kept THEN lease[n] ELSE None]
    BY <1>1
  <2> HIDE DEF Took, kept
  <2>2. [by |-> r, over |-> FALSE] \in LeaseType /\ None \in LeaseType
    BY DEF LeaseType
  <2> QED BY <1>2, <2>1, <2>2
<1> HIDE DEF kept
<1>4. free \in SUBSET Int /\ IsFiniteSet(free) /\ free \subseteq 1 .. due
  <2>1. free \subseteq 1 .. due
    OBVIOUS
  <2>2. 1 .. due \in SUBSET Int /\ due \in Int
    BY <1>2
  <2>3. IsFiniteSet(1 .. due)
    BY <2>2, FS_Interval
  <2> HIDE DEF free
  <2>4. IsFiniteSet(free)
    BY <2>1, <2>3, FS_Subset
  <2> QED BY <2>1, <2>2, <2>4
<1> HIDE DEF free
<1>5. free0 \in SUBSET Int /\ IsFiniteSet(free0) /\ free0 \subseteq free
  <2>1. Retention!Lowest(Window, free) = Lowest(Window, free)
    BY RetentionRanks
  <2>2. Lowest(Window, free) \subseteq free /\ IsFiniteSet(Lowest(Window, free))
    BY <1>4, LowestIsPart, RetentionBounds
  <2>3. free0 \subseteq Lowest(Window, free)
    BY <2>1
  <2> HIDE DEF free0
  <2>4. IsFiniteSet(free0)
    BY <2>2, <2>3, FS_Subset
  <2> QED BY <1>4, <2>2, <2>3, <2>4
<1> HIDE DEF free0
<1>6. part0 \in SUBSET Int /\ IsFiniteSet(part0) /\ part0 \subseteq free0
  <2>1. part0 = Lowest(Batch, free0)
    BY RetentionRanks
  <2> HIDE DEF part0
  <2>2. part0 \subseteq free0 /\ IsFiniteSet(part0)
    BY <1>5, <2>1, LowestIsPart, RetentionBounds
  <2> QED BY <1>5, <2>2
<1> HIDE DEF part0
<1>7. taken = InOrder(part0)
  BY RetentionRanks
<1> HIDE DEF taken
<1>8. /\ taken \in [1 .. Cardinality(part0) -> part0] /\ Cardinality(part0) \in Nat
      /\ taken \in Seq(part0)
  BY <1>6, <1>7, InOrderLists
<1>9. \A i \in 1 .. Cardinality(part0) : trash[taken[i]] \in Trashable
  <2>1. part0 \subseteq 1 .. Len(trash)
    BY <1>2, <1>4, <1>5, <1>6
  <2>2. \A j \in 1 .. Len(trash) : trash[j] \in Trashable
    BY <1>2
  <2>3. \A i \in 1 .. Cardinality(part0) : taken[i] \in part0
    BY <1>8
  <2> QED BY <2>1, <2>2, <2>3
<1>10. /\ queue \in [1 .. Cardinality(part0) -> SnapshotType] /\ queue \in Seq(SnapshotType)
       /\ DOMAIN queue = DOMAIN taken
  <2>1. DOMAIN taken = 1 .. Cardinality(part0)
    BY <1>8
  <2>2. queue \in [1 .. Cardinality(part0) -> SnapshotType]
    BY <1>9, <2>1, SnapshotIsTyped
  <2>3. DOMAIN queue = DOMAIN taken
    OBVIOUS
  <2> HIDE DEF queue
  <2> QED BY <1>8, <2>2, <2>3
<1> HIDE DEF queue
<1>11. (taken = <<>>) = (queue = <<>>)
  BY <1>8, <1>10
<1>12. RunSound(x)
  BY <1>10, <1>11 DEF RunSound, RunType, Planned
<1>13. RunsSound(run')
  BY <1>1, <1>12, RunChanges
<1> QED BY <1>1, <1>3, <1>13, TrashStays, RevStays, CapturesStay, RetentionEnds

\* What reconcileReceipt plans fits the receipt it was told of.
LEMMA PlanFits ==
  ASSUME rev \in [Trashable -> Nat], NEW x \in Rows, NEW n \in Trashable
  PROVE  /\ Retention!Plan(x, n) \in PlanType
         /\ Retention!Plan(x, n).mode # "refuse" => Fits(Retention!Plan(x, n), x, n)
<1> DEFINE rest == x.targets \ {n}
           p == IF x.dest \in rest THEN x.dest ELSE CHOOSE m \in rest : TRUE
           q == Retention!Plan(x, n)
<1>1. x \in CaptureType /\ Tied(x)
  BY DEF Rows
<1>2. rest \subseteq Trashable /\ (rest # {} => p \in rest)
  BY <1>1 DEF CaptureType
<1>3. q = IF x.out # "routed" THEN [mode |-> "inbox"]
          ELSE IF n \notin x.targets
            THEN [mode |-> IF x.dest = n THEN "refuse" ELSE "preserve"]
          ELSE IF rest = {} THEN [mode |-> "inbox"]
          ELSE [mode |-> "routed", primary |-> p, at |-> rev[p]]
  BY DEF Retention!Plan
<1> SUFFICES q \in PlanType /\ (q.mode # "refuse" => Fits(q, x, n))
  OBVIOUS
<1> HIDE DEF q, p
<1>4. ASSUME q = [mode |-> "inbox"], x.targets \ {n} = {}
      PROVE  q \in PlanType /\ Fits(q, x, n)
  <2>1. q \in StillPlan /\ q.mode = "inbox"
    BY <1>4 DEF StillPlan
  <2> QED BY <1>4, <2>1 DEF PlanType, Fits
<1>5. CASE x.out # "routed"
  <2>1. q = [mode |-> "inbox"] /\ x.targets = {}
    BY <1>1, <1>3, <1>5 DEF Tied
  <2> QED BY <1>4, <2>1
<1>6. CASE x.out = "routed" /\ n \notin x.targets
  <2> DEFINE m == IF x.dest = n THEN "refuse" ELSE "preserve"
  <2>1. q = [mode |-> m] /\ m \in {"preserve", "refuse"}
    BY <1>3, <1>6
  <2> HIDE DEF m
  <2>2. q \in StillPlan /\ q.mode = m
    BY <2>1 DEF StillPlan
  <2> QED BY <1>6, <2>1, <2>2 DEF PlanType, Fits
<1>7. CASE x.out = "routed" /\ n \in x.targets /\ rest = {}
  <2>1. q = [mode |-> "inbox"]
    BY <1>3, <1>7
  <2> QED BY <1>4, <1>7, <2>1
<1>8. CASE x.out = "routed" /\ n \in x.targets /\ rest # {}
  <2>1. q = [mode |-> "routed", primary |-> p, at |-> rev[p]]
    BY <1>3, <1>8
  <2>2. p \in rest /\ p \in Trashable /\ rev[p] \in Nat
    BY <1>2, <1>8
  <2>3. q \in RoutedPlan /\ q.mode = "routed" /\ q.primary = p
    BY <2>1, <2>2 DEF RoutedPlan
  <2> QED BY <1>8, <2>2, <2>3 DEF PlanType, Fits
<1> QED BY <1>5, <1>6, <1>7, <1>8

LEMMA PrepareKeeps ==
  ASSUME RetentionInv, NEW r \in Runs, Retention!Prepare(r)
  PROVE  RetentionInv'
<1> DEFINE s == Head(run[r].queue)
           plan == [c \in Retention!Receipts(s) |-> Retention!Plan(s.capture[c], s.note)]
<1>1. run[r].pc = "claimed" /\ UNCHANGED <<trash, due, purged, rev, capture>>
  BY DEF Retention!Prepare
<1>2. /\ run \in [Runs -> RunType] /\ run[r] \in RunType /\ s \in SnapshotType
      /\ run[r].queue # <<>>
  BY <1>1, RunIs
<1>3. /\ s.note \in Trashable /\ Retention!Receipts(s) \in SUBSET Captures
      /\ \A c \in Retention!Receipts(s) : s.capture[c] \in Rows
  <2>1. PICK D \in SUBSET Captures : s.capture \in [D -> Rows]
    BY <1>2 DEF SnapshotType
  <2>2. Retention!Receipts(s) \subseteq D
    BY <2>1 DEF Retention!Receipts
  <2> QED BY <1>2, <2>1, <2>2 DEF SnapshotType
<1>4. rev \in [Trashable -> Nat]
  BY DEF RetentionInv, RetentionTypes
<1>5. CASE /\ \A c \in Retention!Receipts(s) : plan[c].mode # "refuse"
           /\ run' = [run EXCEPT ![r].pc = "prepared", ![r].plan = plan] /\ UNCHANGED lease
  <2> DEFINE x == [run[r] EXCEPT !.pc = "prepared", !.plan = plan]
  <2>1. run' = [run EXCEPT ![r] = x]
    BY <1>2, <1>5
  <2>2. plan \in [Retention!Receipts(s) -> PlanType]
    BY <1>3, <1>4, PlanFits
  <2>3. \A c \in Retention!Receipts(s) : Fits(plan[c], s.capture[c], s.note)
    BY <1>3, <1>4, <1>5, PlanFits
  <2> HIDE DEF plan
  <2>4. plan \in UNION {[D -> PlanType] : D \in SUBSET Captures}
    BY <1>3, <2>2
  <2>5. /\ x \in RunType /\ x.pc = "prepared" /\ x.queue = run[r].queue /\ x.plan = plan
    BY <1>2, <2>4 DEF RunType
  <2> HIDE DEF x
  <2>6. DOMAIN x.plan = Retention!Receipts(s)
    BY <2>2, <2>5
  <2>7. RunSound(x)
    BY <1>2, <2>3, <2>5, <2>6 DEF RunSound, Planned
  <2>8. RunsSound(run')
    BY <2>1, <2>7, RunChanges
  <2>9. lease' \in [Trashable -> LeaseType]
    BY <1>5 DEF RetentionInv, RetentionTypes
  <2> QED BY <1>1, <2>8, <2>9, TrashStays, RevStays, CapturesStay, RetentionEnds
<1>6. CASE Retention!Fail(r, Retention!Mine(r))
  BY <1>1, <1>6, FailRunKeeps, TrashStays, RevStays, CapturesStay, RetentionEnds
<1> QED BY <1>5, <1>6 DEF Retention!Prepare

LEMMA CrashRunKeeps ==
  ASSUME RetentionInv, NEW r \in Runs, Retention!Crash(r)
  PROVE  RetentionInv'
<1>1. /\ lease' = [n \in Trashable |->
           IF n \in Retention!Mine(r) THEN [lease[n] EXCEPT !.by = Orphan] ELSE lease[n]]
      /\ run' = [run EXCEPT ![r] = RunAtRest]
      /\ UNCHANGED <<trash, due, purged, rev, capture>>
  BY DEF Retention!Crash, RunAtRest
<1>2. ASSUME NEW n \in Trashable
      PROVE  (IF n \in Retention!Mine(r) THEN [lease[n] EXCEPT !.by = Orphan] ELSE lease[n]) \in LeaseType
  BY LeaseMarks DEF Retention!Mine, RetentionInv, RetentionTypes
<1>3. lease' \in [Trashable -> LeaseType]
  BY <1>1, <1>2
<1>4. RunsSound(run')
  BY <1>1, RunRests, RunChanges DEF RunAtRest
<1> QED BY <1>1, <1>3, <1>4, TrashStays, RevStays, CapturesStay, RetentionEnds

LEMMA LapseLeftKeeps ==
  ASSUME RetentionInv, NEW n \in Trashable, Retention!LapseLeft(n)
  PROVE  RetentionInv'
<1>1. /\ lease' = [lease EXCEPT ![n].over = TRUE] /\ lease[n] = [by |-> Orphan, over |-> FALSE]
      /\ UNCHANGED <<trash, due, purged, rev, capture, run>>
  BY DEF Retention!LapseLeft
<1>2. lease \in [Trashable -> LeaseType]
  BY DEF RetentionInv, RetentionTypes
<1>3. [lease[n] EXCEPT !.over = TRUE] \in LeaseType
  <2>1. lease[n] \in [by : Runs \cup {Orphan}, over : BOOLEAN]
    BY <1>1
  <2> QED BY <2>1 DEF LeaseType
<1>4. lease' \in [Trashable -> LeaseType]
  BY <1>1, <1>2, <1>3
<1>5. RunsSound(run')
  BY <1>1 DEF RetentionInv
<1> QED BY <1>1, <1>4, <1>5, TrashStays, RevStays, CapturesStay, RetentionEnds

LEMMA LapseSlowKeeps ==
  ASSUME RetentionInv, NEW r \in Runs, Retention!LapseSlow(r)
  PROVE  RetentionInv'
<1>1. /\ lease' = [n \in Trashable |->
           IF n \in Retention!Mine(r) THEN [lease[n] EXCEPT !.over = TRUE] ELSE lease[n]]
      /\ UNCHANGED <<trash, due, purged, rev, capture, run>>
  BY DEF Retention!LapseSlow
<1>2. ASSUME NEW n \in Trashable
      PROVE  (IF n \in Retention!Mine(r) THEN [lease[n] EXCEPT !.over = TRUE] ELSE lease[n]) \in LeaseType
  BY LeaseMarks DEF Retention!Mine, RetentionInv, RetentionTypes
<1>3. lease' \in [Trashable -> LeaseType]
  BY <1>1, <1>2
<1>4. RunsSound(run')
  BY <1>1 DEF RetentionInv
<1> QED BY <1>1, <1>3, <1>4, TrashStays, RevStays, CapturesStay, RetentionEnds

-----------------------------------------------------------------------------
(* The purge of a note.                                                    *)

\* A row that no longer has a note n it does not name.
Severed(z, n) == [z EXCEPT !.ties = @ \ {n}, !.asked = @ \ {n}]

LEMMA SeveredRow ==
  ASSUME NEW z \in Rows, NEW n, n \notin z.targets, z.dest # n
  PROVE  /\ Severed(z, n) \in Rows /\ Severed(z, n).targets = z.targets
         /\ Severed(z, n).ties = z.ties \ {n} /\ Severed(z, n).asked = z.asked \ {n}
<1> DEFINE y == Severed(z, n)
           ties == z.ties \ {n}
           asked == z.asked \ {n}
<1>1. z \in CaptureType /\ Tied(z) /\ ties \in SUBSET Trashable /\ asked \in SUBSET Trashable
  BY DEF Rows, CaptureType
<1>2. y = [z EXCEPT !.ties = ties, !.asked = asked]
  BY DEF Severed
<1> HIDE DEF y, ties, asked
<1>3. /\ y \in CaptureType /\ y.ties = ties /\ y.asked = asked /\ y.targets = z.targets
      /\ y.dest = z.dest /\ y.removed = z.removed /\ y.out = z.out
  BY <1>1, <1>2 DEF CaptureType
<1>4. Tied(y)
  BY <1>1, <1>3 DEF Tied, ties
<1> QED BY <1>3, <1>4 DEF Rows, y, ties, asked

LEMMA RewrittenRow ==
  ASSUME NEW x \in Rows, NEW n \in Trashable, NEW q \in PlanType, Fits(q, x, n),
         q.mode = "preserve" => n \notin x.ties
  PROVE  /\ Retention!Rewritten(x, q, n) \in Rows
         /\ Retention!Rewritten(x, q, n).targets = x.targets \ {n}
         /\ Retention!Rewritten(x, q, n).ties \subseteq x.ties \ {n}
         /\ Retention!Rewritten(x, q, n).asked = x.asked \ {n}
<1> DEFINE a == Retention!Unrouted(x, "inbox")
           b == Retention!Routed(x, q.primary, x.targets \ {n}, x.removed \ {n})
           k == x.rrev + 1
           c == [x EXCEPT !.rrev = k]
           z == CASE q.mode = "inbox" -> a [] q.mode = "routed" -> b [] OTHER -> c
<1>1. Retention!Rewritten(x, q, n) = Severed(z, n)
  BY DEF Retention!Rewritten, Severed
<1>2. x \in CaptureType /\ Tied(x) /\ k \in Nat /\ None \notin Trashable
  BY RetentionBounds DEF Rows, CaptureType
<1>3. /\ z \in Rows /\ z.targets = x.targets \ {n} /\ z.dest # n /\ z.ties \subseteq x.ties
      /\ z.asked = x.asked
  <2>1. CASE q.mode = "inbox"
    <3>1. z = a
      BY <2>1
    <3>2. a \in Rows /\ a.targets = {} /\ a.dest = None /\ a.ties = x.ties /\ a.asked = x.asked
      BY UnroutedRow
    <3>3. x.targets \ {n} = {}
      BY <2>1 DEF Fits
    <3> HIDE DEF z, a
    <3> QED BY <1>2, <3>1, <3>2, <3>3
  <2>2. CASE q.mode = "routed"
    <3> DEFINE targets == x.targets \ {n}
               removed == x.removed \ {n}
    <3>1. z = Retention!Routed(x, q.primary, targets, removed)
      BY <2>2
    <3>2. q.primary \in targets
      BY <2>2 DEF Fits
    <3>3. targets \in SUBSET Trashable /\ removed \in SUBSET targets /\ targets \subseteq x.ties
      BY <1>2 DEF CaptureType, Tied
    <3>4. q.primary # n
      BY <3>2
    <3>5. targets = x.targets \ {n}
      OBVIOUS
    <3> HIDE DEF z, targets, removed
    <3>6. /\ z \in Rows /\ z.targets = targets /\ z.dest = q.primary
          /\ z.ties = x.ties \cup targets /\ z.asked = x.asked
      BY <3>1, <3>2, <3>3, RoutedRow
    <3> QED BY <3>3, <3>4, <3>5, <3>6
  <2>3. CASE q.mode \notin {"inbox", "routed"}
    <3>1. z = c
      BY <2>3
    <3>2. n \notin x.targets /\ n \notin x.ties
      BY <2>3 DEF Fits
    <3> HIDE DEF z, k
    <3>3. /\ c \in CaptureType /\ c.targets = x.targets /\ c.dest = x.dest /\ c.ties = x.ties
          /\ c.asked = x.asked /\ c.removed = x.removed /\ c.out = x.out
      BY <1>2 DEF CaptureType
    <3> HIDE DEF c
    <3>4. c \in Rows
      BY <1>2, <3>3 DEF Rows, Tied
    <3> QED BY <1>2, <3>1, <3>2, <3>3, <3>4 DEF Tied
  <2> QED BY <2>1, <2>2, <2>3
<1> HIDE DEF z
<1>4. /\ Severed(z, n) \in Rows /\ Severed(z, n).targets = z.targets
      /\ Severed(z, n).ties = z.ties \ {n} /\ Severed(z, n).asked = z.asked \ {n}
  BY <1>3, SeveredRow
<1> QED BY <1>1, <1>3, <1>4

\* The row of capture c once the claim of a run is committed.
RowAfter(c, s, plan) ==
  IF c \in Retention!Receipts(s) THEN Retention!Rewritten(capture[c], plan[c], s.note)
  ELSE Severed(capture[c], s.note)

LEMMA CommitRewrites ==
  ASSUME RetentionInv, NEW r \in Runs, run[r].pc = "prepared",
         NEW s, s = Head(run[r].queue), Retention!Unchanged(s),
         \A c \in Retention!Receipts(s) : Retention!Borne(c, run[r].plan[c], s.note),
         NEW c \in Captures
  PROVE  /\ RowAfter(c, s, run[r].plan) \in Rows
         /\ Apart(RowAfter(c, s, run[r].plan), purged \cup {s.note})
         /\ RowAfter(c, s, run[r].plan).targets = capture[c].targets \ {s.note}
<1> DEFINE n == s.note
           x == capture[c]
           y == RowAfter(c, s, run[r].plan)
<1>1. /\ run[r] \in RunType /\ Planned(run[r]) /\ s \in SnapshotType
  BY RunIs
<1>2. n \in Trashable /\ None \notin Trashable
  BY <1>1, RetentionBounds DEF SnapshotType
<1>3. x \in Rows /\ x \in CaptureType /\ Tied(x) /\ Apart(x, purged)
  BY CaptureIs
<1>4. /\ DOMAIN s.capture = Retention!Related(n)
      /\ \A d \in Retention!Related(n) : s.capture[d] = capture[d]
  <2>1. Retention!Snapshot(n) = s
    BY DEF Retention!Unchanged
  <2> QED BY <1>2, <2>1, SnapshotIsTyped
<1>5. /\ y \in Rows /\ y.targets = x.targets \ {n} /\ y.ties \subseteq x.ties \ {n}
      /\ y.asked = x.asked \ {n}
  <2>1. CASE c \in Retention!Receipts(s)
    <3> DEFINE q == run[r].plan[c]
    <3>1. /\ DOMAIN run[r].plan = Retention!Receipts(s) /\ Fits(q, s.capture[c], n)
      BY <1>1, <2>1 DEF Planned
    <3>2. s.capture[c] = x
      BY <1>4, <2>1 DEF Retention!Receipts
    <3>3. q \in PlanType
      <4>1. CASE run[r].plan = <<>>
        <5>1. DOMAIN <<>> = {}
          OBVIOUS
        <5> QED BY <2>1, <3>1, <4>1, <5>1
      <4>2. CASE \E D \in SUBSET Captures : run[r].plan \in [D -> PlanType]
        BY <2>1, <3>1, <4>2
      <4> QED BY <1>1, <4>1, <4>2 DEF RunType
    <3>4. q.mode = "preserve" => n \notin x.ties
      BY <2>1 DEF Retention!Borne
    <3>5. y = Retention!Rewritten(x, q, n)
      BY <2>1 DEF RowAfter
    <3>6. Fits(q, x, n)
      BY <3>1, <3>2
    <3> HIDE DEF y, x, q, n
    <3> QED BY <1>2, <1>3, <3>3, <3>4, <3>5, <3>6, RewrittenRow
  <2>2. CASE c \notin Retention!Receipts(s)
    <3>1. y = Severed(x, n)
      BY <2>2 DEF RowAfter
    <3>2. n \notin x.targets /\ x.dest # n
      <4>1. CASE c \in Retention!Related(n)
        <5>1. x.out = "none"
          BY <1>4, <2>2, <4>1 DEF Retention!Receipts
        <5> QED BY <1>2, <1>3, <5>1 DEF Tied
      <4>2. CASE c \notin Retention!Related(n)
        <5>1. n \notin x.ties
          BY <4>2 DEF Retention!Related
        <5> QED BY <1>2, <1>3, <5>1 DEF Tied
      <4> QED BY <4>1, <4>2
    <3> HIDE DEF y, x, n
    <3>3. /\ Severed(x, n) \in Rows /\ Severed(x, n).targets = x.targets
          /\ Severed(x, n).ties = x.ties \ {n} /\ Severed(x, n).asked = x.asked \ {n}
      BY <1>3, <3>2, SeveredRow
    <3> QED BY <3>1, <3>2, <3>3
  <2> QED BY <2>1, <2>2
<1> HIDE DEF y
<1>6. Apart(y, purged \cup {n})
  BY <1>3, <1>5 DEF Apart
<1> QED BY <1>5, <1>6 DEF y

\* What a commit does when it is not refused.
Purging(r, s) ==
  /\ run[r].pc = "prepared" /\ s = Head(run[r].queue) /\ Retention!Unchanged(s)
  /\ \A c \in Retention!Receipts(s) : Retention!Borne(c, run[r].plan[c], s.note)
  /\ trash' = Retention!Without(s.note) /\ due' = due - 1 /\ purged' = purged \cup {s.note}
  /\ capture' = [c \in Captures |-> RowAfter(c, s, run[r].plan)]
  /\ UNCHANGED rev

LEMMA CommitNoteKeeps ==
  ASSUME RetentionInv, NEW r \in Runs, Retention!Commit(r)
  PROVE  /\ RetentionInv'
         /\ UNCHANGED purged \/ \E s : Purging(r, s)
<1> DEFINE s == Head(run[r].queue)
           n == s.note
           rest == Tail(run[r].queue)
<1>1. run[r].pc = "prepared" /\ UNCHANGED rev
  BY DEF Retention!Commit
<1>2. /\ run \in [Runs -> RunType] /\ run[r] \in RunType /\ s \in SnapshotType
      /\ rest \in Seq(SnapshotType)
  BY <1>1, RunIs
<1>3. CASE Retention!Fail(r, Retention!Mine(r)) /\ UNCHANGED <<trash, due, purged, capture>>
  BY <1>1, <1>3, FailRunKeeps, TrashStays, RevStays, CapturesStay, RetentionEnds
<1>4. CASE ~(Retention!Fail(r, Retention!Mine(r)) /\ UNCHANGED <<trash, due, purged, capture>>)
  <2>1. Purging(r, s)
    BY <1>4 DEF Retention!Commit, Purging, RowAfter, Severed
  <2>2. \/ /\ lease' = [lease EXCEPT ![n] = None]
           /\ run' = [run EXCEPT ![r] =
                        [pc |-> IF rest = <<>> THEN "idle" ELSE "claimed",
                         queue |-> rest, plan |-> <<>>]]
        \/ /\ lease' = [m \in Trashable |-> IF m \in Retention!Mine(r) THEN None ELSE lease[m]]
           /\ run' = [run EXCEPT ![r] = RunAtRest]
    BY <1>4 DEF Retention!Commit, RunAtRest
  <2>3. lease' \in [Trashable -> LeaseType]
    BY <2>2 DEF RetentionInv, RetentionTypes, LeaseType
  <2>4. RunsSound(run')
    <3>1. RunSound([pc |-> IF rest = <<>> THEN "idle" ELSE "claimed", queue |-> rest,
                    plan |-> <<>>])
      BY <1>2 DEF RunSound, RunType, Planned
    <3> QED BY <2>2, <3>1, RunRests, RunChanges DEF RunAtRest
  <2> HIDE DEF s
  <2>5. n \in Trashable
    BY <1>2 DEF SnapshotType
  <2>6. n \in Retention!Expired
    BY <2>1 DEF Purging, Retention!Unchanged
  <2>7. PICK at \in 1 .. due : trash[at] = n
    BY <2>6 DEF Retention!Expired
  <2>8. /\ trash \in Seq(Trashable) /\ due \in 0 .. Len(trash) /\ purged \subseteq Trashable
        /\ RetentionTypes
    BY DEF RetentionInv, RetentionTypes
  <2>9. at \in DOMAIN trash /\ due >= 1
    BY <2>7, <2>8
  <2>10. trash' \in Seq(Trashable) /\ Len(trash') = Len(trash) - 1
    BY <2>1, <2>7, <2>8, <2>9, WithoutIsShorter DEF Purging
  <2>11. due' \in 0 .. Len(trash') /\ purged' \subseteq Trashable
    BY <2>1, <2>5, <2>8, <2>9, <2>10 DEF Purging
  <2>12. CapturesSound(capture', purged')
    <3>1. \A c \in Captures : /\ RowAfter(c, s, run[r].plan) \in Rows
                              /\ Apart(RowAfter(c, s, run[r].plan), purged \cup {n})
      BY <1>1, <2>1, CommitRewrites DEF Purging
    <3> QED BY <2>1, <3>1 DEF Purging, CapturesSound
  <2>13. rev' \in [Trashable -> Nat]
    BY <1>1, RevStays
  <2>14. RetentionInv'
    BY <2>3, <2>4, <2>10, <2>11, <2>12, <2>13, RetentionEnds
  <2> QED BY <2>1, <2>14
<1> QED BY <1>3, <1>4

LEMMA RetentionStepKeeps ==
  ASSUME RetentionInv, Retention!Next
  PROVE  RetentionInv'
BY DeleteKeeps, RestoreKeeps, EditKeeps, AgeKeeps, OrganizeKeeps, UndoKeeps, MoveKeeps, ResolveKeeps,
   DeleteCaptureKeeps, ClaimNotesKeeps, PrepareKeeps, CommitNoteKeeps, CrashRunKeeps, LapseLeftKeeps,
   LapseSlowKeeps
   DEF Retention!Next, Retention!OwnerStep, Retention!RunStep

LEMMA RetentionStutterKeeps ==
  ASSUME RetentionInv, UNCHANGED trashVars
  PROVE  RetentionInv'
BY DEF RetentionInv, RetentionTypes, trashVars

LEMMA PurgeIsNarrow ==
  ASSUME RetentionInv, Retention!Next
  PROVE  Retention!PurgedStep /\ Retention!UndoStep
<1>1. CASE UNCHANGED purged
  BY <1>1 DEF Retention!PurgedStep, Retention!UndoStep
<1>2. ASSUME NEW r \in Runs, NEW s, Purging(r, s)
      PROVE  Retention!PurgedStep /\ Retention!UndoStep
  <2>1. Retention!PurgedStep
    BY <1>2 DEF Purging, Retention!Unchanged, Retention!PurgedStep
  <2>2. ASSUME NEW c \in Captures, NEW n \in purged' \ purged
        PROVE  capture'[c].targets = capture[c].targets \ {n}
    <3>1. n = s.note
      BY <1>2 DEF Purging
    <3>2. capture'[c] = RowAfter(c, s, run[r].plan)
      BY <1>2 DEF Purging
    <3>3. RowAfter(c, s, run[r].plan).targets = capture[c].targets \ {s.note}
      BY <1>2, CommitRewrites DEF Purging
    <3> QED BY <3>1, <3>2, <3>3
  <2>3. Retention!UndoStep
    BY <2>2 DEF Retention!UndoStep
  <2> QED BY <2>1, <2>3
<1>3. ASSUME ~UNCHANGED purged PROVE \E r \in Runs : Retention!Commit(r)
  BY <1>3 DEF Retention!Next, Retention!OwnerStep, Retention!RunStep, Retention!Delete,
     Retention!Restore, Retention!Edit, Retention!Age, Retention!Organize, Retention!Undo,
     Retention!Move, Retention!Resolve, Retention!DeleteCapture, Retention!Claim, Retention!Prepare,
     Retention!Crash, Retention!LapseLeft, Retention!LapseSlow
<1> QED BY <1>1, <1>2, <1>3, CommitNoteKeeps

LEMMA RetentionInvSuffices ==
  ASSUME RetentionInv PROVE Retention!TypeOK /\ Retention!NoDanglingReceipt
<1>1. Retention!NoDanglingReceipt
  <2>1. ASSUME NEW c \in Captures
        PROVE  ({capture[c].dest} \cup capture[c].targets \cup capture[c].asked) \cap purged = {}
    <3>1. purged \subseteq Trashable /\ None \notin Trashable
      BY RetentionBounds DEF RetentionInv, RetentionTypes
    <3> QED BY <3>1, CaptureIs DEF Tied, Apart
  <2> QED BY <2>1 DEF Retention!NoDanglingReceipt
<1>2. ASSUME NEW c \in Captures
      PROVE  /\ capture[c].out \in {"none", "review", "inbox", "routed"}
             /\ capture[c].dest \in Trashable \cup {None} /\ capture[c].rrev \in Nat
             /\ capture[c].removed \subseteq capture[c].targets
             /\ capture[c].targets \subseteq capture[c].ties /\ capture[c].ties \subseteq Trashable
             /\ capture[c].asked \subseteq Trashable
  BY CaptureIs DEF Tied, CaptureType
<1>3. ASSUME NEW r \in Runs
      PROVE  /\ run[r].pc \in {"idle", "claimed", "prepared"}
             /\ (run[r].pc = "idle") = (run[r].queue = <<>>)
  BY DEF RetentionInv, RunsSound, RunSound, RunType
<1>4. /\ trash \in Seq(Trashable) /\ due \in 0 .. Len(trash) /\ purged \subseteq Trashable
      /\ rev \in [Trashable -> Nat]
      /\ lease \in [Trashable -> {None} \cup [by : Runs \cup {Orphan}, over : BOOLEAN]]
  BY DEF RetentionInv, RetentionTypes, LeaseType
<1> QED BY <1>1, <1>2, <1>3, <1>4 DEF Retention!TypeOK

-----------------------------------------------------------------------------
(* Server.                                                                 *)

\* Of the part that runs.
ServerInv ==
  /\ part \in {"write", "ticket", "index", "trash"}
  /\ part = "ticket" => TicketInv
  /\ part = "index" => MaintenanceInv
  /\ part = "trash" => RetentionInv

LEMMA ServerBegins == ServerInit => ServerInv
BY TicketBegins, MaintenanceBegins, RetentionBegins DEF ServerInit, ServerInv

LEMMA ServerStep == ServerInv /\ [ServerNext]_serverVars => ServerInv'
<1> SUFFICES ASSUME ServerInv, [ServerNext]_serverVars PROVE ServerInv'
  OBVIOUS
<1>1. CASE part = "write" /\ Next /\ UNCHANGED <<part, ticketVars, indexVars, trashVars>>
  BY <1>1 DEF ServerInv
<1>2. CASE part = "ticket" /\ Ticket!Next /\ UNCHANGED <<part, vars, indexVars, trashVars>>
  BY <1>2, TicketStepKeeps DEF ServerInv
<1>3. CASE part = "index" /\ Maintenance!Next /\ UNCHANGED <<part, vars, ticketVars, trashVars>>
  BY <1>3, MaintenanceStepKeeps DEF ServerInv
<1>4. CASE part = "trash" /\ Retention!Next /\ UNCHANGED <<part, vars, ticketVars, indexVars>>
  BY <1>4, RetentionStepKeeps DEF ServerInv
<1>5. CASE UNCHANGED serverVars
  <2>1. UNCHANGED part /\ UNCHANGED ticketVars /\ UNCHANGED indexVars /\ UNCHANGED trashVars
    BY <1>5 DEF serverVars
  <2> QED
    BY <2>1, TicketStutterKeeps, MaintenanceStutterKeeps, RetentionStutterKeeps DEF ServerInv
<1> QED BY <1>1, <1>2, <1>3, <1>4, <1>5 DEF ServerNext

LEMMA ServerAlways == ServerSpec => []ServerInv
BY ServerBegins, ServerStep, PTL DEF ServerSpec

\* Among the services, the note write is the NoteWrite that was proved correct:
\* each step of the four is one of its steps, or none (applyEncryptedNoteMutation
\* shares no row with a ticket, a pass or a purge that Server models).
THEOREM ServedWrite == ServerSpec => Spec
<1>1. ServerInit => Init
  BY DEF ServerInit
<1>2. [ServerNext]_serverVars => [Next]_vars
  BY DEF ServerNext, serverVars
<1> QED BY <1>1, <1>2, PTL DEF ServerSpec, Spec

\* So a write happens once, on top of the revision its request names, however
\* often and wherever it is sent, and what it makes is made from that revision.
THEOREM ServedOnce == ServerSpec => Once /\ []BuiltOnItsBase
BY ServedWrite, WritesOnce, BuiltSafe, PTL

\* Every variable of the services has the values its component gives it: the
\* ticket and its workers, the owners' indexes and the passes over them, the
\* trash with its claims and runs.
THEOREM ServerTypeCorrect == ServerSpec => []EveryTypeOK
<1>1. TypeOK /\ ServerInv => EveryTypeOK
  BY TicketInvSuffices, MaintenanceInvSuffices, RetentionInvSuffices DEF ServerInv, EveryTypeOK
<1> QED BY <1>1, ServedWrite, TypeCorrect, ServerAlways, PTL

\* A search is one search of one snapshot (claim, read_pages, verify and complete
\* of the encrypted user search): for every number of notes, of deliveries, of
\* revisions and of switches of the served index, one worker redeems a ticket, a
\* completed one holds exactly what matched at the verification, each hit shown
\* was read again at its revision, and nothing revives a ticket that is over.
THEOREM SearchesOnce == ServerSpec => OneSearchOneSnapshot
<1>1. ServerInv => (part = "ticket" =>
        Ticket!OneRedeemer /\ Ticket!CompletedIsOneSnapshot /\ Ticket!ShownIsVerified)
  BY TicketInvSuffices DEF ServerInv
<1>2. ServerInv /\ [ServerNext]_serverVars => [part = "ticket" => Ticket!TerminalStep]_serverVars
  <2> SUFFICES ASSUME ServerInv, ServerNext, part = "ticket" PROVE Ticket!TerminalStep
    OBVIOUS
  <2>1. TicketInv /\ Ticket!Next
    BY DEF ServerInv, ServerNext
  <2> QED BY <2>1, TicketEnds
<1> QED BY <1>1, <1>2, ServerAlways, PTL DEF ServerSpec, OneSearchOneSnapshot

\* A build only goes by a call for its owner, for a reason that is still so when
\* it is carried out, however old the page it was decided on (the fail, verify
\* and activate calls of the controller); only that the owner has no key may not
\* be so any more, and then no row that could be opened goes with the build.
\* What is activated is the whole index as it is now.  For every number of
\* owners, of notes, of overlapping passes, of page and seed limits and of
\* writes between a page and its calls.
THEOREM MaintenanceJudged == ServerSpec => JudgedAsItIs
<1>1. ServerInv /\ [ServerNext]_serverVars
        => [part = "index" => Maintenance!FailedStep /\ Maintenance!ActivatedStep]_serverVars
  <2> SUFFICES ASSUME ServerInv, ServerNext, part = "index"
               PROVE  Maintenance!FailedStep /\ Maintenance!ActivatedStep
    OBVIOUS
  <2>1. MaintenanceInv /\ Maintenance!Next
    BY DEF ServerInv, ServerNext
  <2> QED BY <2>1, MaintenanceJudges
<1> QED BY <1>1, ServerAlways, PTL DEF ServerSpec, JudgedAsItIs

\* A purge takes one note, as it was deleted, and its own undo, and leaves no
\* receipt that names it (claim, prepare and commit of the retention): for every
\* number of notes, captures and overlapping runs, of claims and of candidates,
\* and of deletions, restorations, moves and undos of the owner between them.
THEOREM PurgesOneNote == ServerSpec => PurgeTakesOneNote
<1>1. ServerInv => (part = "trash" => Retention!NoDanglingReceipt)
  BY RetentionInvSuffices DEF ServerInv
<1>2. ServerInv /\ [ServerNext]_serverVars
        => [part = "trash" => Retention!PurgedStep /\ Retention!UndoStep]_serverVars
  <2> SUFFICES ASSUME ServerInv, ServerNext, part = "trash"
               PROVE  Retention!PurgedStep /\ Retention!UndoStep
    OBVIOUS
  <2>1. RetentionInv /\ Retention!Next
    BY DEF ServerInv, ServerNext
  <2> QED BY <2>1, PurgeIsNarrow
<1> QED BY <1>1, <1>2, ServerAlways, PTL DEF ServerSpec, PurgeTakesOneNote
=============================================================================
