----------------------------- MODULE WriteOnce -----------------------------
(***************************************************************************)
(* What the encrypted note API promises a client that sends a write under   *)
(* an idempotency key, and sends it again when it hears nothing: the write  *)
(* happens on top of the revision the client named or not at all, once      *)
(* however often it is sent, and every answer is the answer of that once.   *)
(***************************************************************************)
EXTENDS Naturals

CONSTANTS
  Requests, Keys,
  KeyOf,         \* the key a request is sent under; a client may misuse one
  Servers,       \* what can answer: responses of two of them differ
  None, Unasked

VARIABLES
  rev,       \* revision of the note
  expected,  \* the revision a request names
  applied,   \* what was stored under a key
  answers    \* answers a request got

once == <<rev, expected, applied, answers>>

Stored == [req : Requests, rev : Nat, by : Servers]

Init ==
  /\ rev \in Nat
  /\ expected = [r \in Requests |-> Unasked]
  /\ applied = [k \in Keys |-> None]
  /\ answers = [r \in Requests |-> {}]

Ask(r) ==
  /\ expected[r] = Unasked
  /\ \E e \in 0 .. rev : expected' = [expected EXCEPT ![r] = e]
  /\ UNCHANGED <<rev, applied, answers>>

Apply(r) ==
  /\ applied[KeyOf[r]] = None /\ expected[r] = rev
  /\ rev' = rev + 1
  /\ \E s \in Servers :
       applied' = [applied EXCEPT ![KeyOf[r]] = [req |-> r, rev |-> rev + 1, by |-> s]]
  /\ UNCHANGED <<expected, answers>>

Answer(r) ==
  /\ applied[KeyOf[r]] # None /\ applied[KeyOf[r]].req = r
  /\ answers' = [answers EXCEPT ![r] = @ \cup {applied[KeyOf[r]]}]
  /\ UNCHANGED <<rev, expected, applied>>

\* A write of the organizer, a correction, or another note's link.
Elsewhere ==
  /\ rev' = rev + 1
  /\ UNCHANGED <<expected, applied, answers>>

Next == Elsewhere \/ \E r \in Requests : Ask(r) \/ Apply(r) \/ Answer(r)

Spec == Init /\ [][Next]_once
=============================================================================
