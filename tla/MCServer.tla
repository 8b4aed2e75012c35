------------------------------ MODULE MCServer ------------------------------
(***************************************************************************)
(* The services for TLC.  A note write: a privacy change and its undo, each *)
(* sent to two servers; or a note that is created, and two requests that   *)
(* are sent under one key.  A search of two notes on one or two pages, its *)
(* invocation delivered twice.  One owner of two notes, one too many for   *)
(* the verifier, and two overlapping passes of the maintenance.  Two       *)
(* overlapping runs of the retention of three notes while the owner does   *)
(* everything there is to do.                                              *)
(***************************************************************************)
EXTENDS Server, TLC

CONSTANTS make, write, hide, undo, k1, k2, a1, a2, n1, n2, n3, c1, s1, s2

Wanted == make :> "create" @@ write :> "edit" @@ hide :> "hide" @@ undo :> "undo"
KeyOfEach == make :> k1 @@ write :> k2 @@ hide :> k2 @@ undo :> k1

\* Bound: calls are lost only where a key is used twice; keys are rotated and
\* others write only where it is not, nor is the note created.
Asked == {r \in Requests : expected[r] # Unasked}
OneUseOfKeys ==
  \/ Asked \subseteq {hide, undo} /\ spent.faults = 0
  \/ /\ Asked \subseteq {make, write, hide} /\ key = [mac |-> 1, wrap |-> 1]
     /\ \A i \in 1 .. Rev : log[i].by # Other

\* Where another part runs, the note write rests without a note.
OneRest == part # "write" => note = "absent"

\* Bound: nothing happens before the search is begun; and no worker dies, which
\* is to the search as if it took no further step.
BegunAlive ==
  part = "ticket" =>
    /\ web.pc = "idle" => index.id = 0 /\ index.token = 0 /\ index.proof = 0
    /\ \A s \in {s1, s2} : worker[s].pc # "dead"

\* Bound: what the owner does to captures and what is lost are three in all.
FewChanges == part = "trash" => writes.writes + writes.faults <= 3

\* Bound: a second write to an index adds a key.
SecondWriteIsKey ==
  part = "index" /\ used.writes = 1 /\ used'.writes = 2 => Maintenance!AddKey(1)

\* Servers, workers, passes and runs are alike, and an owner's notes: they are
\* exchanged together.
Symmetry ==
  {p @@ [x \in {a1, a2} |-> IF p[s1] = s1 THEN x ELSE IF x = a1 THEN a2 ELSE a1]
     : p \in Permutations({s1, s2})}
=============================================================================
