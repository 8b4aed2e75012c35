--------------------------- MODULE MCOrganizerJob ---------------------------
(* Instances of OrganizerJob for TLC.                                      *)
EXTENDS OrganizerJobRefinement, TLC
CONSTANTS j1, j2, n1, s1, s2, r1, r2, r3

\* One capture, one note of the owner's and the note the job may create.
OneStableNote == (j1 :> s1)
ReservationSymmetry == Permutations(ReservationIds)

\* Two captures: exchanging them exchanges the notes they may create.
TwoStableNotes == (j1 :> s1) @@ (j2 :> s2)
JobExchange == (j1 :> j2) @@ (j2 :> j1) @@ (s1 :> s2) @@ (s2 :> s1)
JobIdentity == [x \in {j1, j2, s1, s2} |-> x]
PairSymmetry == {p @@ q : p \in Permutations(ReservationIds), q \in {JobExchange, JobIdentity}}
=============================================================================
