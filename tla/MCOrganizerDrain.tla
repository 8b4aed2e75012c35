--------------------------- MODULE MCOrganizerDrain ---------------------------
(* Instances of OrganizerDrain for TLC.                                    *)
EXTENDS OrganizerDrain, TLC
CONSTANTS j1, j2, n1, s1, s2, w1, w2

OneStableNote == (j1 :> s1)
TwoStableNotes == (j1 :> s1) @@ (j2 :> s2)
DerivedIds == Jobs \X (1..MaxAttempts) \X (0..MaxGenerations)
WorkerSymmetry == Permutations(Workers)
=============================================================================
