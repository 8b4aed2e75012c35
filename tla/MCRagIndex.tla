----------------------------- MODULE MCRagIndex -----------------------------
(* Instances of RagIndex for TLC.  Note ids are numbers, so only the other   *)
(* ids are interchangeable.                                                 *)
EXTENDS RagIndex, TLC
CONSTANTS g1, g2, k1, k2, t1, t2

IdSymmetry == {p @@ q @@ r : p \in Permutations(Gens), q \in Permutations(Keys),
                             r \in Permutations(Targets)}
=============================================================================
