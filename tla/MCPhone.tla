------------------------------- MODULE MCPhone -------------------------------
(***************************************************************************)
(* The phone for TLC: one capture with two photos on a phone two accounts  *)
(* use; two captures written by one account; two requests over two         *)
(* accounts; and a search over three notes, one result per page, two pages *)
(* at most, one edit, two searches.                                        *)
(***************************************************************************)
EXTENDS Phone, TLC

TheOwner == [c \in Captures |-> CHOOSE p \in Profiles : TRUE]
TheCapture == [a \in Attachments |-> CHOOSE c \in Captures : TRUE]
TheWriter == [c \in Drafts |-> CHOOSE p \in Writers : TRUE]

\* Bound: a life of the app sees so many generations of its session.
FewGenerations == part = "auth" => generation <= 3

Symmetry == Permutations(Requests) \cup Permutations(Users)
=============================================================================
