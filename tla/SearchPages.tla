---------------------------- MODULE SearchPages -----------------------------
(***************************************************************************)
(* The pages of one private search as the server cuts them.  Every request  *)
(* searches the whole library again; the page cursor names the last result  *)
(* the client was given, by its note, revision and score, and is signed     *)
(* together with the query and the filters.  A cursor whose result is no    *)
(* longer there as it was starts over at the first page.                   *)
(*                                                                         *)
(* Both clients send no privacy scope, so that their searches are lexical   *)
(* only.  Abstracted: the query is fixed and a note's score stands for how  *)
(* well it matches (0: not at all); equal scores go by id, as equal times   *)
(* of update do; the only filter is whether archived notes are included.   *)
(***************************************************************************)
EXTENDS Integers, FiniteSets

CONSTANTS
  Notes,      \* note ids, numbers
  MaxScore,   \* the best score
  Limit,      \* results per page (50 in both clients)
  MaxEdits    \* bound: edits of notes during the search

SearchAssumption ==
  /\ Notes \subseteq Nat \ {0} /\ IsFiniteSet(Notes)
  /\ MaxScore \in Nat \ {0} /\ Limit \in Nat \ {0} /\ MaxEdits \in Nat

VARIABLE note   \* what a search reads of each note

Filters == {"live", "all"}
NoCursor == [note |-> 0, rev |-> 0, score |-> 0, filter |-> "live"]
Cursors == [note : Notes \cup {0}, rev : Nat, score : 0 .. MaxScore, filter : Filters]

NoteType == [score : 0 .. MaxScore, archived : BOOLEAN, rev : Nat]
Edits == Cardinality({e \in Notes \X (1 .. MaxEdits) : e[2] <= note[e[1]].rev})

Edited(n) ==
  /\ Edits < MaxEdits
  /\ \E score \in 0 .. MaxScore, archived \in BOOLEAN :
       note' = [note EXCEPT ![n] = [score |-> score, archived |-> archived, rev |-> @.rev + 1]]

Matches(c, filter) == c.score > 0 /\ (filter = "all" \/ ~c.archived)
Found(filter) == {n \in Notes : Matches(note[n], filter)}
\* The order of the results: mergedResponse.
Before(m, n) ==
  note[m].score > note[n].score \/ (note[m].score = note[n].score /\ m < n)

\* (mutant) the last result is found by its note alone.
StandsById(c) == c.note \in Found(c.filter)
\* privateSearchBoundaryMatches
Stands(c) ==
  c.note \in Found(c.filter) /\ note[c.note].rev = c.rev /\ note[c.note].score = c.score

\* What is left to give: all of it without a cursor that still stands.
Pool(filter, c) ==
  IF c # NoCursor /\ Stands(c) THEN {n \in Found(filter) : Before(c.note, n)} ELSE Found(filter)

\* privateSearchPageWindow: the first results of the pool, and the cursor if
\* there are more.
Page(filter, c) ==
  LET pool == Pool(filter, c)
      items == {n \in pool : Cardinality({m \in pool : Before(m, n)}) < Limit}
      last == CHOOSE n \in items : \A m \in items \ {n} : Before(m, n)
  IN [items |-> items,
      cursor |-> IF items = pool THEN NoCursor
                 ELSE [note |-> last, rev |-> note[last].rev, score |-> note[last].score,
                       filter |-> filter]]

\* The signature covers the filters: another scope is refused.
Admitted(filter, c) == c = NoCursor \/ c.filter = filter
=============================================================================
