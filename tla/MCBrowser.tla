------------------------------ MODULE MCBrowser ------------------------------
(***************************************************************************)
(* The browser for TLC: one capture in two tabs; three tabs that need the  *)
(* key, with two writes each; two runs of the intents to undo a change, to *)
(* organize again, or to delete the capture with what it inserted; three   *)
(* notes, one result per page, one edit and one use of the switch; and an  *)
(* editor with one edit, one click, one writer elsewhere and one answer or *)
(* load that is lost.                                                      *)
(***************************************************************************)
EXTENDS Browser, TLC

CONSTANTS t1, t2, t3, c1, seen, cut, w1, w2

\* Once the server has the capture, which it has for good, NothingLost and
\* SyncedIsOnServer can fail no more: from there on a second tab is not followed.
OneTabOnceServed ==
  part = "outbox" => server[c1] = "none" \/ \E t \in Tabs : tab[t].is = "closed"

\* Bound: in one behaviour the owner undoes a change or deletes the capture,
\* but not both.
Untouched(i) ==
  /\ local[i].state = "none" /\ stale[i] = {} /\ {a \in asked : a[1] = i} = {}
  /\ \A r \in Runs : run[r].pc # "idle" => run[r].id # i
UndoOrDelete == part = "actions" => Untouched(seen) \/ (Untouched("delete") /\ Untouched(cut))

\* Two of the tabs are alike, and the two words and writes: they are exchanged
\* together, so the key has one exchange where it could have more.
Symmetry ==
  {p @@ [x \in {w1, w2} |-> IF p[t1] = t1 THEN x ELSE IF x = w1 THEN w2 ELSE w1]
     : p \in Permutations({t1, t2})}
=============================================================================
