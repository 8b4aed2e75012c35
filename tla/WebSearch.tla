----------------------------- MODULE WebSearch ------------------------------
(***************************************************************************)
(* The results list of the web library: usePrivateSearch over the pages of  *)
(* SearchPages.  The hook keeps one operation counter; every request takes  *)
(* the next number and its answer counts only while it is the latest (here: *)
(* a request or an answer is marked as the latest until there is another).  *)
(* The component is remounted for a new query, not for the archive switch:  *)
(* that runs the first page again inside the same hook.                     *)
(***************************************************************************)
EXTENDS SearchPages

CONSTANT MaxToggles   \* bound: uses of the archive switch

TogglesAssumption == MaxToggles \in Nat

VARIABLES
  hook,     \* the hook's state: the filter asked for and what is shown
  sent,     \* requests at the server
  answered  \* answers on their way back

vars == <<note, hook, sent, answered>>

Nothing == [items |-> {}, cursor |-> NoCursor, filter |-> "none", base |-> <<>>]
Unanswered(r) == [latest |-> r.latest, append |-> r.append, ok |-> FALSE]
Outdated(messages) == {[m EXCEPT !.latest = FALSE] : m \in messages}

\* ++operation.current, and the request.
Run(h, filter, c, append) ==
  /\ hook' = h
  /\ sent' = Outdated(sent) \cup
       {[latest |-> TRUE, filter |-> filter, cursor |-> c, append |-> append]}
  /\ answered' = Outdated(answered)

-----------------------------------------------------------------------------

Edit(n) == Edited(n) /\ UNCHANGED <<hook, sent, answered>>

\* The switch: the effect runs again; what is shown stays until the first page
\* is there.
Toggle ==
  /\ hook.toggles < MaxToggles
  /\ LET other == IF hook.filter = "live" THEN "all" ELSE "live" IN
     Run([hook EXCEPT !.filter = other, !.loading = TRUE,
                      !.toggles = @ + 1, !.failed = FALSE], other, NoCursor, FALSE)
  /\ UNCHANGED note

\* The button under a list with more results.
LoadMore ==
  /\ hook.shown.cursor # NoCursor /\ ~hook.more
  /\ Run([hook EXCEPT !.more = TRUE], hook.filter, hook.shown.cursor, TRUE)
  /\ UNCHANGED note

\* refresh, offered when there is an error and no list.
Retry ==
  /\ hook.failed /\ hook.shown = Nothing /\ ~hook.loading
  /\ Run([hook EXCEPT !.loading = TRUE, !.failed = FALSE], hook.filter, NoCursor, FALSE)
  /\ UNCHANGED note

\* The handler; it refuses a cursor of other filters.
Serve(r) ==
  /\ r \in sent
  /\ sent' = sent \ {r}
  /\ answered' = answered \cup
       {IF Admitted(r.filter, r.cursor)
        THEN [latest |-> r.latest, append |-> r.append, ok |-> TRUE, filter |-> r.filter, base |-> note,
              page |-> Page(r.filter, r.cursor)]
        ELSE Unanswered(r)}
  /\ UNCHANGED <<note, hook>>

Lose(r) ==
  /\ r \in sent
  /\ sent' = sent \ {r}
  /\ answered' = answered \cup {Unanswered(r)}
  /\ UNCHANGED <<note, hook>>

\* setData: an appended page adds the results that are not listed yet.
Shown(a) ==
  IF a.append /\ hook.shown # Nothing
  THEN [hook.shown EXCEPT !.items = @ \cup a.page.items, !.cursor = a.page.cursor]
  ELSE [items |-> a.page.items, cursor |-> a.page.cursor, filter |-> a.filter, base |-> a.base]

\* (mutant) whichever answer comes is taken.
HearAny(a) ==
  /\ a \in answered
  /\ answered' = answered \ {a}
  /\ hook' =
       [hook EXCEPT
              !.shown = IF a.ok THEN Shown(a) ELSE IF a.append THEN @ ELSE Nothing,
              !.failed = ~a.ok /\ ~a.append,
              !.more = IF a.append THEN FALSE ELSE @,
              !.loading = IF a.append THEN @ ELSE FALSE]
  /\ UNCHANGED <<note, sent>>
\* An answer that is no longer the latest operation's changes nothing.
Hear(a) ==
  /\ a \in answered
  /\ answered' = answered \ {a}
  /\ hook' =
       IF ~a.latest THEN hook
       ELSE [hook EXCEPT
              !.shown = IF a.ok THEN Shown(a) ELSE IF a.append THEN @ ELSE Nothing,
              !.failed = ~a.ok /\ ~a.append,
              !.more = IF a.append THEN FALSE ELSE @,
              !.loading = IF a.append THEN @ ELSE FALSE]
  /\ UNCHANGED <<note, sent>>

-----------------------------------------------------------------------------

\* The list has just been mounted for a query.
Init ==
  /\ note \in [Notes -> [score : 0 .. MaxScore, archived : BOOLEAN, rev : {0}]]
  /\ hook = [filter |-> "live", shown |-> Nothing, loading |-> TRUE, more |-> FALSE,
             failed |-> FALSE, toggles |-> 0]
  /\ sent = {[latest |-> TRUE, filter |-> "live", cursor |-> NoCursor, append |-> FALSE]}
  /\ answered = {}

Answer == \E r \in sent : Serve(r)
Deliver == \E a \in answered : Hear(a)

Next ==
  \/ \E n \in Notes : Edit(n)
  \/ Toggle \/ LoadMore \/ Retry \/ Answer \/ Deliver
  \/ \E r \in sent : Lose(r)

Spec == Init /\ [][Next]_vars

-----------------------------------------------------------------------------

TypeOK ==
  /\ note \in [Notes -> NoteType]
  /\ hook.filter \in Filters /\ hook.toggles \in 0 .. MaxToggles
  /\ {hook.loading, hook.more, hook.failed} \subseteq BOOLEAN
  /\ hook.shown.items \subseteq Notes /\ hook.shown.cursor \in Cursors
  /\ \A r \in sent : r.filter \in Filters /\ r.cursor \in Cursors
  /\ Cardinality({m \in sent \cup answered : m.latest}) <= 1

\* A list that says there are no more results has all of them: whatever was
\* edited between its pages, no note that matched when the first page was cut
\* and has not changed since is missing, in spite of the reordering.
EndedIsComplete ==
  LET shown == hook.shown IN
  shown # Nothing /\ shown.cursor = NoCursor =>
    \A n \in Notes : Matches(shown.base[n], shown.filter) /\ note[n] = shown.base[n] => n \in shown.items

\* The user who keeps asking for more comes to the end of the list, also when
\* notes change meanwhile and the server starts over.
ReachesTheEnd == <>[](hook.shown # Nothing /\ hook.shown.cursor = NoCursor)
=============================================================================
