---------------------------- MODULE PhoneSearch -----------------------------
(***************************************************************************)
(* The search of the phone: AppModel.search and loadMoreSearch over the     *)
(* pages of SearchPages.  A new search cancels the one in flight and moves  *)
(* the search epoch; a page is appended only to the list whose cursor it    *)
(* was asked with, and never when it repeats a result.                     *)
(***************************************************************************)
EXTENDS SearchPages

CONSTANTS
  MaxPages,     \* SearchPaginationState.maximumPageCount (20 in the code)
  MaxSearches   \* bound: searches the user starts

PagesAssumption == MaxPages \in Nat \ {0} /\ MaxSearches \in Nat

VARIABLES
  model,    \* AppModel: the request, the pagination state, what is loading
  sent,     \* requests at the server; only those of this epoch are kept as current
  answered  \* answers on their way back

vars == <<note, model, sent, answered>>

NoList == [items |-> {}, cursor |-> NoCursor, pages |-> 0, filter |-> "none", base |-> <<>>]
Failure(r) == [current |-> r.current, asked |-> r.cursor, ok |-> FALSE]
Outdated(messages) == {[m EXCEPT !.current = FALSE] : m \in messages}
Ask(filter, c) == [current |-> TRUE, filter |-> filter, cursor |-> c]

-----------------------------------------------------------------------------

Edit(n) == Edited(n) /\ UNCHANGED <<model, sent, answered>>

\* search: another filter, or the same search again.
Search(filter) ==
  /\ model.searches < MaxSearches
  /\ model' = [filter |-> filter, list |-> NoList, searching |-> TRUE, more |-> FALSE,
               failed |-> FALSE, searches |-> model.searches + 1]
  /\ sent' = Outdated(sent) \cup {Ask(filter, NoCursor)}
  /\ answered' = Outdated(answered)
  /\ UNCHANGED note

CanLoadMore == model.list.cursor # NoCursor /\ model.list.pages < MaxPages

\* loadMoreSearch, by the button or by the retry under its failure.
LoadMore ==
  /\ CanLoadMore /\ ~model.searching /\ ~model.more
  /\ model' = [model EXCEPT !.more = TRUE, !.failed = FALSE]
  /\ sent' = sent \cup {Ask(model.filter, model.list.cursor)}
  /\ UNCHANGED <<note, answered>>

Serve(r) ==
  /\ r \in sent
  /\ sent' = sent \ {r}
  /\ answered' = answered \cup
       {IF Admitted(r.filter, r.cursor)
        THEN [current |-> r.current, asked |-> r.cursor, ok |-> TRUE, filter |-> r.filter,
              base |-> note, page |-> Page(r.filter, r.cursor)]
        ELSE Failure(r)}
  /\ UNCHANGED <<note, model>>

Lose(r) ==
  /\ r \in sent
  /\ sent' = sent \ {r}
  /\ answered' = answered \cup {Failure(r)}
  /\ UNCHANGED <<note, model>>

First(a) ==
  [items |-> a.page.items, cursor |-> a.page.cursor, pages |-> 1, filter |-> a.filter, base |-> a.base]

\* SearchPaginationState.append: refuses a repeated result.
Appends(a) == a.page.items \cap model.list.items = {}
Appended(a) ==
  [model.list EXCEPT !.items = @ \cup a.page.items, !.cursor = a.page.cursor, !.pages = @ + 1]

\* The answer of the first page, or of one more.
Hear(a) ==
  /\ a \in answered
  /\ answered' = answered \ {a}
  /\ model' =
       IF ~a.current THEN model
       ELSE IF a.asked = NoCursor
       THEN [model EXCEPT !.searching = FALSE, !.list = IF a.ok THEN First(a) ELSE NoList]
       ELSE IF a.ok /\ Appends(a) THEN [model EXCEPT !.more = FALSE, !.list = Appended(a)]
       ELSE [model EXCEPT !.more = FALSE, !.failed = TRUE]
  /\ UNCHANGED <<note, sent>>

-----------------------------------------------------------------------------

Init ==
  /\ note \in [Notes -> [score : 0 .. MaxScore, archived : BOOLEAN, rev : {0}]]
  /\ model = [filter |-> "live", list |-> NoList, searching |-> FALSE, more |-> FALSE,
              failed |-> FALSE, searches |-> 0]
  /\ sent = {} /\ answered = {}

Answer == \E r \in sent : Serve(r)
Deliver == \E a \in answered : Hear(a)

Next ==
  \/ \E n \in Notes : Edit(n)
  \/ \E filter \in Filters : Search(filter)
  \/ LoadMore \/ Answer \/ Deliver
  \/ \E r \in sent : Lose(r)

Spec == Init /\ [][Next]_vars

-----------------------------------------------------------------------------

TypeOK ==
  /\ note \in [Notes -> NoteType]
  /\ model.filter \in Filters /\ model.searches \in 0 .. MaxSearches
  /\ {model.searching, model.more, model.failed} \subseteq BOOLEAN
  /\ model.list.items \subseteq Notes /\ model.list.cursor \in Cursors
  /\ model.list.pages \in 0 .. MaxPages
  /\ \A r \in sent : r.filter \in Filters /\ r.cursor \in Cursors
  /\ \A a \in answered : a.asked \in Cursors

\* A list without more results has every note that matched when its first page
\* was cut and has not changed since.
EndedIsComplete ==
  LET list == model.list IN
  list # NoList /\ list.cursor = NoCursor =>
    \A n \in Notes : Matches(list.base[n], list.filter) /\ note[n] = list.base[n] => n \in list.items

\* The list is always that of the search asked for last, however late the
\* answers of earlier searches come.
ListIsOfThisSearch == model.list # NoList => model.list.filter = model.filter
=============================================================================
