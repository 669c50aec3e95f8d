-------------------------------- MODULE Paging --------------------------------
(****************************************************************************)
(* A user reads a list page by page while others write its rows.            *)
(*                                                                          *)
(* Every list function of the repositories asks for limit + 1 rows after    *)
(* the cursor, the id of the last row shown (utils/pagination.ts), in the   *)
(* order safeOrderBy makes of the request.  The pages of the client         *)
(* (DataTable, useList, useInfiniteList) ask for the next page with the     *)
(* cursor of the last answer; a search starts again, and a new order starts *)
(* again on the page that accumulates its rows but keeps the cursor on the  *)
(* pages that show one page at a time.                                      *)
(*                                                                          *)
(* Rows are numbered by id.  A row has a key, its value in the field the    *)
(* list is sorted by.  That field is all that the query orders by: how rows *)
(* of the same value come is up to the database, and may differ from one    *)
(* query to the next.                                                       *)
(*                                                                          *)
(* The specification is PagingSpec, so that a module may extend this one    *)
(* and that of a service.                                                   *)
(****************************************************************************)
EXTENDS Integers, FiniteSets, Lists

CONSTANTS
  Keys,       \* the values of the field, 1..n
  RowCount,   \* the rows there can ever be
  Limit,      \* the rows of a page, between 1 and MAX_LIMIT
  Changes     \* bound: writes of other users, and new orders

ASSUME PagingAssumption ==
  /\ RowCount \in Nat
  /\ Limit \in Nat \ {0}
  /\ Keys \subseteq Int /\ 1 \in Keys
  /\ Changes \in Nat

Ids == 1..RowCount
NoCursor == 0

VARIABLES
  list,     \* what the list can be sorted by, how rows leave, if pages add up
  sorted,   \* the kind of field it is sorted by, and the direction
  state,    \* of each row: absent, listed, hidden or erased
  key,      \* of each row
  cursor,   \* nextCursor of the last answer
  ended,    \* the last answer had no next page
  shown,    \* history: how often each row was shown in this walk, 2 or more as 2
  stayed,   \* history: the rows listed and not moved since the walk began
  tied,     \* history: the rows that shared the value of a cursor when the
            \* next page was asked for
  slipped,  \* history: a page was asked for from a cursor that is hidden
  upset,    \* history: the cursor was moved, erased, or kept by a new order
  changes   \* history: for the bound

rows == <<state, key>>
walk == <<cursor, ended, shown, stayed, tied, slipped, upset>>
pagingVars == <<list, sorted, rows, walk, changes>>

-----------------------------------------------------------------------------
(* What a list is sorted by                                                 *)

\* safeOrderBy.
SafeOrderBy(l, requested) ==
  IF requested \in l.sorts THEN requested ELSE l.fallback

\* What a write does to the field: id and createdAt never change, a new row
\* is the youngest, and updatedAt makes a changed row the youngest.
Kind(field) ==
  CASE field = "id" -> "identity"
    [] field \in {"createdAt", "timestamp"} -> "arrival"
    [] field = "updatedAt" -> "touch"
    [] OTHER -> "value"

\* A page may ask for a field that the list does not have.
Kinds(l) == {Kind(SafeOrderBy(l, f)) : f \in l.sorts \cup {"unknown"}}

Hides(l) == l.leave \in {"deletedAt", "status", "expiresAt"}
Erases(l) == l.leave = "delete"

ListingOf(l, addsUp) ==
  [kinds  |-> Kinds(l),
   leave  |-> CASE Hides(l) -> "hide" [] Erases(l) -> "erase" [] OTHER -> "never",
   addsUp |-> addsUp]

-----------------------------------------------------------------------------
(* The query                                                                *)

\* orderBy: by the field alone.  Ids are unique, other values need not be.
Rank(r) == IF sorted.kind = "identity" THEN r ELSE key[r]
Sooner(r, s) ==
  IF sorted.ascending THEN Rank(r) < Rank(s) ELSE Rank(r) > Rank(s)
Listed == {r \in Ids : state[r] = "listed"}
KeysOf(st) ==
  {k \in [Ids -> Keys] : \A r \in Ids : st[r] = "absent" => k[r] = 1}
Newest(k) == \A r \in Ids : state[r] # "absent" => key[r] <= k

\* take: the sets of n rows of S that some order of the ties puts first, and
\* the rows of such a set that one puts last.
Size(S, n) == IF Cardinality(S) < n THEN Cardinality(S) ELSE n
Firsts(S, n) ==
  {P \in SUBSET S : /\ Cardinality(P) = Size(S, n)
                    /\ \A p \in P, q \in S \ P : ~Sooner(q, p)}
Lasts(P) == {m \in P : \A p \in P : ~Sooner(m, p)}

Beyond(c) == {r \in Listed : Sooner(c, r)}
Same(c) == {r \in Listed : Rank(r) = Rank(c)}

\* The rows that may come with the cursor's value: of several any, for their
\* order in this query need not be that of the last; of one, the cursor, none.
Ties(c) == IF Same(c) \subseteq {c} THEN {} ELSE Same(c)

\* What may follow the cursor, whose row skip drops.  If that row has left the
\* list, it may still be found in the table, and skip drops another one; or it
\* is not found, and nothing follows.  An erased row is not found.
From(c) == {Beyond(c) \cup T : T \in SUBSET Ties(c)}
Following(c) ==
  IF c = NoCursor THEN {Listed}
  ELSE CASE state[c] = "listed" -> From(c)
         [] state[c] = "hidden" ->
              {{}} \cup UNION {{S \ F : F \in Firsts(S, 1)} : S \in From(c)}
         [] OTHER -> {{}}

MutantTakesLimit(S) == Firsts(S, Limit)
Taken(S) == Firsts(S, Limit + 1)

HasNext(taken) == Cardinality(taken) > Limit
Pages(taken) == Firsts(taken, Limit)

-----------------------------------------------------------------------------
(* The client                                                               *)

Change == /\ changes < Changes
          /\ changes' = changes + 1

Fresh(keeps) ==
  /\ ended' = FALSE
  /\ shown' = [r \in Ids |-> 0]
  /\ stayed' = {r \in Ids : state'[r] = "listed"}
  /\ tied' = {}
  /\ slipped' = FALSE
  /\ upset' = keeps
  /\ cursor' = IF keeps THEN cursor ELSE NoCursor

\* Ties can be shown any number of times; more than once is counted as twice.
Again(n) == IF n = 0 THEN 1 ELSE 2

\* One answer of the server: useList, or fetchNextPage of useInfiniteList.
NextPage ==
  /\ ~ended
  /\ \E after \in Following(cursor) : \E taken \in Taken(after) :
       \E page \in Pages(taken) :
         /\ shown' = [r \in Ids |->
                        IF r \in page THEN Again(shown[r]) ELSE shown[r]]
         /\ ended' = ~HasNext(taken)
         /\ cursor' \in IF HasNext(taken) THEN Lasts(page) ELSE {cursor}
  /\ slipped' = (slipped \/ (cursor # NoCursor /\ state[cursor] = "hidden"))
  /\ tied' = IF cursor = NoCursor THEN tied ELSE tied \cup Ties(cursor)
  /\ UNCHANGED <<list, sorted, rows, stayed, upset, changes>>

\* handleSearch, or an order on the page that accumulates: from the start.
Restart ==
  /\ cursor # NoCursor \/ ended
  /\ UNCHANGED <<list, sorted, rows, changes>>
  /\ Fresh(FALSE)

\* handleSort: the keys are those of the new field.
Sort(kind, ascending) ==
  /\ kind \in list.kinds
  /\ sorted' = [kind |-> kind, ascending |-> ascending]
  /\ key' \in KeysOf(state)
  /\ Change
  /\ UNCHANGED <<list, state>>
  /\ Fresh(~list.addsUp /\ cursor # NoCursor)

-----------------------------------------------------------------------------
(* The other users                                                          *)

Write == /\ Change
         /\ UNCHANGED <<list, sorted, cursor, ended, shown, tied, slipped>>

Leaves(r) == stayed' = stayed \ {r}
Disturbs(r) == upset' = (upset \/ r = cursor)

Insert(r, k) ==
  /\ state[r] = "absent"
  /\ sorted.kind \in {"arrival", "touch"} => Newest(k)
  /\ Write
  /\ state' = [state EXCEPT ![r] = "listed"]
  /\ key' = [key EXCEPT ![r] = k]
  /\ UNCHANGED <<stayed, upset>>

\* Only a change of the field the list is sorted by matters.
Update(r, k) ==
  /\ r \in Listed
  /\ \/ sorted.kind = "value"
     \/ sorted.kind = "touch" /\ Newest(k)
  /\ Write
  /\ key' = [key EXCEPT ![r] = k]
  /\ Leaves(r)
  /\ Disturbs(r)
  /\ UNCHANGED state

\* softDelete, or a status or an expiry that takes the row out.
Hide(r) ==
  /\ list.leave = "hide"
  /\ r \in Listed
  /\ Write
  /\ state' = [state EXCEPT ![r] = "hidden"]
  /\ Leaves(r)
  /\ UNCHANGED <<key, upset>>

Erase(r) ==
  /\ list.leave = "erase"
  /\ r \in Listed
  /\ Write
  /\ state' = [state EXCEPT ![r] = "erased"]
  /\ Leaves(r)
  /\ Disturbs(r)
  /\ UNCHANGED key

-----------------------------------------------------------------------------

PagingInit ==
  /\ \E l \in Lists, addsUp \in BOOLEAN : list = ListingOf(l, addsUp)
  /\ sorted \in [kind : list.kinds, ascending : BOOLEAN]
  /\ state \in [Ids -> {"absent", "listed"}]
  /\ key \in KeysOf(state)
  /\ cursor = NoCursor
  /\ ended = FALSE
  /\ shown = [r \in Ids |-> 0]
  /\ stayed = Listed
  /\ tied = {}
  /\ slipped = FALSE
  /\ upset = FALSE
  /\ changes = 0

PagingNext ==
  \/ NextPage
  \/ Restart
  \/ \E kind \in list.kinds, up \in BOOLEAN : Sort(kind, up)
  \/ \E r \in Ids, k \in Keys : Insert(r, k) \/ Update(r, k)
  \/ \E r \in Ids : Hide(r) \/ Erase(r)

PagingSpec == PagingInit /\ [][PagingNext]_pagingVars

-----------------------------------------------------------------------------

(* A walk through a list shows no row twice that stays where it is, and at  *)
(* its end it has shown all of them, while other rows come, move and go     *)
(* (buildCursorPaginatedResponse, safeOrderBy and the pages of the client). *)
(* What ends the promise: for a row, that it shares its value with a cursor *)
(* the next page was asked for from; for completeness, that the cursor had  *)
(* left the list; for all, that the cursor moved or was erased, or was kept *)
(* across a change of the order.                                            *)
StayersSeenOnce ==
  ~upset =>
    \A r \in stayed \ tied :
      /\ shown[r] <= 1
      /\ ended /\ ~slipped => shown[r] = 1
===============================================================================
