------------------------------- MODULE Paging -------------------------------
(***************************************************************************)
(* The lists of the read API and the walk of a client through their pages.  *)
(* A list is ordered by a timestamp and an id, a cursor is the position of  *)
(* the last row shown, and rows come, move and disappear between two pages. *)
(*                                                                         *)
(* A timestamp is the start of the transaction that wrote it: a row may     *)
(* appear, or move, below rows that are there already.                      *)
(* Findings are listed in ascending order, which is the same walk with the  *)
(* order reversed.                                                          *)
(***************************************************************************)
EXTENDS Integers, FiniteSets

CONSTANTS Rows,          \* the ids; their order is the second part of the order
          Times,
          Limits,        \* values of the parameter "limit"
          DefaultLimit, MaxLimit,
          None

ASSUME RowsAssumption == Rows \subseteq Int /\ IsFiniteSet(Rows)
ASSUME TimesAssumption == Times \subseteq Int
ASSUME LimitsAssumption ==
  /\ Limits \subseteq Int
  /\ MaxLimit \in Nat \ {0}
  /\ DefaultLimit \in 1..MaxLimit
ASSUME NoneAssumption ==
  /\ None \notin Times \cup Limits
  /\ None \notin Times \X Rows

VARIABLES
  list,     \* which list is walked
  time,     \* created_at, updated_at or sort_index of each row; None: no such row
  pc, cursor,
  seen, again,      \* history of the walk: rows shown, and shown twice
  initial, moved    \* history: rows there when it began, rows moved or hidden since

walk == <<pc, cursor, seen, again, initial, moved>>
vars == <<list, time, walk>>

Lists == {"board_runs", "api_tokens", "findings", "board_projects", "repositories"}
Positions == Times \X Rows

TypeOK ==
  /\ list \in Lists
  /\ time \in [Rows -> Times \cup {None}]
  /\ pc \in {"idle", "walking", "done"}
  /\ cursor \in Positions \cup {None}
  /\ seen \in SUBSET Rows /\ again \in SUBSET Rows
  /\ initial \in SUBSET Rows /\ moved \in SUBSET Rows

(* Ordered by updated_at, which every upsert sets, and not by created_at. *)
KeyMoves == list \in {"board_projects", "repositories"}

(* Only the list of repositories is filtered, by the ids that GitHub gave for *)
(* this very page.                                                           *)
IsFiltered == list = "repositories"

Present == {r \in Rows : time[r] # None}
Position(r) == <<time[r], r>>

(* (created_at, id) < ($2, $3) *)
Less(p, q) == p[1] < q[1] \/ (p[1] = q[1] /\ p[2] < q[2])

(* Mutant: the cursor does not reach the query. *)
FromTheTop(p, c) == TRUE

(* Mutant: <= for <. *)
AfterOrAt(p, c) == c = None \/ p = c \/ Less(p, c)

(* The rows after a cursor, in descending order. *)
After(p, c) == c = None \/ Less(p, c)

Remaining == {r \in Present : After(Position(r), cursor)}

(* ORDER BY ... DESC LIMIT n: page is what it returns of rows. *)
IsFirst(page, rows, n) ==
  /\ page \subseteq rows
  /\ \A r \in page, s \in rows \ page : Less(Position(s), Position(r))
  /\ Cardinality(page) <= n
  /\ page # rows => Cardinality(page) = n

(* effective_limit *)
EffectiveLimit(limit) ==
  CASE limit = None -> DefaultLimit
    [] limit # None /\ limit < 1 -> 1
    [] OTHER -> IF limit > MaxLimit THEN MaxLimit ELSE limit

(* Mutant: the row that tells that there is more is not asked for. *)
NoMore(limit) == limit

(* One row more than the page tells whether there is another page. *)
QueryLimit(limit) == limit + 1
HasMore(rows, limit) == Cardinality(rows) > limit

(* encode_cursor, of the last item of the page *)
IsLast(r, items) == r \in items /\ \A s \in items : s = r \/ Less(Position(r), Position(s))
Cursor(r) == Position(r)

Init ==
  /\ list \in Lists
  /\ time \in [Rows -> Times \cup {None}]
  /\ pc = "idle" /\ cursor = None
  /\ seen = {} /\ again = {} /\ initial = {} /\ moved = {}

(* The request without a cursor begins a walk; it is answered by NextPage. *)
Start ==
  /\ pc # "walking"
  /\ pc' = "walking"
  /\ cursor' = None
  /\ seen' = {} /\ again' = {} /\ moved' = {}
  /\ initial' = Present
  /\ UNCHANGED <<list, time>>

Show(items) ==
  /\ seen' = seen \cup items
  /\ again' = again \cup (seen \cap items)

(* A page with a cursor for the next one. *)
NextPage(limit) ==
  LET n == EffectiveLimit(limit)
  IN  /\ pc = "walking"
      /\ \E rows \in SUBSET Remaining :
           /\ IsFirst(rows, Remaining, QueryLimit(n))
           /\ HasMore(rows, n)
           /\ \E items \in SUBSET rows :
                /\ IsFirst(items, rows, n)
                /\ \E r \in items : IsLast(r, items) /\ cursor' = Cursor(r)
                /\ Show(items)
      /\ UNCHANGED <<list, time, pc, initial, moved>>

(* The last page. *)
LastPage(limit) ==
  LET n == EffectiveLimit(limit)
  IN  /\ pc = "walking"
      /\ \E rows \in SUBSET Remaining :
           /\ IsFirst(rows, Remaining, QueryLimit(n))
           /\ ~HasMore(rows, n)
           /\ \E items \in SUBSET rows : IsFirst(items, rows, n) /\ Show(items)
      /\ pc' = "done"
      /\ UNCHANGED <<list, time, cursor, initial, moved>>

(* A row is inserted, or GitHub lists a repository again. *)
Insert(r) ==
  /\ time[r] = None
  /\ \E t \in Times : time' = [time EXCEPT ![r] = t]
  /\ UNCHANGED <<list, walk>>

(* An upsert sets updated_at to NOW(), the start of its transaction. *)
Touch(r) ==
  /\ KeyMoves
  /\ time[r] # None
  /\ \E t \in Times \ {time[r]} : time' = [time EXCEPT ![r] = t]
  /\ moved' = moved \cup {r}
  /\ UNCHANGED <<list, pc, cursor, seen, again, initial>>

(* A repository is no longer among those of the user. *)
Hide(r) ==
  /\ IsFiltered
  /\ time[r] # None
  /\ time' = [time EXCEPT ![r] = None]
  /\ moved' = moved \cup {r}
  /\ UNCHANGED <<list, pc, cursor, seen, again, initial>>

Page == \E limit \in Limits \cup {None} : NextPage(limit) \/ LastPage(limit)

Next ==
  \/ Start
  \/ Page
  \/ \E r \in Rows : Insert(r) \/ Touch(r) \/ Hide(r)

Spec == Init /\ [][Next]_vars

(* The client asks for the next page as long as there is one. *)
FairSpec == Spec /\ WF_vars(Page)

-----------------------------------------------------------------------------
(* Properties *)

(* A row that does not move is shown at most once in a walk, whatever rows    *)
(* of the same timestamp there are, and whatever rows come meanwhile (the    *)
(* list queries with encode_cursor and decode_cursor).                       *)
ShownOnce == again \subseteq moved

(* At the end of a walk every row that was there from its beginning, and did *)
(* not move, has been shown: for runs, API tokens and findings that is every *)
(* row (the list handlers with limit + 1 and has_more).                      *)
NothingMissed == pc = "done" => initial \ moved \subseteq seen

(* Every walk ends, even if rows are touched or inserted all the time.       *)
WalkEnds == pc = "walking" ~> pc = "done"
=============================================================================
