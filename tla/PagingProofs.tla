----------------------------- MODULE PagingProofs -----------------------------
(* Theorems about Paging: for every set of rows and timestamps, every limit   *)
(* a client gives and every default and maximum.                              *)
EXTENDS Paging, FiniteSetTheorems, TLAPS

(* What has been shown lies before the cursor, and what was there when the    *)
(* walk began was shown or lies behind it, but for the rows that moved.       *)
Split ==
  pc = "walking" =>
    /\ \A r \in seen \ moved : time[r] # None /\ ~After(Position(r), cursor)
    /\ \A r \in initial \ moved :
         time[r] # None /\ (r \in seen \/ After(Position(r), cursor))

Invariant == TypeOK /\ Split /\ ShownOnce /\ NothingMissed

-----------------------------------------------------------------------------
(* The order of positions, (t1, id1) < (t2, id2) of the list queries, is a     *)
(* strict order.                                                              *)
LEMMA LessIsStrict ==
  ASSUME NEW p \in Positions, NEW q \in Positions, NEW r \in Positions
  PROVE  /\ ~(Less(p, q) /\ Less(q, p))
         /\ ~Less(p, p)
         /\ Less(p, q) /\ Less(q, r) => Less(p, r)
<1>1. /\ p[1] \in Int /\ p[2] \in Int
      /\ q[1] \in Int /\ q[2] \in Int
      /\ r[1] \in Int /\ r[2] \in Int
  BY RowsAssumption, TimesAssumption DEF Positions
<1> QED BY <1>1 DEF Less

LEMMA PositionOfRow ==
  ASSUME TypeOK, NEW r \in Rows, time[r] # None
  PROVE  Position(r) \in Positions
<1>1. time[r] \in Times BY DEF TypeOK
<1> QED BY <1>1 DEF Position, Positions

(* A page leaves out only rows that come after its rows.                      *)
LEMMA LeftOutIsAfter ==
  ASSUME NEW rows, NEW items, NEW n, NEW m,
         IsFirst(rows, Remaining, n), IsFirst(items, rows, m),
         NEW r \in items, NEW s \in Remaining \ items
  PROVE  Less(Position(s), Position(r))
<1>1. CASE s \in rows BY <1>1 DEF IsFirst
<1>2. CASE s \notin rows BY <1>2 DEF IsFirst
<1> QED BY <1>1, <1>2

(* has_more is FALSE only if all that remains is on the page: one row more than *)
(* the page holds was asked for.                                              *)
LEMMA LastPageIsAll ==
  ASSUME TypeOK, NEW n \in Nat, NEW rows, NEW items,
         IsFirst(rows, Remaining, QueryLimit(n)), ~HasMore(rows, n),
         IsFirst(items, rows, n)
  PROVE  items = Remaining
<1>1. IsFiniteSet(Remaining)
  BY RowsAssumption, FS_Subset DEF Remaining, Present
<1>2. rows \subseteq Remaining /\ items \subseteq rows BY DEF IsFirst
<1>3. IsFiniteSet(rows) /\ IsFiniteSet(items)
      /\ Cardinality(rows) \in Nat /\ Cardinality(items) \in Nat
  BY <1>1, <1>2, FS_Subset, FS_CardinalityType
<1>4. Cardinality(rows) <= n BY <1>3 DEF HasMore
<1>5. rows = Remaining BY <1>3, <1>4 DEF IsFirst, QueryLimit
<1>6. items = rows
  <2>1. SUFFICES ASSUME items # rows PROVE FALSE OBVIOUS
  <2>2. Cardinality(items) = n BY <2>1 DEF IsFirst
  <2>3. Cardinality(items) < Cardinality(rows)
    BY <1>2, <1>3, <2>1, FS_Subset
  <2> QED BY <1>3, <1>4, <2>2, <2>3
<1> QED BY <1>5, <1>6

(* Whatever limit a client gives, a page holds at least one row.              *)
LEMMA LimitIsPositive ==
  ASSUME NEW limit \in Limits \cup {None}
  PROVE  EffectiveLimit(limit) \in Nat \ {0}
BY LimitsAssumption, NoneAssumption DEF EffectiveLimit

-----------------------------------------------------------------------------
LEMMA InvariantInit == Init => Invariant
BY DEF Init, Invariant, TypeOK, Split, ShownOnce, NothingMissed

LEMMA StartKeeps == Invariant /\ Start => Invariant'
BY DEF Start, Invariant, TypeOK, Split, ShownOnce, NothingMissed, Present, After

(* Showing rows that remain shows nothing again that did not move.            *)
LEMMA ShowsOnce ==
  ASSUME Invariant, pc = "walking", NEW items \in SUBSET Remaining, Show(items),
         UNCHANGED moved
  PROVE  /\ seen' \in SUBSET Rows /\ again' \in SUBSET Rows
         /\ ShownOnce'
<1>1. items \subseteq Rows BY DEF Remaining, Present
<1>2. seen \cap items \subseteq moved
  BY DEF Invariant, Split, Remaining
<1> QED BY <1>1, <1>2 DEF Show, Invariant, TypeOK, ShownOnce

LEMMA NextPageKeeps ==
  ASSUME Invariant, NEW limit \in Limits \cup {None}, NextPage(limit)
  PROVE  Invariant'
<1> DEFINE n == EffectiveLimit(limit)
<1>1. PICK rows \in SUBSET Remaining :
        /\ IsFirst(rows, Remaining, QueryLimit(n))
        /\ \E items \in SUBSET rows :
             /\ IsFirst(items, rows, n)
             /\ \E r \in items : IsLast(r, items) /\ cursor' = Cursor(r)
             /\ Show(items)
  BY DEF NextPage
<1>2. PICK items \in SUBSET rows :
        /\ IsFirst(items, rows, n)
        /\ \E r \in items : IsLast(r, items) /\ cursor' = Cursor(r)
        /\ Show(items)
  BY <1>1
<1>3. PICK last \in items : IsLast(last, items) /\ cursor' = Cursor(last)
  BY <1>2
<1>4. /\ pc = "walking" /\ pc' = pc
      /\ UNCHANGED <<list, time, initial, moved>>
  BY DEF NextPage
<1>5. TypeOK BY DEF Invariant
<1>6. \A r \in Remaining : /\ r \in Rows /\ time[r] # None
                           /\ Position(r) \in Positions /\ After(Position(r), cursor)
  BY <1>5, PositionOfRow DEF Remaining, Present
<1>7. last \in Remaining /\ cursor' = Position(last) /\ cursor' \in Positions
  BY <1>3, <1>6 DEF Cursor
<1>8. seen' \in SUBSET Rows /\ again' \in SUBSET Rows /\ ShownOnce'
  <2>1. items \in SUBSET Remaining OBVIOUS
  <2> QED BY <1>2, <1>4, <2>1, ShowsOnce
<1>9. TypeOK' BY <1>4, <1>5, <1>7, <1>8 DEF TypeOK
<1>10. cursor' # None
  BY <1>7, NoneAssumption DEF TypeOK, IsLast, Positions, Position, Cursor
<1>11. Split'
  <2>1. ASSUME NEW r \in seen' \ moved'
        PROVE  time'[r] # None /\ ~Less(Position(r), Position(last))
    <3>1. CASE r \in items
      <4>1. r \in Remaining BY <3>1
      <4>2. r = last \/ Less(Position(last), Position(r))
        BY <1>3, <3>1 DEF IsLast
      <4> QED BY <1>4, <1>6, <1>7, <4>1, <4>2, LessIsStrict
    <3>2. CASE r \in seen \ moved
      <4>1. time[r] # None /\ ~After(Position(r), cursor) /\ r \in Rows
        BY <1>4, <1>5, <3>2 DEF Invariant, Split, TypeOK
      <4>2. cursor # None /\ ~Less(Position(r), cursor) BY <4>1 DEF After
      <4>3. Less(Position(last), cursor) BY <1>6, <1>7, <4>2 DEF After
      <4>4. cursor \in Positions /\ Position(r) \in Positions
        BY <1>5, <4>1, <4>2, PositionOfRow DEF TypeOK
      <4> QED BY <1>4, <1>6, <1>7, <4>1, <4>2, <4>3, <4>4, LessIsStrict
    <3> QED BY <1>2, <1>4, <2>1, <3>1, <3>2 DEF Show
  <2>2. ASSUME NEW r \in initial' \ moved', r \notin seen'
        PROVE  time'[r] # None /\ Less(Position(r), Position(last))
    <3>1. r \in Rows /\ time[r] # None /\ After(Position(r), cursor)
      BY <1>2, <1>4, <1>5, <2>2 DEF Invariant, Split, Show, TypeOK
    <3>2. r \in Remaining \ items
      BY <1>2, <2>2, <3>1 DEF Remaining, Present, Show
    <3>3. Less(Position(r), Position(last))
      BY <1>1, <1>2, <3>2, LeftOutIsAfter
    <3> QED BY <1>4, <3>1, <3>3
  <2>3. \A r : Position(r)' = Position(r) BY <1>4 DEF Position
  <2>4. \A r \in initial' \ moved' : time'[r] # None
    BY <1>4 DEF Invariant, Split
  <2> QED BY <1>4, <1>7, <1>10, <2>1, <2>2, <2>3, <2>4 DEF Split, After
<1>12. NothingMissed' BY <1>4 DEF NothingMissed
<1> QED BY <1>8, <1>9, <1>11, <1>12 DEF Invariant

LEMMA LastPageKeeps ==
  ASSUME Invariant, NEW limit \in Limits \cup {None}, LastPage(limit)
  PROVE  Invariant'
<1> DEFINE n == EffectiveLimit(limit)
<1>1. PICK rows \in SUBSET Remaining :
        /\ IsFirst(rows, Remaining, QueryLimit(n))
        /\ ~HasMore(rows, n)
        /\ \E items \in SUBSET rows : IsFirst(items, rows, n) /\ Show(items)
  BY DEF LastPage
<1>2. PICK items \in SUBSET rows : IsFirst(items, rows, n) /\ Show(items)
  BY <1>1
<1>3. /\ pc = "walking" /\ pc' = "done"
      /\ UNCHANGED <<list, time, cursor, initial, moved>>
  BY DEF LastPage
<1>4. TypeOK BY DEF Invariant
<1>5. items = Remaining
  <2>1. n \in Nat BY LimitIsPositive
  <2> QED BY <1>1, <1>2, <1>4, <2>1, LastPageIsAll
<1>6. seen' \in SUBSET Rows /\ again' \in SUBSET Rows /\ ShownOnce'
  BY <1>2, <1>3, <1>5, ShowsOnce
<1>7. TypeOK' BY <1>3, <1>4, <1>6 DEF TypeOK
<1>8. Split' BY <1>3 DEF Split
<1>9. NothingMissed'
  <2>1. ASSUME NEW r \in initial \ moved PROVE r \in seen \/ r \in items
    BY <1>3, <1>4, <1>5 DEF Invariant, Split, TypeOK, Remaining, Present
  <2> QED BY <1>2, <1>3, <2>1 DEF NothingMissed, Show
<1> QED BY <1>6, <1>7, <1>8, <1>9 DEF Invariant

(* Rows that come, move or go disturb neither half: a row that comes was not  *)
(* there at the beginning, and one that moves or goes no longer counts.       *)
LEMMA RowsKeep ==
  ASSUME Invariant, NEW r \in Rows, Insert(r) \/ Touch(r) \/ Hide(r)
  PROVE  Invariant'
<1>1. TypeOK /\ Split /\ ShownOnce /\ NothingMissed BY DEF Invariant
<1>2. /\ UNCHANGED <<list, pc, cursor, seen, again, initial>>
      /\ moved \subseteq moved' /\ moved' \in SUBSET Rows
      /\ \A s \in Rows \ {r} : time'[s] = time[s]
      /\ time' \in [Rows -> Times \cup {None}]
      /\ time[r] = None \/ r \in moved'
  BY <1>1 DEF TypeOK, Insert, Touch, Hide, walk
<1>3. TypeOK' BY <1>1, <1>2 DEF TypeOK
<1>4. Split'
  <2>1. ASSUME NEW s \in Rows \ moved', time[s] # None
        PROVE  time'[s] = time[s] /\ Position(s)' = Position(s)
    BY <1>2, <2>1 DEF Position
  <2> SUFFICES ASSUME pc' = "walking"
               PROVE /\ \A s \in seen' \ moved' :
                          time'[s] # None /\ ~After(Position(s)', cursor')
                     /\ \A s \in initial' \ moved' :
                          time'[s] # None /\ (s \in seen' \/ After(Position(s)', cursor'))
    BY DEF Split, After
  <2>2. \A s \in seen' \ moved' : time'[s] # None /\ ~After(Position(s)', cursor')
    BY <1>1, <1>2, <2>1 DEF Split, TypeOK
  <2>3. \A s \in initial' \ moved' :
          time'[s] # None /\ (s \in seen' \/ After(Position(s)', cursor'))
    BY <1>1, <1>2, <2>1 DEF Split, TypeOK
  <2> QED BY <2>2, <2>3
<1>5. ShownOnce' /\ NothingMissed'
  BY <1>1, <1>2 DEF ShownOnce, NothingMissed
<1> QED BY <1>3, <1>4, <1>5 DEF Invariant

LEMMA InvariantNext == Invariant /\ [Next]_vars => Invariant'
<1> SUFFICES ASSUME Invariant, [Next]_vars PROVE Invariant' OBVIOUS
<1>1. CASE Start BY <1>1, StartKeeps
<1>2. CASE Page BY <1>2, NextPageKeeps, LastPageKeeps DEF Page
<1>3. CASE \E r \in Rows : Insert(r) \/ Touch(r) \/ Hide(r) BY <1>3, RowsKeep
<1>4. CASE UNCHANGED vars
  BY <1>4 DEF vars, walk, Invariant, TypeOK, Split, ShownOnce, NothingMissed,
              After, Position
<1> QED BY <1>1, <1>2, <1>3, <1>4 DEF Next

LEMMA InvariantHolds == Spec => []Invariant
BY InvariantInit, InvariantNext, PTL DEF Spec

(* The cursor, the rows shown and the history keep their types.               *)
THEOREM TypeCorrect == Spec => []TypeOK
<1>1. Invariant => TypeOK BY DEF Invariant
<1> QED BY <1>1, InvariantHolds, PTL

(* No walk shows a row twice that did not move, for any number of rows of the *)
(* same timestamp, also if the client changes the limit between two pages.    *)
THEOREM NoRowTwice == Spec => []ShownOnce
<1>1. Invariant => ShownOnce BY DEF Invariant
<1> QED BY <1>1, InvariantHolds, PTL

(* A walk that ends has shown every row that was there all the time and did   *)
(* not move.                                                                  *)
THEOREM NoRowMissed == Spec => []NothingMissed
<1>1. Invariant => NothingMissed BY DEF Invariant
<1> QED BY <1>1, InvariantHolds, PTL

-----------------------------------------------------------------------------
(* A walk comes to an end *)

(* The positions that the walk has still before it. *)
Ahead == {p \in Positions : After(p, cursor)}

(* A page with a cursor leaves strictly less; until the walk is over, nothing *)
(* but a page moves it, and nothing takes it back.                            *)
GoesOn ==
  /\ Page /\ pc' = "walking" => Ahead' \subseteq Ahead /\ Ahead' # Ahead
  /\ pc = "walking" /\ ~Page => Ahead' = Ahead /\ pc' = pc

LEMMA NextPageGoesOn ==
  ASSUME Invariant, NEW limit \in Limits \cup {None}, NextPage(limit)
  PROVE  Ahead' \subseteq Ahead /\ Ahead' # Ahead
<1>1. PICK rows \in SUBSET Remaining :
        \E items \in SUBSET rows : \E r \in items : cursor' = Cursor(r)
  BY DEF NextPage
<1>2. PICK last \in Remaining : cursor' = Position(last) BY <1>1 DEF Cursor
<1>3. /\ Position(last) \in Positions /\ After(Position(last), cursor)
  BY <1>2, PositionOfRow DEF Invariant, Remaining, Present
<1>4. PICK p \in Positions : p = Position(last) BY <1>3
<1>5. cursor' = p /\ p # None /\ After(p, cursor)
  BY <1>2, <1>3, <1>4, NoneAssumption DEF Positions
<1>6. cursor # None => cursor \in Positions BY DEF Invariant, TypeOK
<1>7. ASSUME NEW q \in Positions, Less(q, p) PROVE After(q, cursor)
  BY <1>5, <1>6, <1>7, LessIsStrict DEF After
<1>8. Ahead' = {q \in Positions : Less(q, p)}
  BY <1>5 DEF Ahead, After
<1>9. p \in Ahead /\ p \notin Ahead'
  BY <1>5, <1>8, LessIsStrict DEF Ahead
<1> QED BY <1>7, <1>8, <1>9 DEF Ahead

LEMMA StepGoesOn == Invariant /\ [Next]_vars => [GoesOn]_vars
<1> SUFFICES ASSUME Invariant, Next PROVE GoesOn OBVIOUS
<1>1. ASSUME Page, pc' = "walking" PROVE Ahead' \subseteq Ahead /\ Ahead' # Ahead
  <2>1. PICK limit \in Limits \cup {None} : NextPage(limit) \/ LastPage(limit)
    BY <1>1 DEF Page
  <2>2. NextPage(limit) BY <1>1, <2>1 DEF LastPage
  <2> QED BY <2>2, NextPageGoesOn
<1>2. ASSUME pc = "walking", ~Page PROVE Ahead' = Ahead /\ pc' = pc
  <2>1. PICK r \in Rows : Insert(r) \/ Touch(r) \/ Hide(r) BY <1>2 DEF Next, Start
  <2>2. cursor' = cursor /\ pc' = pc BY <2>1 DEF Insert, Touch, Hide, walk
  <2> QED BY <2>2 DEF Ahead, After
<1> QED BY <1>1, <1>2 DEF GoesOn

(* A client that follows the cursors gets ahead with every page, whatever     *)
(* limit it gives and whatever is inserted or touched meanwhile: the cursor   *)
(* of a page is a position strictly behind the one it was asked for           *)
(* (effective_limit is at least 1, has_more, encode_cursor of the last item). *)
THEOREM WalkGoesOn == Spec => [][GoesOn]_vars
BY StepGoesOn, InvariantHolds, PTL DEF Spec

(* With finitely many timestamps a walk has boundedly many pages: each takes  *)
(* from a natural number.                                                     *)
WalkIsBounded == [][Page /\ pc' = "walking" => Cardinality(Ahead') < Cardinality(Ahead)]_vars

THEOREM WalkHasBoundedPages ==
  ASSUME IsFiniteSet(Times)
  PROVE  Spec => WalkIsBounded
<1>1. IsFiniteSet(Positions) BY RowsAssumption, FS_Product DEF Positions
<1>2. ASSUME GoesOn, Page, pc' = "walking"
      PROVE  Cardinality(Ahead') < Cardinality(Ahead)
  <2>1. IsFiniteSet(Ahead) BY <1>1, FS_Subset DEF Ahead
  <2>2. Ahead' \in SUBSET Ahead /\ Ahead' # Ahead BY <1>2 DEF GoesOn
  <2>3. IsFiniteSet(Ahead') BY <2>1, <2>2, FS_Subset
  <2>4. Cardinality(Ahead) \in Nat /\ Cardinality(Ahead') \in Nat
    BY <2>1, <2>3, FS_CardinalityType
  <2> QED BY <2>1, <2>2, <2>4, FS_Subset
<1>3. [GoesOn]_vars =>
        [Page /\ pc' = "walking" => Cardinality(Ahead') < Cardinality(Ahead)]_vars
  BY <1>2
<1> QED BY <1>3, WalkGoesOn, PTL DEF WalkIsBounded
=============================================================================
