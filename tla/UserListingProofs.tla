-------------------------- MODULE UserListingProofs --------------------------
(* That a walk by cursor without a search gives every user who stays, and     *)
(* none twice, and that a walk by page number in the order of ids is wrong    *)
(* about one user at most for each that comes or goes, for any users, page    *)
(* sizes and orders of coming and going.                                      *)
EXTENDS UserListing, FiniteSetTheorems, TLAPS

-----------------------------------------------------------------------------
(* The order of a walk *)

LEMMA Ordered ==
    ASSUME NEW a \in Nat, NEW b \in Nat, NEW c \in Nat
    PROVE  /\ ~Before(a, a)
           /\ Before(a, b) => ~Before(b, a)
           /\ Before(a, b) /\ Before(b, c) => Before(a, c)
           /\ a = b \/ Before(a, b) \/ Before(b, a)
  BY DEF Before

\* Ids are finitely many numbers.
LEMMA IdSets ==
    ASSUME NEW S \in SUBSET Id
    PROVE  /\ IsFiniteSet(S) /\ Cardinality(S) \in Nat
           /\ \A u \in S : u \in Nat
  <1>1. IsFiniteSet(S)
    BY FS_Subset, ListingAssumption
  <1> QED
    BY <1>1, FS_CardinalityType, ListingAssumption

\* A smaller set has fewer members.
LEMMA Fewer ==
    ASSUME NEW S \in SUBSET Id, NEW T \in SUBSET S
    PROVE  /\ Cardinality(T) \in Nat /\ Cardinality(S) \in Nat
           /\ Cardinality(T) <= Cardinality(S)
           /\ T # S => Cardinality(T) < Cardinality(S)
  BY IdSets, FS_Subset

\* Among finitely many sets of users one has no other within it.
LEMMA Smallest ==
    ASSUME NEW sets \in SUBSET SUBSET Id, sets # {}
    PROVE  \E s \in sets : \A t \in sets : t \subseteq s => t = s
  <1> DEFINE within == StrictSubsetOrdering(Id)
  <1>1. FiniteSubsetsOf(Id) = SUBSET Id
    BY FS_FiniteSubsetsOfFinite, ListingAssumption
  <1>2. IsWellFoundedOn(within, SUBSET Id)
    BY <1>1, FS_StrictSubsetOrderingWellFounded
  <1> HIDE DEF within
  <1>3. PICK s \in sets : \A t \in sets : ~(<<t, s>> \in within)
    BY <1>2, WFMin
  <1> QED
    BY <1>3 DEF within, StrictSubsetOrdering

\* Some users have a first and a last one: nobody is before, or after, it who is
\* not before, or after, all others.
LEMMA FirstExists ==
    ASSUME NEW S \in SUBSET Id, S # {}
    PROVE  \E u \in S : \A v \in S : ~Before(v, u)
  <1> DEFINE earlier(u) == {v \in S : Before(v, u)}
             sets == {earlier(u) : u \in S}
  <1>1. sets \in SUBSET SUBSET Id /\ sets # {}
    OBVIOUS
  <1>2. PICK s \in sets : \A t \in sets : t \subseteq s => t = s
    BY <1>1, Smallest
  <1>3. PICK u \in S : s = earlier(u)
    BY <1>2
  <1>4. ASSUME NEW v \in S, Before(v, u)
        PROVE  FALSE
    <2>1. v \in earlier(u) /\ v \notin earlier(v)
      BY <1>4, IdSets, Ordered
    <2>2. earlier(v) \subseteq earlier(u)
      BY <1>4, IdSets, Ordered
    <2> QED
      BY <1>2, <1>3, <2>1, <2>2
  <1> QED
    BY <1>4

LEMMA LastExists ==
    ASSUME NEW S \in SUBSET Id, S # {}
    PROVE  \E u \in S : \A v \in S : ~Before(u, v)
  <1> DEFINE later(u) == {v \in S : Before(u, v)}
             sets == {later(u) : u \in S}
  <1>1. sets \in SUBSET SUBSET Id /\ sets # {}
    OBVIOUS
  <1>2. PICK s \in sets : \A t \in sets : t \subseteq s => t = s
    BY <1>1, Smallest
  <1>3. PICK u \in S : s = later(u)
    BY <1>2
  <1>4. ASSUME NEW v \in S, Before(u, v)
        PROVE  FALSE
    <2>1. v \in later(u) /\ v \notin later(v)
      BY <1>4, IdSets, Ordered
    <2>2. later(v) \subseteq later(u)
      BY <1>4, IdSets, Ordered
    <2> QED
      BY <1>2, <1>3, <2>1, <2>2
  <1> QED
    BY <1>4

LEMMA LastOfPage ==
    ASSUME NEW page \in SUBSET Id, page # {}
    PROVE  LastOf(page) \in page /\ \A v \in page : ~Before(LastOf(page), v)
  BY LastExists DEF LastOf

-----------------------------------------------------------------------------
(* Pages *)

LEMMA PageSelects ==
    ASSUME NEW S \in SUBSET Id
    PROVE  FirstPage(S) \in SUBSET S
  BY DEF FirstPage

\* Nobody who comes before the last of a page is missing from it.
LEMMA PageIsFirst ==
    ASSUME NEW S \in SUBSET Id, query.limit \in Nat,
           NEW l \in FirstPage(S), NEW u \in S, ~Before(l, u)
    PROVE  u \in FirstPage(S)
  <1>1. CASE query.limit = 0 \/ u = l
    BY <1>1 DEF FirstPage
  <1>2. CASE query.limit # 0 /\ u # l
    <2> DEFINE earlier(x) == {v \in S : Before(v, x)}
    <2>1. l \in S /\ Cardinality(earlier(l)) < query.limit
      BY <1>2 DEF FirstPage
    <2>2. Before(u, l)
      BY <1>2, <2>1, IdSets, Ordered
    <2>3. earlier(u) \in SUBSET earlier(l)
      BY <2>1, <2>2, IdSets, Ordered
    <2>4. Cardinality(earlier(u)) < query.limit
      <3>1. earlier(l) \in SUBSET Id
        OBVIOUS
      <3> QED
        BY <2>1, <2>3, <3>1, Fewer
    <2> QED
      BY <1>2, <2>4 DEF FirstPage
  <1> QED
    BY <1>1, <1>2

\* A page that is not full has everybody.
LEMMA ShortPage ==
    ASSUME NEW S \in SUBSET Id, query.limit \in Nat, ~HasMore(FirstPage(S))
    PROVE  FirstPage(S) = S
  <1> DEFINE page == FirstPage(S)
             earlier(x) == {v \in S : Before(v, x)}
  <1> SUFFICES ASSUME query.limit # 0, S \ page # {}
               PROVE  FALSE
    BY PageSelects DEF FirstPage
  <1>1. page \in SUBSET S /\ page \in SUBSET Id
    BY PageSelects
  <1>2. \A x \in S : x \in page <=> Cardinality(earlier(x)) < query.limit
    BY DEF FirstPage
  <1>3. Cardinality(page) # query.limit
    BY DEF HasMore
  <1> HIDE DEF page
  <1>4. PICK u \in S \ page : \A v \in S \ page : ~Before(v, u)
    <2>1. S \ page \in SUBSET Id
      OBVIOUS
    <2> QED
      BY <2>1, FirstExists
  <1>5. earlier(u) \in SUBSET page
    BY <1>4
  <1>6. Cardinality(page) > query.limit
    <2>1. Cardinality(earlier(u)) <= Cardinality(page) /\ Cardinality(earlier(u)) \in Nat
          /\ Cardinality(page) \in Nat
      BY <1>1, <1>5, Fewer
    <2>2. ~(Cardinality(earlier(u)) < query.limit)
      BY <1>2, <1>4
    <2> QED
      BY <1>3, <2>1, <2>2
  <1>7. page # {}
    BY <1>6, FS_EmptySet
  <1>8. PICK l \in page : \A v \in page : ~Before(l, v)
    BY <1>1, <1>7, LastExists
  <1>9. page \ {l} \in SUBSET earlier(l)
    <2>1. \A v \in page \ {l} : Before(v, l)
      BY <1>1, <1>8, IdSets, Ordered
    <2> QED
      BY <1>1, <2>1
  <1>10. Cardinality(page \ {l}) = Cardinality(page) - 1
    BY <1>1, <1>8, IdSets, FS_RemoveElement
  <1>11. Cardinality(page \ {l}) <= Cardinality(earlier(l))
    <2>1. earlier(l) \in SUBSET Id
      OBVIOUS
    <2> QED
      BY <1>9, <2>1, Fewer
  <1>12. Cardinality(earlier(l)) < query.limit
    BY <1>1, <1>2, <1>8
  <1>13. Cardinality(page) \in Nat /\ Cardinality(earlier(l)) \in Nat
    <2>1. earlier(l) \in SUBSET Id
      OBVIOUS
    <2> QED
      BY <1>1, <2>1, IdSets
  <1> QED
    BY <1>6, <1>10, <1>11, <1>12, <1>13

-----------------------------------------------------------------------------
(* Types *)

LEMMA QueryTyped ==
    ASSUME query \in Queries
    PROVE  query.limit \in Nat /\ query \in Query
  BY ListingAssumption DEF Query

LEMMA InitTyped == Init => TypeOK
  <1> SUFFICES ASSUME Init PROVE TypeOK
    OBVIOUS
  <1>1. hit \in [Id -> SUBSET {"name", "email"}]
    BY DEF Init
  <1>2. walk \in Walk
    BY DEF Init, Walk
  <1> QED
    BY <1>1, <1>2 DEF Init, TypeOK

LEMMA GiveTyped ==
    ASSUME TypeOK, NEW page \in SUBSET Id, Give(page)
    PROVE  returned' \subseteq Id /\ repeated' \subseteq returned'
  BY DEF TypeOK, Give

LEMMA NextTyped == TypeOK /\ [Next]_vars => TypeOK'
  <1> SUFFICES ASSUME TypeOK, [Next]_vars
               PROVE  TypeOK'
    OBVIOUS
  <1>1. CASE ReadByCursor
    <2> DEFINE page == FirstPage(SelectedByCursor)
    <2>1. page \in SUBSET Id
      <3>1. SelectedByCursor \in SUBSET Id
        BY DEF SelectedByCursor, TypeOK
      <3> QED
        BY <3>1, PageSelects
    <2>2. returned' \subseteq Id /\ repeated' \subseteq returned'
      BY <1>1, <2>1, GiveTyped DEF ReadByCursor
    <2>3. walk' \in Walk
      <3>1. page # {} => LastOf(page) \in Id
        BY <2>1, LastOfPage
      <3> QED
        BY <1>1, <3>1 DEF ReadByCursor, TypeOK, Walk
    <2> QED
      BY <1>1, <2>2, <2>3 DEF ReadByCursor, TypeOK, table, moves
  <1>2. CASE ReadByPage
    <2>1. PICK pos : Give({u \in Matching : pos[u] > Skip /\ pos[u] <= Skip + query.limit})
      BY <1>2 DEF ReadByPage
    <2>2. {u \in Matching : pos[u] > Skip /\ pos[u] <= Skip + query.limit} \in SUBSET Id
      BY DEF Matching, TypeOK
    <2>3. returned' \subseteq Id /\ repeated' \subseteq returned'
      BY <2>1, <2>2, GiveTyped
    <2> QED
      BY <1>2, <2>3 DEF ReadByPage, TypeOK, table, moves, Walk
  <1>3. CASE CountAll
    <2>1. walk' \in Walk
      <3>1. /\ [walk EXCEPT !.state = "asking", !.page = walk.page + 1] \in Walk
            /\ [walk EXCEPT !.state = "done"] \in Walk
        <4>1. walk.page + 1 \in Nat \ {0}
          BY DEF TypeOK, Walk
        <4>2. ASSUME NEW n \in Nat \ {0}
              PROVE  [walk EXCEPT !.state = "asking", !.page = n] \in Walk
          BY DEF TypeOK, Walk
        <4> QED
          BY <4>1, <4>2 DEF TypeOK, Walk
      <3> QED
        BY <1>3, <3>1, Zenon DEF CountAll
    <2> QED
      BY <1>3, <2>1 DEF CountAll, TypeOK, table, moves
  <1>4. ASSUME NEW u \in Id, Appear(u) \/ Disappear(u)
        PROVE  TypeOK'
    BY <1>4 DEF Appear, Disappear, TypeOK, table, Count
  <1>5. CASE UNCHANGED vars
    BY <1>5 DEF vars, TypeOK, table, moves
  <1> QED
    BY <1>1, <1>2, <1>3, <1>4, <1>5 DEF Next, Ask

\* Every variable keeps its type, the cursor included: the id of a user who
\* exists, or existed.
THEOREM TypeCorrect == Spec => []TypeOK
  BY InitTyped, NextTyped, PTL DEF Spec

-----------------------------------------------------------------------------
(* Walks by cursor *)

\* What the client was given lies up to the cursor, everybody there who stayed
\* was given to it, and nobody twice.
CursorInv ==
    /\ repeated = {}
    /\ walk.state \in {"asking", "done", "failed"}
    /\ walk.state = "asking" =>
          /\ \A u \in returned : ~PastCursor(u)
          /\ \A u \in stayed : PastCursor(u) \/ u \in returned
    /\ walk.state = "done" => stayed \subseteq returned

ByCursor == query.kind = "cursor" /\ ~query.search

LEMMA InitCursor == Init => CursorInv
  BY DEF Init, CursorInv, PastCursor

LEMMA PageRead ==
    ASSUME TypeOK, ByCursor, CursorInv, ReadByCursor
    PROVE  CursorInv'
  <1> DEFINE page == FirstPage(SelectedByCursor)
  <1>1. /\ SelectedByCursor = {u \in live : PastCursor(u)}
        /\ SelectedByCursor \in SUBSET Id
    BY DEF SelectedByCursor, ByCursor, TypeOK
  <1>2. /\ page \in SUBSET SelectedByCursor /\ page \in SUBSET Id
        /\ \A u \in page : PastCursor(u)
    BY <1>1, PageSelects
  <1>3. /\ walk.state = "asking"
        /\ Give(page) /\ UNCHANGED <<live, stayed, query>>
        /\ walk' = IF ~HasMore(page) THEN [walk EXCEPT !.state = "done"]
                   ELSE IF page = {} THEN [walk EXCEPT !.state = "failed"]
                   ELSE [walk EXCEPT !.cursor = LastOf(page)]
    BY DEF ReadByCursor, table
  <1>4. repeated' = {} /\ returned' = returned \cup page
    BY <1>2, <1>3 DEF Give, CursorInv
  <1>5. query.limit \in Nat
    BY QueryTyped DEF TypeOK
  <1>6. \A u \in stayed : u \in SelectedByCursor \/ u \in returned
    BY <1>1, <1>3 DEF CursorInv, TypeOK
  <1>7. CASE ~HasMore(page)
    <2>1. page = SelectedByCursor
      BY <1>1, <1>5, <1>7, ShortPage
    <2>2. walk'.state = "done"
      BY <1>3, <1>7 DEF TypeOK, Walk
    <2> QED
      BY <1>3, <1>4, <1>6, <2>1, <2>2 DEF CursorInv
  <1>8. CASE HasMore(page) /\ page = {}
    <2>1. walk'.state = "failed"
      BY <1>3, <1>8 DEF TypeOK, Walk
    <2> QED
      BY <1>4, <2>1 DEF CursorInv
  <1>9. CASE HasMore(page) /\ page # {}
    <2> DEFINE l == LastOf(page)
    <2>1. l \in page /\ \A v \in page : ~Before(l, v)
      BY <1>2, <1>9, LastOfPage
    <2>2. walk'.state = "asking" /\ walk'.cursor = l /\ l \in Id /\ l # Null
      BY <1>2, <1>3, <1>9, <2>1, ListingAssumption DEF TypeOK, Walk
    <2>3. \A u \in SelectedByCursor : ~Before(l, u) => u \in page
      BY <1>1, <1>5, <2>1, PageIsFirst
    <2> HIDE DEF page, l
    <2>4. \A u : PastCursor(u)' <=> Before(l, u)
      BY <1>3, <2>2 DEF PastCursor, Before
    <2>5. ASSUME NEW u \in returned
          PROVE  ~Before(l, u)
      <3>1. ~PastCursor(u) /\ PastCursor(l)
        BY <1>2, <1>3, <2>1 DEF CursorInv
      <3>2. walk.cursor \in Id /\ Before(walk.cursor, l) /\ ~Before(walk.cursor, u)
        BY <3>1 DEF PastCursor, TypeOK, Walk
      <3>3. u \in Nat /\ l \in Nat /\ walk.cursor \in Nat
        BY <2>2, <3>2, ListingAssumption DEF TypeOK
      <3> QED
        BY <3>2, <3>3, Ordered
    <2>6. \A u \in returned' : ~PastCursor(u)'
      BY <1>4, <2>1, <2>4, <2>5
    <2>7. \A u \in stayed' : PastCursor(u)' \/ u \in returned'
      BY <1>3, <1>4, <1>6, <2>3, <2>4
    <2> QED
      BY <1>4, <2>2, <2>6, <2>7 DEF CursorInv
  <1> QED
    BY <1>7, <1>8, <1>9

LEMMA NextCursor ==
    TypeOK /\ ByCursor /\ CursorInv /\ [Next]_vars => CursorInv'
  <1> SUFFICES ASSUME TypeOK, ByCursor, CursorInv, [Next]_vars
               PROVE  CursorInv'
    OBVIOUS
  <1>1. CASE ReadByCursor
    BY <1>1, PageRead
  <1>2. ~ReadByPage /\ ~CountAll
    BY DEF ReadByPage, CountAll, ByCursor, CursorInv
  <1>3. ASSUME NEW u \in Id, Appear(u) \/ Disappear(u)
        PROVE  CursorInv'
    BY <1>3 DEF Appear, Disappear, CursorInv, table, PastCursor, Before
  <1>4. CASE UNCHANGED vars
    BY <1>4 DEF vars, table, CursorInv, PastCursor, Before
  <1> QED
    BY <1>1, <1>2, <1>3, <1>4 DEF Next, Ask

LEMMA CursorBounds == TypeOK /\ CursorInv => NoRepeat /\ Complete
  <1> SUFFICES ASSUME TypeOK, CursorInv PROVE NoRepeat /\ Complete
    OBVIOUS
  <1>1. NoRepeat
    BY FS_EmptySet DEF NoRepeat, CursorInv, TypeOK
  <1>2. ASSUME walk.state = "done"
        PROVE  {u \in stayed \ returned : query.search => hit[u] # {}} = {}
    BY <1>2 DEF CursorInv
  <1>3. left >= 0 /\ Cardinality({}) = 0
    BY FS_EmptySet DEF TypeOK
  <1>4. Complete
    BY <1>2, <1>3 DEF Complete
  <1> QED
    BY <1>1, <1>4

\* findCursorHandler, asked without a search: whatever users come and go between
\* the pages, no page gives a user an earlier one gave, and a walk that came to
\* its end gave everybody who was there all along.  With a search neither
\* holds: see ListingSearch.
THEOREM CursorWalks ==
    ASSUME \A q \in Queries : q.kind = "cursor" /\ ~q.search
    PROVE  Spec => [](/\ repeated = {}
                      /\ walk.state = "done" => stayed \subseteq returned)
  <1>1. TypeOK => ByCursor
    BY DEF TypeOK, ByCursor
  <1>2. CursorInv => /\ repeated = {}
                     /\ walk.state = "done" => stayed \subseteq returned
    BY DEF CursorInv
  <1> QED
    BY <1>1, <1>2, TypeCorrect, InitCursor, NextCursor, PTL DEF Spec

-----------------------------------------------------------------------------
(* Ranks *)

\* How many of a selection come before a user.
Rank(S, u) == Cardinality({v \in S : Before(v, u)})

LEMMA RankTyped ==
    ASSUME NEW S \in SUBSET Id, NEW u
    PROVE  /\ {v \in S : Before(v, u)} \in SUBSET Id
           /\ Rank(S, u) \in Nat
  <1>1. {v \in S : Before(v, u)} \in SUBSET Id
    OBVIOUS
  <1> QED
    BY <1>1, IdSets DEF Rank

\* Who comes later ranks higher, and a member lower than the selection is large.
LEMMA RankGrows ==
    ASSUME NEW S \in SUBSET Id, NEW u \in Id, NEW v \in Id, Before(u, v)
    PROVE  /\ Rank(S, u) <= Rank(S, v)
           /\ u \in S => Rank(S, u) < Rank(S, v)
  <1> DEFINE earlier(x) == {y \in S : Before(y, x)}
  <1>0. /\ \A y \in S : y \in Nat
        /\ u \in Nat /\ v \in Nat
    BY IdSets, ListingAssumption
  <1>1. earlier(u) \in SUBSET earlier(v) /\ earlier(v) \in SUBSET Id
    BY <1>0, Ordered
  <1>2. u \in S => earlier(u) # earlier(v)
    BY <1>0, Ordered
  <1> HIDE DEF earlier
  <1>3. /\ Cardinality(earlier(u)) <= Cardinality(earlier(v))
        /\ u \in S => Cardinality(earlier(u)) < Cardinality(earlier(v))
    BY <1>1, <1>2, Fewer
  <1> QED
    BY <1>3 DEF Rank, earlier

LEMMA RankBelow ==
    ASSUME NEW S \in SUBSET Id, NEW u \in S
    PROVE  Rank(S, u) < Cardinality(S)
  <1> DEFINE earlier == {y \in S : Before(y, u)}
  <1>1. earlier \in SUBSET S /\ u \notin earlier
    BY IdSets, Ordered
  <1> HIDE DEF earlier
  <1>2. Cardinality(earlier) < Cardinality(S)
    BY <1>1, Fewer
  <1> QED
    BY <1>2 DEF Rank, earlier

\* No two members have the same rank.
LEMMA RankUnique ==
    ASSUME NEW S \in SUBSET Id, NEW u \in S, NEW v \in S, Rank(S, u) = Rank(S, v)
    PROVE  u = v
  <1>1. u \in Nat /\ v \in Nat /\ u \in Id /\ v \in Id
    BY IdSets
  <1>2. Rank(S, u) \in Nat /\ Rank(S, v) \in Nat
    BY RankTyped
  <1> QED
    BY <1>1, <1>2, Ordered, RankGrows

\* One more in a selection moves those after it on by one.
LEMMA RankAdded ==
    ASSUME NEW S \in SUBSET Id, NEW w \in Id \ S, NEW u \in Id
    PROVE  Rank(S \cup {w}, u) = IF Before(w, u) THEN Rank(S, u) + 1 ELSE Rank(S, u)
  <1> DEFINE earlier == {y \in S : Before(y, u)}
  <1>1. IsFiniteSet(earlier) /\ w \notin earlier
    BY RankTyped, IdSets
  <1>2. {y \in S \cup {w} : Before(y, u)} = IF Before(w, u) THEN earlier \cup {w} ELSE earlier
    OBVIOUS
  <1> HIDE DEF earlier
  <1>3. Cardinality(earlier \cup {w}) = Cardinality(earlier) + 1
    BY <1>1, FS_AddElement
  <1> QED
    BY <1>2, <1>3 DEF Rank, earlier

\* Distinct numbers from an interval are no more than it has.
LEMMA IntoInterval ==
    ASSUME NEW S, NEW a \in Int, NEW b \in Int, a <= b + 1, NEW f \in Injection(S, a..b)
    PROVE  Cardinality(S) <= b - a + 1
  <1>1. IsFiniteSet(a..b)
    BY FS_Interval
  <1>2. Cardinality(a..b) = IF a > b THEN 0 ELSE b - a + 1
    BY FS_Interval
  <1>3. Cardinality(S) <= Cardinality(a..b)
    BY <1>1, FS_Injection
  <1>4. Cardinality(a..b) = b - a + 1
    BY <1>2
  <1> QED
    BY <1>3, <1>4

LEMMA Apart ==
    ASSUME NEW S, NEW T, IsFiniteSet(S), IsFiniteSet(T), S \cap T = {}
    PROVE  /\ IsFiniteSet(S \cup T)
           /\ Cardinality(S \cup T) = Cardinality(S) + Cardinality(T)
  <1>1. Cardinality(S \cap T) = 0
    BY FS_EmptySet
  <1>2. Cardinality(S) \in Nat /\ Cardinality(T) \in Nat
    BY FS_CardinalityType
  <1>3. /\ IsFiniteSet(S \cup T)
        /\ Cardinality(S \cup T) = Cardinality(S) + Cardinality(T) - Cardinality(S \cap T)
    BY FS_Union
  <1> QED
    BY <1>1, <1>2, <1>3

\* In the order of ids the database has one way to return a selection: each user
\* at the position after the rank.
LEMMA PositionIsRank ==
    ASSUME NEW S \in SUBSET Id, query.orderBy = "id", NEW pos \in Orders(S), NEW u \in S
    PROVE  pos[u] = Rank(S, u) + 1
  <1> DEFINE n == Cardinality(S)
             earlier == {v \in S : Before(v, u)}
             later == {v \in S : Before(u, v)}
  <1>1. /\ n \in Nat /\ IsFiniteSet(S)
        /\ \A v \in S : v \in Nat
    BY IdSets
  <1>2. /\ \A v \in S : pos[v] \in 1..n
        /\ \A v, w \in S : pos[v] = pos[w] => v = w
        /\ \A v, w \in S : Before(v, w) => pos[v] < pos[w]
    BY DEF Orders
  <1>3. /\ IsFiniteSet(earlier) /\ IsFiniteSet(later)
        /\ Cardinality(earlier) \in Nat /\ Cardinality(later) \in Nat
    <2>1. earlier \in SUBSET Id /\ later \in SUBSET Id
      OBVIOUS
    <2> QED
      BY <2>1, IdSets
  <1>4. Cardinality(earlier) <= pos[u] - 1
    <2> DEFINE f == [v \in earlier |-> pos[v]]
    <2>1. f \in Injection(earlier, 1..(pos[u] - 1))
      BY <1>1, <1>2 DEF Injection, IsInjective
    <2> HIDE DEF f
    <2>2. pos[u] \in Int /\ pos[u] - 1 \in Int /\ 1 <= pos[u] - 1 + 1
      BY <1>1, <1>2
    <2>3. Cardinality(earlier) <= pos[u] - 1 - 1 + 1
      BY <2>1, <2>2, IntoInterval
    <2> QED
      BY <2>2, <2>3
  <1>5. Cardinality(later) <= n - pos[u]
    <2> DEFINE f == [v \in later |-> pos[v]]
    <2>1. f \in Injection(later, (pos[u] + 1)..n)
      BY <1>1, <1>2 DEF Injection, IsInjective
    <2> HIDE DEF f
    <2>2. pos[u] \in Int /\ pos[u] + 1 \in Int /\ n \in Int /\ pos[u] + 1 <= n + 1
      BY <1>1, <1>2
    <2> HIDE DEF n
    <2>3. Cardinality(later) <= n - (pos[u] + 1) + 1
      BY <2>1, <2>2, IntoInterval
    <2> QED
      BY <2>2, <2>3
  <1>6. n = Cardinality(earlier) + Cardinality(later) + 1
    <2>1. S = (earlier \cup later) \cup {u} /\ u \notin earlier \cup later
      BY <1>1, Ordered
    <2>2. earlier \cap later = {}
      BY <1>1, Ordered
    <2> HIDE DEF earlier, later
    <2>3. /\ IsFiniteSet(earlier \cup later)
          /\ Cardinality(earlier \cup later) = Cardinality(earlier) + Cardinality(later)
      BY <1>3, <2>2, Apart
    <2> QED
      BY <2>1, <2>3, FS_AddElement
  <1> QED
    BY <1>1, <1>2, <1>3, <1>4, <1>5, <1>6 DEF Rank

\* A set that has one more at most is larger by one at most.
LEMMA OneMore ==
    ASSUME NEW S \in SUBSET Id, NEW T \in SUBSET Id, NEW x, T \subseteq S \cup {x}
    PROVE  Cardinality(T) <= Cardinality(S) + 1
  <1>1. IsFiniteSet(S) /\ Cardinality(S) \in Nat /\ Cardinality(T) \in Nat
    BY IdSets
  <1>2. /\ IsFiniteSet(S \cup {x})
        /\ Cardinality(S \cup {x}) = IF x \in S THEN Cardinality(S) ELSE Cardinality(S) + 1
    BY <1>1, FS_AddElement
  <1>3. Cardinality(T) <= Cardinality(S \cup {x}) /\ Cardinality(S \cup {x}) \in Nat
    BY <1>2, FS_Subset, FS_CardinalityType
  <1> QED
    BY <1>1, <1>2, <1>3

-----------------------------------------------------------------------------
(* Walks by page number *)

\* The pages asked for so far hold the users up to this rank.
Given == IF walk.state = "asking" THEN Skip ELSE Skip + query.limit

\* Users the client was given and may be given again, as a user who came moved
\* them on; and those it was not given and will not be, as one who left moved
\* them back.
Again == {u \in Matching \cap returned : Rank(Matching, u) >= Given}
Missed == {u \in (stayed \cap Matching) \ returned : Rank(Matching, u) < Given}

\* Each user that comes moves one other at most across the border of two pages,
\* and so does each that leaves.
NumberInv ==
    /\ walk.state \in {"asking", "counting", "done"}
    /\ Cardinality(repeated \cup Again) <= came
    /\ Cardinality(Missed) <= left
    /\ walk.state = "done" => Cardinality((stayed \cap Matching) \ returned) <= left

ByNumber == query.kind = "offset" /\ query.orderBy = "id"

\* The products in Skip, out of the provers' way.
LEMMA SkipTyped ==
    ASSUME TypeOK
    PROVE  /\ Skip \in Nat /\ query.limit \in Nat /\ Given \in Nat
           /\ query.limit * ((walk.page + 1) - 1) = Skip + query.limit
           /\ walk.page * query.limit = Skip + query.limit
  <1>1. query.limit \in Nat /\ walk.page \in Nat \ {0}
    BY QueryTyped DEF TypeOK, Walk
  <1>2. ASSUME NEW l \in Nat, NEW p \in Nat \ {0}
        PROVE  /\ l * (p - 1) \in Nat
               /\ l * ((p + 1) - 1) = l * (p - 1) + l
               /\ p * l = l * (p - 1) + l
    OBVIOUS
  <1>3. Skip \in Nat /\ Skip + query.limit \in Nat
    BY <1>1, <1>2 DEF Skip
  <1> QED
    BY <1>1, <1>2, <1>3 DEF Skip, Given

LEMMA SetsTyped ==
    ASSUME TypeOK
    PROVE  /\ Matching \in SUBSET Id /\ Again \in SUBSET Id /\ Missed \in SUBSET Id
           /\ repeated \cup Again \in SUBSET Id
           /\ (stayed \cap Matching) \ returned \in SUBSET Id
  BY DEF TypeOK, Matching, Again, Missed

LEMMA InitNumber == Init => NumberInv
  <1> SUFFICES ASSUME Init PROVE NumberInv
    OBVIOUS
  <1>1. TypeOK
    BY InitTyped
  <1>2. Given = 0
    BY <1>1, SkipTyped DEF Init, Given, Skip
  <1>3. Matching \in SUBSET Id /\ \A u \in Matching : Rank(Matching, u) \in Nat
    BY <1>1, SetsTyped, RankTyped
  <1>4. repeated \cup Again = {} /\ Missed = {}
    BY <1>2, <1>3 DEF Init, Again, Missed
  <1> QED
    BY <1>4, FS_EmptySet DEF Init, NumberInv

\* The page takes its users out of both sets.
LEMMA NumberRead ==
    ASSUME TypeOK, ByNumber, NumberInv, ReadByPage
    PROVE  NumberInv'
  <1> DEFINE M == Matching
  <1>0. /\ M \in SUBSET Id /\ Skip \in Nat /\ query.limit \in Nat
        /\ repeated \cup Again \in SUBSET Id /\ Missed \in SUBSET Id
        /\ \A u \in M : Rank(M, u) \in Nat
    BY SetsTyped, SkipTyped, RankTyped
  <1>1. /\ walk.state = "asking" /\ walk' = [walk EXCEPT !.state = "counting"]
        /\ UNCHANGED <<live, hit, query, stayed, came, left>>
    BY DEF ReadByPage, table, moves
  <1>2. PICK pos \in Orders(M) :
           Give({u \in M : pos[u] > Skip /\ pos[u] <= Skip + query.limit})
    BY DEF ReadByPage
  <1>3. \A u \in M : pos[u] = Rank(M, u) + 1
    BY <1>0, <1>2, PositionIsRank DEF ByNumber
  <1> DEFINE page == {u \in M : Rank(M, u) >= Skip /\ Rank(M, u) < Skip + query.limit}
  <1>4. page = {u \in M : pos[u] > Skip /\ pos[u] <= Skip + query.limit}
    BY <1>0, <1>3
  <1>5. returned' = returned \cup page /\ repeated' = repeated \cup (returned \cap page)
    BY <1>2, <1>4 DEF Give
  <1>6. /\ Matching' = M
        /\ \A u : Rank(Matching, u)' = Rank(M, u)
        /\ walk'.state = "counting" /\ Given = Skip /\ Given' = Skip + query.limit
    BY <1>1 DEF Matching, Rank, Before, Given, Skip, TypeOK, Walk
  <1>7. Again' = {u \in M \cap returned' : Rank(M, u) >= Skip + query.limit}
    BY <1>6 DEF Again
  <1>8. Missed' = {u \in (stayed \cap M) \ returned' : Rank(M, u) < Skip + query.limit}
    BY <1>1, <1>6 DEF Missed
  <1>9. repeated' \cup Again' \in SUBSET (repeated \cup Again)
    BY <1>0, <1>5, <1>6, <1>7 DEF Again
  <1>10. Missed' \in SUBSET Missed
    BY <1>0, <1>5, <1>6, <1>8 DEF Missed
  <1>11. /\ Cardinality(repeated' \cup Again') <= Cardinality(repeated \cup Again)
         /\ Cardinality(Missed') <= Cardinality(Missed)
         /\ Cardinality(repeated' \cup Again') \in Nat /\ Cardinality(Missed') \in Nat
         /\ Cardinality(repeated \cup Again) \in Nat /\ Cardinality(Missed) \in Nat
    BY <1>0, <1>9, <1>10, Fewer
  <1> QED
    BY <1>1, <1>6, <1>11 DEF NumberInv, TypeOK

\* The end of the walk is past all ranks.
LEMMA NumberCounted ==
    ASSUME TypeOK, ByNumber, NumberInv, CountAll
    PROVE  NumberInv'
  <1>0. Matching \in SUBSET Id /\ Skip \in Nat /\ query.limit \in Nat
    BY SetsTyped, SkipTyped
  <1>1. /\ walk.state = "counting"
        /\ UNCHANGED <<live, hit, query, returned, repeated, stayed, came, left>>
    BY DEF CountAll, table, moves
  <1>2. Given' = Given /\ walk'.state \in {"asking", "done"}
    <2>1. CASE walk' = [walk EXCEPT !.state = "asking", !.page = walk.page + 1]
      <3>1. walk'.state = "asking" /\ walk'.page = walk.page + 1
        BY <2>1 DEF TypeOK, Walk
      <3> QED
        BY <1>1, <3>1, SkipTyped DEF Given, Skip
    <2>2. CASE walk' = [walk EXCEPT !.state = "done"]
      <3>1. walk'.state = "done" /\ walk'.page = walk.page
        BY <2>2 DEF TypeOK, Walk
      <3> QED
        BY <1>1, <3>1 DEF Given, Skip
    <2> QED
      BY <2>1, <2>2, Zenon DEF CountAll
  <1>3. /\ Matching' = Matching
        /\ \A u : Rank(Matching, u)' = Rank(Matching, u)
    BY <1>1 DEF Matching, Rank, Before
  <1>4. Again' = Again /\ Missed' = Missed
    BY <1>1, <1>2, <1>3 DEF Again, Missed
  <1>5. ASSUME walk'.state = "done"
        PROVE  (stayed \cap Matching) \ returned = Missed
    <2>1. ~(walk.page * query.limit < Cardinality(Matching))
      BY <1>5 DEF CountAll, TypeOK, Walk
    <2>2. Given = Skip + query.limit
      BY <1>1 DEF Given
    <2>3. Cardinality(Matching) \in Nat /\ Cardinality(Matching) <= Given
      BY <1>0, <2>1, <2>2, SkipTyped, IdSets
    <2>4. ASSUME NEW u \in Matching PROVE Rank(Matching, u) < Given
      <3>1. Rank(Matching, u) < Cardinality(Matching) /\ Rank(Matching, u) \in Nat
        BY <1>0, RankTyped, RankBelow
      <3> QED
        BY <1>0, <2>2, <2>3, <3>1
    <2> QED
      BY <2>4 DEF Missed
  <1> QED
    BY <1>1, <1>2, <1>3, <1>4, <1>5 DEF NumberInv

\* A user who comes moves on those after it, and one of them across the border
\* at most; or comes back behind the border itself.
LEMMA NumberAppear ==
    ASSUME TypeOK, ByNumber, NumberInv, NEW w \in Id, Appear(w)
    PROVE  NumberInv'
  <1> DEFINE M == Matching
             N == M \cup {w}
  <1>0. /\ M \in SUBSET Id /\ Given \in Nat /\ came \in Nat
        /\ repeated \cup Again \in SUBSET Id /\ Missed \in SUBSET Id /\ stayed \subseteq live
        /\ \A u \in Id : Rank(M, u) \in Nat
    BY SetsTyped, SkipTyped, RankTyped DEF TypeOK
  <1>1. /\ w \notin live /\ live' = live \cup {w} /\ came' = came + 1
        /\ UNCHANGED <<hit, query, walk, returned, repeated, stayed, left>>
    BY DEF Appear, table, Count, ByNumber
  <1>2. /\ \A S : \A u : Rank(S, u)' = Rank(S, u)
        /\ Given' = Given
    BY <1>1 DEF Rank, Before, Given, Skip
  <1>3. w \notin M /\ w \notin stayed
    BY <1>0, <1>1 DEF Matching
  <1>4. CASE Matching' = M
    <2>1. \A u : Rank(Matching, u)' = Rank(M, u)
      BY <1>1, <1>4 DEF Rank, Before
    <2>2. Again' = Again /\ Missed' = Missed
      BY <1>1, <1>2, <1>4, <2>1 DEF Again, Missed
    <2>3. Cardinality(repeated \cup Again) \in Nat
      BY <1>0, IdSets
    <2> QED
      BY <1>0, <1>1, <1>4, <2>2, <2>3 DEF NumberInv
  <1>5. CASE Matching' = N
    <2>1. \A u : Rank(Matching, u)' = Rank(N, u)
      BY <1>1, <1>5 DEF Rank, Before
    <2>2. /\ Again' = {u \in N \cap returned : Rank(N, u) >= Given}
          /\ Missed' = {u \in (stayed \cap N) \ returned : Rank(N, u) < Given}
      BY <1>1, <1>2, <1>5, <2>1 DEF Again, Missed
    <2>3. \A u \in Id : Rank(N, u) = IF Before(w, u) THEN Rank(M, u) + 1 ELSE Rank(M, u)
      BY <1>0, <1>3, RankAdded
    <2>4. \A u \in M : u \in Id
      BY <1>0
    <2> HIDE DEF M, N
    <2>5. Missed' \in SUBSET Missed
      <3>1. \A u \in Missed' : u \in (stayed \cap M) \ returned /\ Rank(M, u) < Given
        BY <1>0, <1>3, <2>2, <2>3, <2>4 DEF N
      <3> QED
        BY <3>1 DEF Missed, M
    <2>6. \E x \in Id : Again' \subseteq Again \cup {x}
      <3>0. \A u : u \in Again <=> u \in M \cap returned /\ Rank(M, u) >= Given
        BY DEF Again, M
      <3>1. CASE Rank(M, w) >= Given
        <4>1. \A u \in M : Before(w, u) => Rank(M, w) <= Rank(M, u)
          BY <1>0, <2>4, RankGrows
        <4>2. \A u \in M : Rank(N, u) >= Given => Rank(M, u) >= Given
          BY <1>0, <2>3, <2>4, <3>1, <4>1
        <4> QED
          BY <2>2, <3>0, <4>2 DEF N
      <3>2. CASE Rank(M, w) < Given
        <4>1. Rank(N, w) < Given
          <5>1. ~Before(w, w)
            BY Ordered, ListingAssumption
          <5> QED
            BY <2>3, <3>2, <5>1
        <4>2. ASSUME NEW u \in Again'
              PROVE  /\ u \in M \cap returned
                     /\ Rank(M, u) >= Given \/ Rank(M, u) = Given - 1
          <5>1. u \in N \cap returned /\ Rank(N, u) >= Given
            BY <2>2
          <5>2. u # w
            BY <1>0, <2>3, <4>1, <5>1
          <5>3. u \in M /\ u \in Id
            BY <2>4, <5>1, <5>2 DEF N
          <5>4. Rank(M, u) \in Nat /\ Rank(N, u) \in {Rank(M, u), Rank(M, u) + 1}
            BY <1>0, <2>3, <5>3
          <5> QED
            BY <1>0, <5>1, <5>3, <5>4
        <4>3. CASE \E x \in M : Rank(M, x) = Given - 1
          <5>1. PICK x \in M : Rank(M, x) = Given - 1
            BY <4>3
          <5>2. \A u \in M : Rank(M, u) = Given - 1 => u = x
            BY <1>0, <5>1, RankUnique
          <5> QED
            BY <2>4, <3>0, <4>2, <5>1, <5>2
        <4>4. CASE ~\E x \in M : Rank(M, x) = Given - 1
          BY <3>0, <4>2, <4>4
        <4> QED
          BY <4>3, <4>4
      <3> QED
        BY <1>0, <3>1, <3>2
    <2>7. Cardinality(repeated' \cup Again') <= Cardinality(repeated \cup Again) + 1
      <3>1. PICK x \in Id : Again' \subseteq Again \cup {x}
        BY <2>6
      <3>2. repeated' \cup Again' \in SUBSET Id
        BY <1>0, <1>1, <3>1
      <3>3. repeated' \cup Again' \subseteq (repeated \cup Again) \cup {x}
        BY <1>1, <3>1
      <3> QED
        BY <1>0, <3>2, <3>3, OneMore
    <2>8. /\ Cardinality(Missed') <= Cardinality(Missed)
          /\ Cardinality(Missed') \in Nat /\ Cardinality(Missed) \in Nat
          /\ Cardinality(repeated \cup Again) \in Nat
      BY <1>0, <2>5, Fewer, IdSets
    <2>9. Cardinality(repeated' \cup Again') \in Nat
      BY <1>0, <1>1, <2>6, IdSets
    <2>10. stayed' \cap Matching' = stayed \cap Matching
      BY <1>1, <1>3, <1>5 DEF M, N
    <2>11. /\ Cardinality(repeated' \cup Again') <= came'
           /\ Cardinality(Missed') <= left'
      BY <1>0, <1>1, <2>7, <2>8, <2>9 DEF NumberInv, TypeOK
    <2> QED
      BY <1>1, <2>10, <2>11 DEF NumberInv
  <1> QED
    BY <1>1, <1>4, <1>5 DEF Matching

\* A user who leaves moves back those after it, one of them at most across the
\* border.
LEMMA NumberDisappear ==
    ASSUME TypeOK, ByNumber, NumberInv, NEW w \in Id, Disappear(w)
    PROVE  NumberInv'
  <1> DEFINE M == Matching
             N == M \ {w}
  <1>0. /\ M \in SUBSET Id /\ Given \in Nat /\ left \in Nat
        /\ repeated \cup Again \in SUBSET Id /\ Missed \in SUBSET Id /\ stayed \subseteq live
        /\ (stayed \cap M) \ returned \in SUBSET Id
        /\ \A u \in Id : Rank(M, u) \in Nat /\ Rank(N, u) \in Nat
    BY SetsTyped, SkipTyped, RankTyped DEF TypeOK
  <1>1. /\ live' = live \ {w} /\ stayed' = stayed \ {w} /\ left' = left + 1
        /\ UNCHANGED <<hit, query, walk, returned, repeated, came>>
    BY DEF Disappear, table, Count, ByNumber
  <1>2. Given' = Given /\ Matching' = N
    BY <1>1 DEF Given, Skip, Matching
  <1>3. \A u : Rank(Matching, u)' = Rank(N, u)
    BY <1>1, <1>2 DEF Rank, Before
  <1>4. /\ Again' = {u \in N \cap returned : Rank(N, u) >= Given}
        /\ Missed' = {u \in (stayed \cap N) \ returned : Rank(N, u) < Given}
    BY <1>1, <1>2, <1>3 DEF Again, Missed
  <1>5. \A u \in N : Rank(M, u) \in {Rank(N, u), Rank(N, u) + 1}
    <2>1. CASE w \notin M
      <3>1. N = M
        BY <2>1
      <3> QED
        BY <3>1
    <2>2. CASE w \in M
      <3>1. N \in SUBSET Id /\ w \in Id \ N /\ M = N \cup {w}
        BY <1>0, <2>2
      <3>2. \A u \in Id : Rank(N \cup {w}, u) =
                             IF Before(w, u) THEN Rank(N, u) + 1 ELSE Rank(N, u)
        BY <3>1, RankAdded
      <3> HIDE DEF M, N
      <3>3. \A u \in N : u \in Id
        BY <3>1
      <3> QED
        BY <3>1, <3>2, <3>3
    <2> QED
      BY <2>1, <2>2
  <1>6. \A u \in N : u \in M /\ u \in Id
    BY <1>0
  <1> HIDE DEF M, N
  <1>7. repeated' \cup Again' \in SUBSET (repeated \cup Again)
    <2>1. \A u \in Again' : u \in M \cap returned /\ Rank(M, u) >= Given
      BY <1>0, <1>4, <1>5, <1>6
    <2> QED
      BY <1>1, <2>1 DEF Again, M
  <1>8. \E x \in Id : Missed' \subseteq Missed \cup {x}
    <2>0. \A u : u \in Missed <=> u \in (stayed \cap M) \ returned /\ Rank(M, u) < Given
      BY DEF Missed, M
    <2>1. \A u \in Missed' : u \in (stayed \cap M) \ returned
                             /\ (Rank(M, u) < Given \/ Rank(M, u) = Given)
      BY <1>0, <1>4, <1>5, <1>6
    <2>2. CASE \E x \in M : Rank(M, x) = Given
      <3>1. PICK x \in M : Rank(M, x) = Given
        BY <2>2
      <3>2. \A u \in M : Rank(M, u) = Given => u = x
        BY <1>0, <3>1, RankUnique
      <3> QED
        BY <1>0, <2>0, <2>1, <3>1, <3>2
    <2>3. CASE ~\E x \in M : Rank(M, x) = Given
      BY <2>0, <2>1, <2>3
    <2> QED
      BY <2>2, <2>3
  <1>9. /\ Cardinality(Missed') <= Cardinality(Missed) + 1
        /\ Cardinality(Missed') \in Nat /\ Cardinality(Missed) \in Nat
    <2>1. PICK x \in Id : Missed' \subseteq Missed \cup {x}
      BY <1>8
    <2>2. Missed' \in SUBSET Id
      BY <1>0, <2>1
    <2> QED
      BY <1>0, <2>1, <2>2, OneMore, IdSets
  <1>10. /\ Cardinality(repeated' \cup Again') <= Cardinality(repeated \cup Again)
         /\ Cardinality(repeated' \cup Again') \in Nat
         /\ Cardinality(repeated \cup Again) \in Nat
    BY <1>0, <1>7, Fewer
  <1>11. /\ Cardinality((stayed' \cap Matching') \ returned')
               <= Cardinality((stayed \cap Matching) \ returned)
         /\ Cardinality((stayed' \cap Matching') \ returned') \in Nat
         /\ Cardinality((stayed \cap Matching) \ returned) \in Nat
    <2>1. (stayed' \cap Matching') \ returned' \in SUBSET ((stayed \cap Matching) \ returned)
      BY <1>1, <1>2 DEF M, N
    <2> QED
      BY <1>0, <2>1, Fewer DEF M
  <1> QED
    BY <1>0, <1>1, <1>9, <1>10, <1>11 DEF NumberInv, TypeOK

LEMMA NextNumber ==
    TypeOK /\ ByNumber /\ NumberInv /\ [Next]_vars => NumberInv'
  <1> SUFFICES ASSUME TypeOK, ByNumber, NumberInv, [Next]_vars
               PROVE  NumberInv'
    OBVIOUS
  <1>1. ~ReadByCursor
    BY DEF ReadByCursor, ByNumber
  <1>2. CASE UNCHANGED vars
    <2>1. /\ Matching' = Matching /\ Given' = Given
          /\ UNCHANGED <<walk, returned, repeated, stayed, came, left, query>>
      BY <1>2 DEF vars, table, moves, Matching, Given, Skip
    <2>2. \A u : Rank(Matching, u)' = Rank(Matching, u)
      BY <2>1 DEF Rank, Before
    <2>3. Again' = Again /\ Missed' = Missed
      BY <2>1, <2>2 DEF Again, Missed
    <2> QED
      BY <2>1, <2>3 DEF NumberInv
  <1> QED
    BY <1>1, <1>2, NumberRead, NumberCounted, NumberAppear, NumberDisappear DEF Next, Ask

LEMMA NumberBounds == TypeOK /\ NumberInv => NoRepeat /\ Complete
  <1> SUFFICES ASSUME TypeOK, NumberInv PROVE NoRepeat /\ Complete
    OBVIOUS
  <1>1. NoRepeat
    <2>1. Cardinality(repeated) <= Cardinality(repeated \cup Again)
          /\ Cardinality(repeated) \in Nat /\ Cardinality(repeated \cup Again) \in Nat
      BY SetsTyped, Fewer
    <2> QED
      BY <2>1 DEF NumberInv, NoRepeat, TypeOK
  <1>2. {u \in stayed \ returned : query.search => hit[u] # {}}
           = (stayed \cap Matching) \ returned
    BY DEF TypeOK, Matching
  <1> QED
    BY <1>1, <1>2 DEF NumberInv, Complete

-----------------------------------------------------------------------------
(* Both kinds of walks *)

\* The clients that are served right: with a cursor and no search, or with page
\* numbers in the order of ids.
Orderly == \A q \in Queries : \/ q.kind = "cursor" /\ ~q.search
                              \/ q.kind = "offset" /\ q.orderBy = "id"

LEMMA OrderlyWalks ==
    ASSUME Orderly
    PROVE  Spec => [](NoRepeat /\ Complete)
  <1>1. TypeOK => ByCursor \/ ByNumber
    BY DEF TypeOK, ByCursor, ByNumber, Orderly
  <1>2. [Next]_vars => (ByCursor <=> ByCursor') /\ (ByNumber <=> ByNumber')
    <2>1. [Next]_vars => UNCHANGED query
      BY DEF Next, Ask, ReadByCursor, ReadByPage, CountAll, Appear, Disappear, vars, table
    <2> QED
      BY <2>1 DEF ByCursor, ByNumber
  <1>3. Spec => [](ByCursor => CursorInv)
    BY <1>2, TypeCorrect, InitCursor, NextCursor, PTL DEF Spec
  <1>4. Spec => [](ByNumber => NumberInv)
    BY <1>2, TypeCorrect, InitNumber, NextNumber, PTL DEF Spec
  <1>5. TypeOK /\ CursorInv => NoRepeat /\ Complete
    BY CursorBounds
  <1>6. TypeOK /\ NumberInv => NoRepeat /\ Complete
    BY NumberBounds
  <1> QED
    BY <1>1, <1>3, <1>4, <1>5, <1>6, TypeCorrect, PTL

\* A walk by cursor repeats nobody, and one by page number one user at most for
\* each that came meanwhile: moved across the border of two pages, or come back.
\* In an order with ties, and with a search by cursor, it fails.
THEOREM FewRepeated == ASSUME Orderly PROVE Spec => []NoRepeat
  <1> QED
    BY OrderlyWalks, PTL

\* A walk that came to its end gave all users who were there all along, but one
\* at most, in a walk by page number, for each that left meanwhile.
THEOREM FewMissed == ASSUME Orderly PROVE Spec => []Complete
  <1> QED
    BY OrderlyWalks, PTL
=============================================================================
