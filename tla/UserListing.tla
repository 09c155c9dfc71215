----------------------------- MODULE UserListing -----------------------------
(* A client that walks the list of users page by page (findCursorHandler and  *)
(* findAllHandler of src/modules/user/user.service.ts) while other handlers   *)
(* add and remove users.                                                      *)
(*                                                                            *)
(* Ids are UUIDs: what matters of them is their order and that a new one may  *)
(* land anywhere in it, so they are numbers drawn in any order.  A term the   *)
(* client searches for is abstracted to where each user has it.  No caller    *)
(* sets withDeleted, so a deleted user is one that is not listed.             *)
EXTENDS Integers, FiniteSets

CONSTANTS Id,         \* ids of users, in the order the database compares them
          Key,        \* values of a sort column that is not unique
          Queries,    \* what clients ask for, the same on every page
          Moves,      \* users that come or go in a walk by page number (bound)
          Null

\* A query, and whether users come and go during the walk.
Query == [kind : {"cursor", "offset"},  \* /user/cursor or /user/pagination
          dir : {"ASC", "DESC"}, limit : Nat, search : BOOLEAN,
          orderBy : {"id", "other"}, writers : BOOLEAN]

\* The pagination DTO wants a limit of one at least, the cursor DTO does not.
ASSUME ListingAssumption ==
    /\ Id \subseteq Nat /\ Key \subseteq Nat /\ Null \notin Id
    /\ IsFiniteSet(Id) /\ Moves \in Nat
    /\ Queries \subseteq Query
    /\ \A q \in Queries : q.kind = "offset" => q.limit > 0

VARIABLES live,       \* ids of the users that are there
          hit,        \* the columns in which each user has the search term
          key,        \* the sort column of each user
          query,      \* what the client asks for
          walk,       \* where the client is in its walk
          returned,   \* users it was given
          repeated,   \* users it was given more than once
          stayed,     \* users that are there since the walk began
          came, left  \* how many came and left in a walk by page number (history)

table == <<hit, key, query>>
moves == <<came, left>>
vars == <<live, table, walk, returned, repeated, stayed, moves>>

Walk == [state : {"asking", "counting", "done", "failed"},
         cursor : Id \cup {Null}, page : Nat \ {0}]

Init ==
    /\ live \in SUBSET Id
    /\ key \in [Id -> Key]
    /\ query \in Queries
    /\ hit \in [Id -> IF query.search THEN SUBSET {"name", "email"} ELSE {{}}]
    /\ walk = [state |-> "asking", cursor |-> Null, page |-> 1]
    /\ returned = {}
    /\ repeated = {}
    /\ stayed = live
    /\ came = 0 /\ left = 0

-----------------------------------------------------------------------------
(* Queries *)

Before(a, b) == IF query.dir = "DESC" THEN a > b ELSE a < b

\* "user.id > :cursor", or <
FromCursor(u) ==                                                         \* mutant
    walk.cursor = Null \/ Before(walk.cursor, u) \/ u = walk.cursor
PastCursor(u) == walk.cursor = Null \/ Before(walk.cursor, u)

\* The WHERE of findCursorHandler.  andWhere() joins its string without
\* parentheses, and AND binds tighter than the OR in that string.
SelectedByCursor ==
    {u \in live : IF query.search
                  THEN \/ PastCursor(u) /\ "name" \in hit[u]
                       \/ "email" \in hit[u]
                  ELSE PastCursor(u)}

\* The first page of a selection in the order of ids.  take(0) sets no LIMIT.
FirstPage(S) ==
    IF query.limit = 0 THEN S
    ELSE {u \in S : Cardinality({v \in S : Before(v, u)}) < query.limit}

\* data[data.length - 1].id
LastIndex(page) == Cardinality(page) - 1                                 \* mutant
LastOf(page) == CHOOSE u \in page : ~\E v \in page : Before(u, v)

\* data.length === limit
HasMore(page) == Cardinality(page) = query.limit

\* The WHERE of findAllHandler.
Matching == {u \in live : query.search => hit[u] # {}}

\* The orders in which the database may return a selection: users with the same
\* value in the sort column come in any order, another one for each query.
Orders(S) ==
    {pos \in [S -> 1..Cardinality(S)] :
        \A u, v \in S : /\ pos[u] = pos[v] => u = v
                        /\ (IF query.orderBy = "id" THEN Before(u, v)
                            ELSE Before(key[u], key[v])) => pos[u] < pos[v]}

\* skip()
SkipToNext == query.limit * walk.page                                    \* mutant
Skip == query.limit * (walk.page - 1)

-----------------------------------------------------------------------------
(* The client's walk *)

Give(page) ==
    /\ returned' = returned \cup page
    /\ repeated' = repeated \cup (returned \cap page)

\* GET /user/cursor.  With limit 0 and no user to list, data.length equals the
\* limit and the id of the last of no rows is read: the request fails.
ReadByCursor ==
    LET page == FirstPage(SelectedByCursor)
    IN  /\ query.kind = "cursor"
        /\ walk.state = "asking"
        /\ Give(page)
        /\ walk' = IF ~HasMore(page) THEN [walk EXCEPT !.state = "done"]
                   ELSE IF page = {} THEN [walk EXCEPT !.state = "failed"]
                   ELSE [walk EXCEPT !.cursor = LastOf(page)]
        /\ UNCHANGED <<live, table, stayed, moves>>

\* GET /user/pagination: the first query of getManyAndCount.
ReadByPage ==
    /\ query.kind = "offset"
    /\ walk.state = "asking"
    /\ \E pos \in Orders(Matching) :
          Give({u \in Matching : pos[u] > Skip /\ pos[u] <= Skip + query.limit})
    /\ walk' = [walk EXCEPT !.state = "counting"]
    /\ UNCHANGED <<live, table, stayed, moves>>

\* Its second query, and nextPage.
CountAll ==
    /\ walk.state = "counting"
    /\ walk' = IF walk.page * query.limit < Cardinality(Matching)
               THEN [walk EXCEPT !.state = "asking", !.page = walk.page + 1]
               ELSE [walk EXCEPT !.state = "done"]
    /\ UNCHANGED <<live, table, returned, repeated, stayed, moves>>

-----------------------------------------------------------------------------
(* Other handlers *)

\* Pages by number are read while a few users come and go, pages by cursor
\* while any number does.
Count(n) == IF query.kind = "offset" THEN n + 1 ELSE n
MayMove == query.writers /\ (query.kind = "offset" => came + left < Moves)

\* A user is created or restored.
Appear(u) ==
    /\ MayMove
    /\ u \notin live
    /\ live' = live \cup {u}
    /\ came' = Count(came)
    /\ UNCHANGED <<table, walk, returned, repeated, stayed, left>>

\* A user is deleted, softly or for good.
Disappear(u) ==
    /\ MayMove
    /\ u \in live
    /\ live' = live \ {u}
    /\ stayed' = stayed \ {u}
    /\ left' = Count(left)
    /\ UNCHANGED <<table, walk, returned, repeated, came>>

-----------------------------------------------------------------------------

Ask == ReadByCursor \/ ReadByPage \/ CountAll

Next == Ask \/ \E u \in Id : Appear(u) \/ Disappear(u)

Spec == Init /\ [][Next]_vars

\* The client goes on, and the server answers.
LiveSpec == Spec /\ WF_vars(Ask)

-----------------------------------------------------------------------------
(* Properties *)

TypeOK ==
    /\ live \subseteq Id
    /\ hit \in [Id -> SUBSET {"name", "email"}]
    /\ key \in [Id -> Key]
    /\ query \in Queries
    /\ walk \in Walk
    /\ returned \subseteq Id
    /\ repeated \subseteq returned
    /\ stayed \subseteq live
    /\ came \in Nat /\ left \in Nat

\* No page of a walk gives a user that an earlier page gave, whatever users come
\* and go between the pages; a walk by page number repeats one at most for each
\* user that came, and moved another across the border of two pages.
NoRepeat == Cardinality(repeated) <= came

\* A walk that came to its end gave every user that it was to list and that was
\* there all along; a walk by page number misses one at most for each that left.
Complete ==
    walk.state = "done" =>
        Cardinality({u \in stayed \ returned : query.search => hit[u] # {}}) <= left

\* A client that follows nextCursor comes to an end, however many users come and
\* go meanwhile.
WalkEnds == <>(walk.state \in {"done", "failed"})
=============================================================================
