---------------------------- MODULE MCUserListing ----------------------------
(* Instances of UserListing for TLC. *)
EXTENDS UserListing

\* Apart from each other, so that an index is no id.
FourIds == {12, 14, 16, 18}
ThreeIds == {12, 14, 16}

\* A cursor without a search over a table that changes, and pages by number,
\* ordered by id, over one that changes, and with a search over one that does not.
Walks ==
    {q \in [kind : {"cursor", "offset"}, dir : {"ASC", "DESC"}, limit : 0..3,
            search : BOOLEAN, orderBy : {"id"}, writers : BOOLEAN] :
        IF q.kind = "cursor" THEN ~q.search /\ q.writers
        ELSE q.limit > 0 /\ q.search = ~q.writers}

\* A cursor with a search over a table that does not change.
SearchWalks ==
    [kind : {"cursor"}, dir : {"ASC", "DESC"}, limit : 1..2, search : {TRUE},
     orderBy : {"id"}, writers : {FALSE}]

\* Pages by number, ordered by a column with equal values.
TiedWalks ==
    [kind : {"offset"}, dir : {"ASC", "DESC"}, limit : 1..2, search : {FALSE},
     orderBy : {"other"}, writers : {FALSE}]
=============================================================================
