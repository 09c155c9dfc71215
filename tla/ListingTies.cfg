\* A walk by page numbers ordered by a column with equal values.
CONSTANTS
    Null = Null
    Moves = 3
    Id <- ThreeIds
    Key = {0, 1}
    Queries <- TiedWalks
SPECIFICATION Spec
INVARIANTS
    Complete
\* The walk ends.
CHECK_DEADLOCK FALSE
