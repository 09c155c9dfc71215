\* A cursor walk with a search over a table at rest.
CONSTANTS
    Null = Null
    Moves = 3
    Id <- ThreeIds
    Key = {0}
    Queries <- SearchWalks
SPECIFICATION Spec
INVARIANTS
    NoRepeat
\* The walk ends.
CHECK_DEADLOCK FALSE
