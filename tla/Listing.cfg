\* Walks by cursor and by page number while users come and go.
CONSTANTS
    Null = Null
    Moves = 3
    Id <- FourIds
    Key = {0}
    Queries <- Walks
SPECIFICATION LiveSpec
INVARIANTS
    TypeOK
    NoRepeat
    Complete
PROPERTIES
    WalkEnds
\* The walk ends.
CHECK_DEADLOCK FALSE
