SPECIFICATION ChessSpec
CONSTANT Starts <- MCStarts
INVARIANTS BoardConsistent GeneratorIsRight DrawsAreTrue
PROPERTY IsChess
CHECK_DEADLOCK FALSE
