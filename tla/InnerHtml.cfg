SPECIFICATION Spec
CONSTANTS
    BlockSize = 4
    MaxPiece = 3
    MaxPieces = 3
PROPERTY Answers
CHECK_DEADLOCK FALSE
