SPECIFICATION Spec
CONSTANTS
    WHMax = 2
    MaxOps = 2
    Reads = 1
    MaxLen = 1
    Sockets <- TwoThenOne
INVARIANTS SocketsKept
PROPERTIES ReadyStateForward Settles
