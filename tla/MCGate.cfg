SPECIFICATION Spec
CONSTANTS
    Fds = {1, 2, 3}
    Clients = {c1, c2, c3}
    Conns = {o1, o2}
    MaxPool = 0
    MaxAccept = 2
    NoFd = 0
    NoHandler = NoHandler
INVARIANTS
    PoolSafe
    DescriptorsOwned
    NoStaleEvent
PROPERTIES
    ConnectionEnds
    PendingAnswered
CHECK_DEADLOCK FALSE
