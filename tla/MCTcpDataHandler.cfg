SPECIFICATION Spec
CONSTANTS
    Streams <- MCStreams
    Requests = {0, 3}
    AnswerSize = 1
    HeaderSize = 2
    MaxPacket = 7
    BufSize = 4
    MaxWrite = 3
    MsgSizes = {3}
    MaxSent = 6
INVARIANTS
    OutputIntact
    InputIntact
    WatchesWrites
    SpaceToReceive
    OneEvent
PROPERTIES
    ArrivedIsDelivered
    QueuedIsSent
CHECK_DEADLOCK FALSE
