SPECIFICATION SafetySpec
CONSTANTS
    Streams <- MCStreams
    Requests = {0}
    AnswerSize = 1
    HeaderSize = 1
    MaxPacket = 7
    BufSize = 4
    MaxWrite = 3
    MsgSizes = {1, 3}
    MaxSent = 5
PROPERTIES
    SuccessIsQueued
CHECK_DEADLOCK FALSE
