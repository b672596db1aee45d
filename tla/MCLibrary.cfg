SPECIFICATION LibrarySpec
CONSTANTS
    LastDay = 3
    BlockSizes = {2, 5}
    MaxLine = 3
    LineSizes = {1, 2}
    MaxLines = 3
    MaxLogFaults = 2
    Nul = Nul
    Names = {x}
    Values = {1}
    Absent = Absent
    Torn = Torn
    MaxSaves = 3
    MaxCrashes = 2
    RingSize = 4
    PushSizes = {1, 2, 3}
    MaxPushed = 9
    IdMask = 3
    Objects = {o1, o2, o3}
    NoObject = NoObject
    Senders = {s1, s2}
    PipeSize = 3
    ReadSize = 2
    MaxItems = 6
    k1 = k1
    k2 = k2
    k3 = k3
    Keys = {k1, k2, k3}
    Settings = {1, 2}
    NoSetting = NoSetting
    Buckets = 2
    BucketOf <- MCBucketOf
    Junk = Junk
    MaxText = 1
    MaxPairs = 3
    UdpSizes = {1, 3}
    UdpBufSize = 4
    MaxDatagram = 5
    MaxUdpSent = 3
    MaxUdpNet = 2
    MaxUdpGot = 2
    Streams <- MCStreams
    Requests = {0}
    AnswerSize = 1
    HeaderSize = 1
    MaxPacket = 7
    BufSize = 4
    MaxWrite = 6
    MsgSizes = {3}
    MaxSent = 6
    DaySeconds = 3
    Zone = 1
    LastSecond = 50
    Elements = {a, b}
    MaxSize = 4
    NoValue = NoValue
    MaxCount = 3
    LoginAfter = 1
    LoginEvery = 2
INVARIANTS
    LogIntact
    StampMatchesFile
    OneCopyWhole
    IntactWhileItFits
    FsmFound
    NotificationKept
    UdpWhole
    ConnIntact
    CalendarRight
    CheckStillHolds
    AnswerExpected
PROPERTIES
    LoadsWhatWasSaved
    StopEnds
    ConfigIsMap
    ImplementsFifo
    LoginFollows
    Reconnects
CHECK_DEADLOCK FALSE
