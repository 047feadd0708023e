CONSTANTS
    Wrap = 16
    TicksPerMs = 2
    UptimeMax = 80
    ArmMax = 60
    FirstArmMax = 15
    Latency = 3
    Durations <- SmallDurations
    PageBytes = 8
    SlotsPerPage = 3
    TablePages = 3
    ChunkBytes = 24
    MaxBytes = 56
    HighFrame = 80
    SourceFrames <- SmallSource
    TableFrames <- SmallTable
    Buffers <- SmallBuffers
    Captured <- SmallCaptured
    MamCount = 2
    MamValues = {0, 7, 65535}
    Filled = 65535
    Programs <- SmallPrograms
    SeqValues = {64, 65}
    SpiRequests <- SmallSpi
    ControlWords <- SmallControl
    Rom <- SmallRom
    Memory <- SmallMemory
    MemLength = 1
    PollLimit = 1
    Attempts = 2
    MaxFlips = 1
    Interfaces = {i1, i2}
    ResourceLists <- SmallLists
    Codes <- AllCodes
    Lengths <- SmallLengths
    DiagCommands <- SmallCommands
    Capacity = 2
    RecordMax = 5
    Sensitive = {2, 4}
    PollMax = 3
    Threads = {h1, h2}
    Imports = 2
    FlushEvery = 3
    CallMax = 2
    NoThread = NoThread
SPECIFICATION PartsSpec
CHECK_DEADLOCK FALSE
INVARIANTS DueIsLongest TableSpells AdmittedIsExecuted MamRuns SpiFramed IdGenuine
    ResourcesOwned BufferDiscipline DiagTruthful BackupGenuine CaptureComplete
    TraceFaithful
PROPERTIES Settled WaitEnds
