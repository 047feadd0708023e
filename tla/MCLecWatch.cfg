SPECIFICATION MonitorSpec
\* The requests and the user's inputs cease.
CHECK_DEADLOCK FALSE
CONSTANTS
    Capacity = 2
    RecordMax = 4
    QueueMax = 2
    Traced <- SmallTraced
    Described <- SmallDescribed
    DallasCodes = {"23084"}
    FilterMatches = {"CFDC2110"}
    MaxStats = 2
    MaxEvents = 4
    MaxLogRows = 2
    MaxHashes = 2
    NovelHold = 0
    StepMax = 4
    ClockMax = 2
INVARIANTS
    LoggedOnceInOrder
    EveryRecordAccounted
    StatusHonest
    SessionKept
    SessionShown
PROPERTIES
    ImplementsLog
    LogCatchesUp
