SPECIFICATION FileSpec
CONSTANTS
    SinkCount = 2
    BatchSize <- MCBatchSize
    Firehose = {2}
    Attempts = 2
    Capacity = 2
    MaxEvents = 4
    MaxMishaps = 1
    File = 1
    max_files = 2
    max_size = 2
    LineLength <- MCLineLength
    NoFile = NoFile
INVARIANTS
    AuditTypes
    NothingLostUnderWay
    CleanShutdownDelivers
    RotationKeepsNewest
PROPERTIES
    StoredInOrder
    AcceptedEventsHandedOver
CHECK_DEADLOCK FALSE
