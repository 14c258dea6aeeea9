\* Two processes, two messages of one visitor, one of every fault.
SPECIFICATION BoundedSpec
CONSTANTS
    v1 = v1
    m1 = m1
    m2 = m2
    p1 = p1
    p2 = p2
    NoMessage = NoMessage
    Visitors = {v1}
    Messages = {m1, m2}
    Procs = {p1, p2}
    VisitorOf <- MCVisitorOf
    HistoryModes <- MCHistoryModes
    InitialModes <- MCHistoryModes
    BatchLimit = 2
    MaxStalledCount = 1
    MaxCrashes = 1
    MaxRelayErrors = 1
    MaxRedisErrors = 1
    MaxListenFailures = 1
    MaxApiOutages = 0
    MaxEdits = 1
INVARIANTS
    TypeOK
    OneActiveConversation
    CompletedIsStored
    DuplicateNeedsStall
    NoSilentLoss
    RepublishNeedsInterruption
PROPERTIES
    ImplementsOutbox
    EventsAreRelayed
    JobsSettle
CHECK_DEADLOCK FALSE
