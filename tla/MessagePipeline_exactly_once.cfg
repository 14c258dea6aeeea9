\* The documented exactly-once delivery, with a crash of a worker process
\* and a moment without a subscribed API.
SPECIFICATION Spec
CONSTANTS
    v1 = v1
    m1 = m1
    m2 = m2
    p1 = p1
    p2 = p2
    NoMessage = NoMessage
    Visitors = {v1}
    Messages = {m1, m2}
    Procs = {p1, p2}
    VisitorOf <- MCVisitorOf
    HistoryModes <- MCHistoryModes
    InitialModes <- MCLimited
    BatchLimit = 2
    MaxStalledCount = 0
    MaxCrashes = 1
    MaxRelayErrors = 0
    MaxRedisErrors = 0
    MaxListenFailures = 0
    MaxApiOutages = 1
    MaxEdits = 0
INVARIANT
    ExactlyOnceDelivery
CHECK_DEADLOCK FALSE
