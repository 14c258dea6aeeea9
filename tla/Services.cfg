\* Five services and the session of a browser, each on an instance of three or four calls
\* that meet in every order.
SPECIFICATION Spec
CONSTANTS
    Services = {"row", "members", "providers", "webhook", "sessions", "agent"}
    Requests = {1, 2, 3}
    Edits <- MCEdits
    Agents = {"ann"}
    Nobody = Nobody
    MaxHistory = 2
    KeptHistory = 1
    MemberCalls = {1, 2, 3, 4}
    Users = {"eve", "bob", "joe"}
    Creator = "eve"
    Managers = {"eve", "bob"}
    NoCall = NoCall
    Asks <- MCAsks
    Generations = {1, 2, 3}
    Preference <- MCPreference
    Threshold = 2
    Recovery = 1
    LastTick = 3
    Dispatchers = {1}
    Publications = {1}
    Attempts = 3
    SessionCalls = {1, 2, 3, 4}
    Browsers = {"pc", "phone"}
    Wishes <- MCWishes
    Fragile = {3}
    NoSession = NoSession
    First = 1
    Home = "pc"
    SessionLimit = 2
    Grace = 0
    Lifetime = 2
    LastSecond = 3
    ApiCalls = {1, 2}
    UserMe = UserMe
    LastToken = 3
INVARIANTS
    TypeOK
    SerialUnlessRaced
    
    UnreadWereSent
    ManagedUnlessStale
    InvitationsAreUsedUp
    OpenCountsFailures
    RecoveryFollowsFailure
    AuditTrail
    CompletedWasReceived
    WithinLimitUnlessCrowded
    SessionFollowsAgent
PROPERTIES
    NoLogoutLoop
    CallsEnd
    JobsEnd
    ApiCallsReturn
CHECK_DEADLOCK FALSE
