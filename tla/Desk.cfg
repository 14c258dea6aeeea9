\* Two messages and a page; two calls that send a form and two that answer it; two replies;
\* two projects and three access tokens; a new visitor with two sockets on two
\* processes, two identifies,
\* one reply, one message, and one error, crash or expiry; two connections of a widget,
\* two identifies and two messages.
SPECIFICATION Spec
CONSTANTS
    Parts = {"ai", "forms", "inbox", "rooms", "session", "widget"}
    NoMessage = NoMessage
    NoNode = NoNode
    c1 = c1  c2 = c2  a1 = a1  a2 = a2
    s1 = s1  s2 = s2  p1 = p1  p2 = p2
    Messages = {c1, c2}
    Pages = {page}
    Nodes <- MCNodes
    Kind <- MCKind
    StartNode = "start"
    Edges <- MCEdges
    Handles <- MCHandles
    NoTemplate = NoTemplate
    NoSubmission = NoSubmission
    Templates = {form}
    Sends = {a1, a2}
    Submits = {c1, c2}
    Drafts = {c1, c2}
    NoDraft = NoDraft
    PageLimit = 2
    FirstMessages = 3
    LastMessage = 5
    MaxPages = 2
    Projects = {1, 2}
    NoProject = NoProject
    LastSocket = 3
    MaxEvents = 3
    Sockets = {s1, s2}
    NoSocket = NoSocket
    Servers = {p1, p2}
    HomeOf <- MCHomeOf
    Replies = {r1}
    VisitorMessages = {m1}
    MaxIdentifies = 2
    MaxFaults = 1
    Posts = {c1, c2}
    LastLine = 2
    LastIdentify = 2
SYMMETRY Alike
INVARIANTS
    TypeOK
    OneRunUnlessExpired
    PositionProtected
    PagesKept
    SubmittedOnce
    OneActiveUnlessRaced
    RepliesFollowRequests
    SettledUnlessScrolled
    RoomsFollowPage
    NoGhost
    SessionExpires
    ShownOnce
    StoredIsShownAsSent
PROPERTIES
    ImplementsFormAnswers
CHECK_DEADLOCK FALSE
