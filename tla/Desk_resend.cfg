\* Two calls that send a form which expires.
SPECIFICATION Spec
CONSTANTS
    Parts = {"forms"}
    NoMessage = NoMessage
    NoNode = NoNode
    c1 = c1  c2 = c2  a1 = a1  a2 = a2 
    s1 = s1  s2 = s2  p1 = p1  p2 = p2
    Messages = {c1, c2}
    Pages = {}
    Nodes <- MCNodes
    Kind <- MCKind
    StartNode = "start"
    Edges <- MCEdges
    Handles <- MCHandles
    NoTemplate = NoTemplate
    NoSubmission = NoSubmission
    Templates = {form}
    Sends = {a1, a2}
    Submits = {c1}
    Drafts = {c1, c2}
    NoDraft = NoDraft
    PageLimit = 2
    FirstMessages = 3
    LastMessage = 5
    MaxPages = 2
    Projects = {1, 2}
    NoProject = NoProject
    LastSocket = 3
    MaxEvents = 3
    Sockets = {s1, s2}
    NoSocket = NoSocket
    Servers = {p1, p2}
    HomeOf <- MCHomeOf
    Replies = {r1}
    VisitorMessages = {m1}
    MaxIdentifies = 2
    MaxFaults = 1
    Posts = {c1, c2}
    LastLine = 2
    LastIdentify = 2
PROPERTIES
    ResendAfterExpiry
CHECK_DEADLOCK FALSE
