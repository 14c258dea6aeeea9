----------------------------- MODULE AgentRooms -----------------------------
(***************************************************************************)
(* The rooms of an agent's socket: the dashboard makes a socket for every      *)
(* access token, joins the room of the project its page shows and leaves it    *)
(* with the page; the server handles joins and leaves in any order.            *)
(***************************************************************************)
EXTENDS SequencesExt

CONSTANTS
    Projects,
    NoProject,   \* the projectId of a page of no project
    LastSocket,  \* bound of the sockets, one per access token
    MaxEvents    \* bound of the events on their way, when another page is shown

ASSUME RoomsAssumption ==
    /\ NoProject \notin Projects
    /\ LastSocket \in Nat \ {0}
    /\ MaxEvents \in Nat

VARIABLES
    sockets,   \* number of sockets made so far
    newSocket, \* that of the access token in the store, 0 without one
    link,      \* its connection
    held,      \* the socket of the context, 0 for null
    projectId, \* that of the URL
    effect,    \* what the effect of the page ran with last
    buffer,    \* events emitted while the socket is not connected
    arriving,  \* events the server has not handled yet
    rooms,     \* rooms of the connection
    spoiled    \* history: what happened to a project's room since its last event

roomsVars ==
    <<sockets, newSocket, link, held, projectId, effect, buffer, arriving, rooms, spoiled>>

-----------------------------------------------------------------------------
(* Types *)

RoomEvent == [kind : {"join", "leave"}, project : Projects]

Effect == [socket : 1 .. LastSocket, project : Projects]
NoEffect == [socket |-> 0, project |-> NoProject]

Causes == {"crossed", "refused", "dropped"}

RoomsTypeOK ==
    /\ sockets \in 0 .. LastSocket
    /\ newSocket \in {0, sockets}
    /\ link \in {"none", "connecting", "up", "closed"}
    /\ held \in {0, newSocket}
    /\ projectId \in Projects \union {NoProject}
    /\ effect \in Effect \union {NoEffect}
    /\ buffer \in Seq(RoomEvent)
    /\ arriving \in Seq(RoomEvent)
    /\ rooms \subseteq Projects
    /\ spoiled \in [Projects -> SUBSET Causes]

RoomsInit ==
    /\ sockets = 0
    /\ newSocket = 0
    /\ link = "none"
    /\ held = 0
    /\ projectId = NoProject
    /\ effect = NoEffect
    /\ buffer = <<>>
    /\ arriving = <<>>
    /\ rooms = {}
    /\ spoiled = [p \in Projects |-> {}]

-----------------------------------------------------------------------------
(* The socket of the access token *)

\* The server forgets a connection and what was on its way to it.
LoseConnection ==
    /\ arriving' = <<>>
    /\ rooms' = {}

\* Another access token: the socket of the old one is closed, and null in the context
\* until the new one is connected.
MakeSocket ==
    /\ sockets < LastSocket
    /\ sockets' = sockets + 1
    /\ newSocket' = sockets'
    /\ link' = "connecting"
    /\ held' = 0
    /\ buffer' = <<>>
    /\ LoseConnection
    /\ spoiled' = [p \in Projects |-> {}]
    /\ UNCHANGED <<projectId, effect>>

\* No access token: the pages of the projects are gone, too.
LeaveDashboard ==
    /\ newSocket # 0
    /\ newSocket' = 0
    /\ link' = "none"
    /\ held' = 0
    /\ projectId' = NoProject
    /\ buffer' = <<>>
    /\ LoseConnection
    /\ spoiled' = [p \in Projects |-> {}]
    /\ UNCHANGED <<sockets, effect>>

\* What was emitted meanwhile is sent first.
ConnectSocket ==
    /\ link = "connecting"
    /\ link' = "up"
    /\ arriving' = buffer
    /\ buffer' = <<>>
    /\ held' = newSocket
    /\ UNCHANGED <<sockets, newSocket, projectId, effect, rooms, spoiled>>

\* The effect is not run for a connection that comes back.
Unheard ==
    spoiled' = IF effect.socket = newSocket
               THEN [spoiled EXCEPT ![effect.project] = @ \union {"dropped"}]
               ELSE spoiled

DropConnection ==
    /\ link = "up"
    /\ link' = "connecting"
    /\ LoseConnection
    /\ Unheard
    /\ UNCHANGED <<sockets, newSocket, held, projectId, effect, buffer>>

\* The token is checked after the connection is there; a client that the server
\* disconnects does not try again.
RejectConnection ==
    /\ link = "up"
    /\ link' = "closed"
    /\ LoseConnection
    /\ Unheard
    /\ UNCHANGED <<sockets, newSocket, held, projectId, effect, buffer>>

-----------------------------------------------------------------------------
(* The page *)

ShowPage(p) ==
    /\ newSocket # 0
    /\ projectId # p
    /\ projectId' = p
    /\ UNCHANGED <<sockets, newSocket, link, held, effect, buffer, arriving, rooms, spoiled>>

Wanted ==
    IF held = 0 \/ projectId = NoProject
    THEN NoEffect
    ELSE [socket |-> held, project |-> projectId]

EffectDue == effect # Wanted

\* The event of the effect's end; one for a socket that was closed is never sent.
Leave ==
    IF effect # NoEffect /\ effect.socket = newSocket
    THEN << [kind |-> "leave", project |-> effect.project] >>
    ELSE <<>>

\* The effect ends without an event.
Stay == <<>>

EndEffect == Leave

Join == IF Wanted = NoEffect THEN <<>> ELSE << [kind |-> "join", project |-> projectId] >>

OnTheWay == {e.project : e \in ToSet(buffer \o arriving)}

RunEffect ==
    /\ EffectDue
    /\ Len(buffer \o arriving) < MaxEvents
    /\ effect' = Wanted
    /\ LET events == EndEffect \o Join
       IN /\ IF link = "up"
             THEN arriving' = arriving \o events /\ UNCHANGED buffer
             ELSE buffer' = buffer \o events /\ UNCHANGED arriving
          /\ spoiled' = [p \in Projects |->
                            IF p \notin {e.project : e \in ToSet(events)} THEN spoiled[p]
                            ELSE IF p \in OnTheWay THEN {"crossed"}
                            ELSE {}]
    /\ UNCHANGED <<sockets, newSocket, link, held, projectId, rooms>>

-----------------------------------------------------------------------------
(* The server: a guard reads the user and a join the membership, each with a    *)
(* query of its own, so events overtake each other.                             *)

HandleJoin(i) ==
    /\ arriving[i].kind = "join"
    /\ rooms' = rooms \union {arriving[i].project}
    /\ arriving' = RemoveAt(arriving, i)
    /\ UNCHANGED <<sockets, newSocket, link, held, projectId, effect, buffer, spoiled>>

HandleLeave(i) ==
    /\ arriving[i].kind = "leave"
    /\ rooms' = rooms \ {arriving[i].project}
    /\ arriving' = RemoveAt(arriving, i)
    /\ UNCHANGED <<sockets, newSocket, link, held, projectId, effect, buffer, spoiled>>

\* The token has expired, the agent is no member, or a query fails.
RefuseEvent(i) ==
    /\ spoiled' = [spoiled EXCEPT ![arriving[i].project] = @ \union {"refused"}]
    /\ arriving' = RemoveAt(arriving, i)
    /\ UNCHANGED <<sockets, newSocket, link, held, projectId, effect, buffer, rooms>>

-----------------------------------------------------------------------------

RoomsNext ==
    \/ MakeSocket \/ LeaveDashboard
    \/ ConnectSocket \/ DropConnection \/ RejectConnection
    \/ \E p \in Projects \union {NoProject} : ShowPage(p)
    \/ RunEffect
    \/ \E i \in DOMAIN arriving : HandleJoin(i) \/ HandleLeave(i) \/ RefuseEvent(i)

RoomsSpec == RoomsInit /\ [][RoomsNext]_roomsVars

-----------------------------------------------------------------------------
(* Properties *)

\* Nothing that concerns the rooms is under way.
Quiet == link = "up" /\ ~EffectDue /\ arriving = <<>>

\* Whatever tokens, sockets and pages came and went, a quiet dashboard is in the room of
\* the project it shows and in no other, unless a join and a leave of the room crossed, one
\* of them was refused, or the connection was lost since the page joined.
RoomsFollowPage ==
    Quiet => \A p \in Projects : spoiled[p] = {} => (p \in rooms <=> p = projectId)

\* "All agents who joined `project:${projectId}` room receive the `NEW_MESSAGE` event",
\* connections that come back included: the room of the page is joined again.
JoinedAgentsReceive ==
    Quiet => \A p \in Projects : spoiled[p] \subseteq {"dropped"} /\ p = projectId => p \in rooms
=============================================================================
