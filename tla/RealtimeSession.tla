--------------------------- MODULE RealtimeSession ---------------------------
(***************************************************************************)
(* The realtime session of one visitor: the sockets of the visitor's       *)
(* widgets (tabs, reconnects), the identify handshake, the Redis key that  *)
(* names the socket replies go to, the online status agents see, and what  *)
(* a widget shows of the conversation.                                     *)
(*                                                                         *)
(* Several API processes share Redis and the database.  A handler is cut   *)
(* at its awaits; the Redis commands of one process execute in the order   *)
(* it issues them, so a command that opens a handler is part of the step   *)
(* that issues it.  The conversation stays visible to the widget: changes  *)
(* of its status are MessagePipeline's.                                    *)
(***************************************************************************)
EXTENDS Naturals, FiniteSets

CONSTANTS
    Sockets,         \* Socket.IO connections of the visitor's widgets
    NoSocket,
    Servers,         \* API processes
    HomeOf,          \* the process that serves a socket
    Replies,         \* messages of agents
    VisitorMessages, \* messages of the visitor
    MaxIdentifies,   \* bound: identify events
    MaxFaults        \* bound: handler errors, crashes of API processes, and keys
                     \*        that outlive their three days

ASSUME RealtimeAssumption ==
    /\ NoSocket \notin Sockets
    /\ HomeOf \in [Sockets -> Servers]
    /\ Replies \intersect VisitorMessages = {}
    /\ MaxIdentifies \in Nat /\ MaxFaults \in Nat

Identifies == 1..MaxIdentifies
Items == Replies \union VisitorMessages

VARIABLES
    socket,      \* each connection; "gone": the server has not noticed yet
    known,       \* sockets whose data names the visitor (session.ready handled)
    identify,    \* handlers of identify events
    removal,     \* what deleteVisitorSession of a closed socket is about to do
    session,     \* the Redis key session:visitor:<uid>
    db,          \* whether the visitor and a conversation are in the database
    reply,       \* handlers of agent replies
    message,     \* the visitor's messages
    shown,       \* how often each socket's widget shows each item
    presence,    \* the visitor's status as last broadcast to the agents
    orphans,     \* history: sockets that ended without a delete of their own
    unexpiring,  \* history: an EXPIRE was lost
    overlap,     \* history: <<s, i>>: i was on its way while s identified
    base,        \* history: items stored when the last identify of s began
    faults       \* faults so far

realtimeVars ==
    <<socket, known, identify, removal, session, db, reply, message, shown, presence,
      orphans, unexpiring, overlap, base, faults>>

-----------------------------------------------------------------------------
(* Types *)

Session == [socket : Sockets \union {NoSocket}, ttl : BOOLEAN]

NoSession == [socket |-> NoSocket, ttl |-> FALSE]

IdentifyCall ==
    [pc : {"unused", "expiring", "looking", "absent", "sending", "sent", "failed"},
     socket : Sockets \union {NoSocket}, history : SUBSET Items, base : SUBSET Items]

\* "kept": stored, but its process died before it was emitted.
ReplyCall ==
    [pc : {"unsent", "looked", "stored", "done", "kept", "lost"},
     target : Sockets \union {NoSocket}]

MessageCall ==
    [pc : {"unsent", "expiring", "queued", "stored", "dropped"},
     sender : Sockets \union {NoSocket}]

RealtimeTypeOK ==
    /\ socket \in [Sockets -> {"new", "open", "gone", "closed"}]
    /\ known \subseteq Sockets
    /\ identify \in [Identifies -> IdentifyCall]
    /\ removal \in [Sockets -> {"none", "matched"}]
    /\ session \in Session
    /\ db \in [visitor : BOOLEAN, conversation : BOOLEAN]
    /\ reply \in [Replies -> ReplyCall]
    /\ message \in [VisitorMessages -> MessageCall]
    /\ shown \in [Sockets -> [Items -> 0..2]]
    /\ presence \in {"online", "offline"}
    /\ orphans \subseteq Sockets
    /\ unexpiring \in BOOLEAN
    /\ overlap \subseteq Sockets \X Items
    /\ base \in [Sockets -> SUBSET Items]
    /\ faults \in 0..MaxFaults

\* The visitor is new, or comes back to a conversation.
RealtimeInit ==
    /\ socket = [s \in Sockets |-> "new"]
    /\ known = {}
    /\ identify = [c \in Identifies |->
          [pc |-> "unused", socket |-> NoSocket, history |-> {}, base |-> {}]]
    /\ removal = [s \in Sockets |-> "none"]
    /\ session = NoSession
    /\ \E returning \in BOOLEAN :
          db = [visitor |-> returning, conversation |-> returning]
    /\ reply = [r \in Replies |-> [pc |-> "unsent", target |-> NoSocket]]
    /\ message = [m \in VisitorMessages |-> [pc |-> "unsent", sender |-> NoSocket]]
    /\ shown = [s \in Sockets |-> [i \in Items |-> 0]]
    /\ presence = "offline"
    /\ orphans = {}
    /\ unexpiring = FALSE
    /\ overlap = {}
    /\ base = [s \in Sockets |-> {}]
    /\ faults = 0

-----------------------------------------------------------------------------
(* What is on its way *)

Identifying(s) ==
    \E c \in Identifies : /\ identify[c].socket = s
                          /\ identify[c].pc \in {"expiring", "looking", "absent", "sending"}

StoredItems == {r \in Replies : reply[r].pc \in {"stored", "done", "kept"}}
               \union {m \in VisitorMessages : message[m].pc = "stored"}

ItemsUnderWay == {r \in Replies : reply[r].pc \in {"looked", "stored"}}
                 \union {m \in VisitorMessages : message[m].pc \in {"expiring", "queued"}}

ItemStarts(i) ==
    overlap' = overlap \union {<<s, i>> : s \in {t \in Sockets : Identifying(t)}}

Fault ==
    /\ faults < MaxFaults
    /\ faults' = faults + 1

-----------------------------------------------------------------------------
(* The session key *)

\* SET without options drops the TTL of the key.
SetTo(s) == [socket |-> s, ttl |-> FALSE]

\* A setVisitorSession that forgets the second command.
NotExpired == session

\* EXPIRE does nothing if the key is gone.
Expired == IF session = NoSession THEN session ELSE [session EXCEPT !.ttl = TRUE]

SessionTimeout ==
    /\ session.ttl
    /\ Fault
    /\ session' = NoSession
    /\ UNCHANGED <<socket, known, identify, removal, db, reply, message, shown,
                   presence, orphans, unexpiring, overlap, base>>

-----------------------------------------------------------------------------
(* Connect and identify *)

Connect(s) ==
    /\ socket[s] = "new"
    /\ socket' = [socket EXCEPT ![s] = "open"]
    /\ UNCHANGED <<known, identify, removal, session, db, reply, message, shown,
                   presence, orphans, unexpiring, overlap, base, faults>>

\* The widget identifies whenever its window is open and the socket connected, so
\* again and again on one socket.  The status is broadcast without waiting.
Identify(c, s) ==
    /\ socket[s] = "open"
    /\ identify[c].pc = "unused"
    /\ \A d \in 1..(c - 1) : identify[d].pc # "unused"
    /\ presence' = "online"
    /\ overlap' = overlap \union {<<s, i>> : i \in ItemsUnderWay}
    /\ \/ /\ session' = SetTo(s)
          /\ identify' = [identify EXCEPT ![c] =
                [pc |-> "expiring", socket |-> s, history |-> {}, base |-> StoredItems]]
          /\ UNCHANGED faults
       \/ /\ Fault
          /\ identify' = [identify EXCEPT ![c] =
                [pc |-> "failed", socket |-> s, history |-> {}, base |-> {}]]
          /\ UNCHANGED session
    /\ UNCHANGED <<socket, known, removal, db, reply, message, shown, orphans,
                   unexpiring, base>>

ExpireIdentified(c) ==
    /\ identify[c].pc = "expiring"
    /\ \/ /\ session' = Expired
          /\ identify' = [identify EXCEPT ![c].pc = "looking"]
          /\ UNCHANGED <<unexpiring, faults>>
       \/ /\ Fault
          /\ unexpiring' = TRUE
          /\ identify' = [identify EXCEPT ![c].pc = "failed"]
          /\ UNCHANGED session
    /\ UNCHANGED <<socket, known, removal, db, reply, message, shown, presence,
                   orphans, overlap, base>>

\* A history without the agents' messages.
OwnHistory(c) == StoredItems \ Replies

HistoryRead(c) == StoredItems

\* The transaction: the visitor's row, then the conversation and its messages.
LookUpVisitor(c) ==
    /\ identify[c].pc = "looking"
    /\ \/ /\ db.visitor
          /\ identify' = [identify EXCEPT ![c].pc = "sending", ![c].history = HistoryRead(c)]
          /\ UNCHANGED faults
       \/ /\ ~db.visitor
          /\ identify' = [identify EXCEPT ![c].pc = "absent"]
          /\ UNCHANGED faults
       \/ /\ Fault
          /\ identify' = [identify EXCEPT ![c].pc = "failed"]
    /\ UNCHANGED <<socket, known, removal, session, db, reply, message, shown,
                   presence, orphans, unexpiring, overlap, base>>

\* Two tabs of a new visitor insert the same uid: the second violates its unique
\* constraint, and its socket never gets a history.
InsertVisitor(c) ==
    /\ identify[c].pc = "absent"
    /\ identify' = [identify EXCEPT ![c].pc = IF db.visitor THEN "failed" ELSE "sending"]
    /\ db' = [db EXCEPT !.visitor = TRUE]
    /\ UNCHANGED <<socket, known, removal, session, reply, message, shown, presence,
                   orphans, unexpiring, overlap, base, faults>>

\* The widget replaces what it shows by the history.
History(items) == [i \in Items |-> IF i \in items THEN 1 ELSE 0]

\* prepareSocketForVisitor finds no socket if it was closed meanwhile.
PrepareSocket(c) ==
    LET s == identify[c].socket
    IN  /\ identify[c].pc = "sending"
        /\ identify' = [identify EXCEPT ![c].pc = "sent"]
        /\ IF socket[s] \in {"open", "gone"}
           THEN /\ known' = known \union {s}
                /\ shown' = [shown EXCEPT ![s] = History(identify[c].history)]
                /\ base' = [base EXCEPT ![s] = identify[c].base]
           ELSE UNCHANGED <<known, shown, base>>
        /\ UNCHANGED <<socket, removal, session, db, reply, message, presence, orphans,
                       unexpiring, overlap, faults>>

-----------------------------------------------------------------------------
(* Disconnect *)

\* The tab is closed, or the network is lost.
CloseWidget(s) ==
    /\ socket[s] = "open"
    /\ socket' = [socket EXCEPT ![s] = "gone"]
    /\ UNCHANGED <<known, identify, removal, session, db, reply, message, shown,
                   presence, orphans, unexpiring, overlap, base, faults>>

Matches(s) == session.socket = s

\* Telling the agents only if the session was deleted.
StatusIfMatched(s) == IF s \in known /\ session.socket = s THEN "offline" ELSE presence

StatusAfter(s) == IF s \in known THEN "offline" ELSE presence

\* handleDisconnect does not wait for deleteVisitorSession, whose GET is under way.
\* A socket whose identify was not answered is nobody's.
Disconnect(s) ==
    /\ socket[s] = "gone"
    /\ socket' = [socket EXCEPT ![s] = "closed"]
    /\ removal' = [removal EXCEPT ![s] =
          IF s \in known /\ Matches(s) THEN "matched" ELSE "none"]
    /\ presence' = StatusAfter(s)
    /\ orphans' = IF s \in known THEN orphans ELSE orphans \union {s}
    /\ UNCHANGED <<known, identify, session, db, reply, message, shown, unexpiring,
                   overlap, base, faults>>

\* The DEL that follows a GET that returned the socket.
RemoveSession(s) ==
    /\ removal[s] = "matched"
    /\ removal' = [removal EXCEPT ![s] = "none"]
    /\ session' = NoSession
    /\ UNCHANGED <<socket, known, identify, db, reply, message, shown, presence,
                   orphans, unexpiring, overlap, base, faults>>

-----------------------------------------------------------------------------
(* Messages of the visitor *)

\* The composer is enabled as soon as the socket is connected, and shows the
\* message at once; the gateway drops what an unknown socket sends.
SendMessage(m, s) ==
    /\ socket[s] = "open"
    /\ message[m].pc = "unsent"
    /\ shown' = [shown EXCEPT ![s][m] = 1]
    /\ ItemStarts(m)
    /\ \/ /\ s \in known
          /\ session' = SetTo(s)
          /\ message' = [message EXCEPT ![m] = [pc |-> "expiring", sender |-> s]]
          /\ UNCHANGED faults
       \/ /\ s \notin known
          /\ message' = [message EXCEPT ![m] = [pc |-> "dropped", sender |-> s]]
          /\ UNCHANGED <<session, faults>>
       \/ /\ s \in known /\ Fault
          /\ message' = [message EXCEPT ![m] = [pc |-> "dropped", sender |-> s]]
          /\ UNCHANGED session
    /\ UNCHANGED <<socket, known, identify, removal, db, reply, presence, orphans,
                   unexpiring, base>>

QueueMessage(m) ==
    /\ message[m].pc = "expiring"
    /\ \/ /\ session' = Expired
          /\ message' = [message EXCEPT ![m].pc = "queued"]
          /\ UNCHANGED <<unexpiring, faults>>
       \/ /\ Fault
          /\ unexpiring' = TRUE
          /\ message' = [message EXCEPT ![m].pc = "dropped"]
          /\ UNCHANGED session
    /\ UNCHANGED <<socket, known, identify, removal, db, reply, shown, presence,
                   orphans, overlap, base>>

\* The worker stores the message (see MessagePipeline).
WorkerStores(m) ==
    /\ message[m].pc = "queued"
    /\ message' = [message EXCEPT ![m].pc = "stored"]
    /\ db' = [db EXCEPT !.conversation = TRUE]
    /\ UNCHANGED <<socket, known, identify, removal, session, reply, shown, presence,
                   orphans, unexpiring, overlap, base, faults>>

-----------------------------------------------------------------------------
(* Replies of agents *)

\* sendAgentReply reads the session inside its transaction, before it stores.
LookUpSession(r) ==
    /\ reply[r].pc = "unsent"
    /\ db.conversation
    /\ reply' = [reply EXCEPT ![r] =
          [pc |-> "looked", target |-> session.socket]]
    /\ ItemStarts(r)
    /\ UNCHANGED <<socket, known, identify, removal, session, db, message, shown,
                   presence, orphans, unexpiring, base, faults>>

CommitReply(r) ==
    /\ reply[r].pc = "looked"
    /\ \/ /\ reply' = [reply EXCEPT ![r].pc = "stored"]
          /\ UNCHANGED faults
       \/ /\ Fault
          /\ reply' = [reply EXCEPT ![r].pc = "lost"]
    /\ UNCHANGED <<socket, known, identify, removal, session, db, message, shown,
                   presence, orphans, unexpiring, overlap, base>>

Emitted(r) == [reply[r] EXCEPT !.pc = "done"]

\* The widget appends what it receives.
EmitReply(r) ==
    LET s == reply[r].target
    IN  /\ reply[r].pc = "stored"
        /\ reply' = [reply EXCEPT ![r] = Emitted(r)]
        /\ IF s # NoSocket /\ socket[s] = "open"
           THEN shown' = [shown EXCEPT ![s][r] = @ + 1]
           ELSE UNCHANGED shown
        /\ UNCHANGED <<socket, known, identify, removal, session, db, message,
                       presence, orphans, unexpiring, overlap, base, faults>>

-----------------------------------------------------------------------------
(* Crash of an API process *)

\* Its sockets close and its handlers end, those of replies among them: what was not
\* committed is rolled back.
CrashServer(a) ==
    LET served == {s \in Sockets : HomeOf[s] = a}
    IN  /\ Fault
        /\ socket' = [s \in Sockets |->
              IF s \in served /\ socket[s] # "new" THEN "closed" ELSE socket[s]]
        /\ removal' = [s \in Sockets |-> IF s \in served THEN "none" ELSE removal[s]]
        /\ orphans' = orphans \union
              {s \in served : socket[s] \in {"open", "gone"} \/ removal[s] = "matched"}
        /\ identify' = [c \in Identifies |->
              IF identify[c].socket \in served /\ identify[c].pc # "sent"
              THEN [identify[c] EXCEPT !.pc = "failed"] ELSE identify[c]]
        /\ \E handled \in SUBSET (ItemsUnderWay \intersect Replies) :
              reply' = [r \in Replies |->
                  IF r \notin handled THEN reply[r]
                  ELSE [reply[r] EXCEPT !.pc = IF @ = "looked" THEN "lost" ELSE "kept"]]
        /\ message' = [m \in VisitorMessages |->
              IF message[m].sender \in served /\ message[m].pc = "expiring"
              THEN [message[m] EXCEPT !.pc = "dropped"] ELSE message[m]]
        /\ unexpiring' = (unexpiring \/ session # NoSession)
        /\ UNCHANGED <<known, session, db, shown, presence, overlap, base>>

-----------------------------------------------------------------------------

IdentifyStep(c) ==
    ExpireIdentified(c) \/ LookUpVisitor(c) \/ InsertVisitor(c) \/ PrepareSocket(c)

DisconnectStep(s) == Disconnect(s) \/ RemoveSession(s)

MessageStep(m) == QueueMessage(m) \/ WorkerStores(m)

ReplyStep(r) == CommitReply(r) \/ EmitReply(r)

RealtimeNext ==
    \/ \E c \in Identifies : IdentifyStep(c) \/ \E s \in Sockets : Identify(c, s)
    \/ \E s \in Sockets : Connect(s) \/ CloseWidget(s) \/ DisconnectStep(s)
    \/ \E m \in VisitorMessages : MessageStep(m) \/ \E s \in Sockets : SendMessage(m, s)
    \/ \E r \in Replies : LookUpSession(r) \/ ReplyStep(r)
    \/ SessionTimeout
    \/ \E a \in Servers : CrashServer(a)

RealtimeSpec == RealtimeInit /\ [][RealtimeNext]_realtimeVars

-----------------------------------------------------------------------------
(* Properties *)

AllGone ==
    /\ \A s \in Sockets : /\ socket[s] \in {"new", "closed"}
                          /\ removal[s] = "none"
                          /\ ~Identifying(s)
    /\ \A m \in VisitorMessages : message[m].pc # "expiring"

\* Once every widget is closed and its handlers are through, the visitor is offline
\* to the agents and has no session, unless a socket was closed before its identify
\* was answered or its process went down.
NoGhost ==
    AllGone => /\ presence = "online" => orphans # {}
               /\ session # NoSession => session.socket \in orphans

\* Every session key has an expiry or is about to get it, whatever SET and EXPIRE
\* of several sockets interleave, unless an EXPIRE was lost.
SessionExpires ==
    session = NoSession \/ session.ttl \/ unexpiring
    \/ (\E c \in Identifies : identify[c].pc = "expiring")
    \/ (\E m \in VisitorMessages : message[m].pc = "expiring")

\* The socket that receives an item when it is done, if the key named it.
Target(i) == IF i \in Replies THEN reply[i].target ELSE message[i].sender

Finished(i) == IF i \in Replies THEN reply[i].pc = "done" ELSE message[i].pc = "stored"

\* A widget shows every item exactly once that was stored before its last identify
\* or was sent to it since: an item can be missing or doubled only if it was on its
\* way while the socket identified.
ShownOnce ==
    \A s \in known, i \in Items :
        /\ socket[s] = "open" /\ <<s, i>> \notin overlap
        /\ i \in base[s] \/ (Finished(i) /\ Target(i) = s)
        => shown[s][i] = 1

\* realtime-session.service.ts: the comparison "prevents a race condition where a
\* new connection's session is accidentally deleted by the old connection's
\* disconnect event".
LiveSessionKept ==
    [][session # NoSession /\ session' = NoSession
         => socket[session.socket] \in {"gone", "closed"}]_realtimeVars

=============================================================================
