--------------------------- MODULE WidgetMessages ---------------------------
(***************************************************************************)
(* The statuses of a visitor's messages in one widget that loses its       *)
(* connection and gets it back: a message is shown as being sent until the *)
(* server names it to the connection of the session key, or a history      *)
(* replaces the list.  Connections are numbered; RealtimeSession has       *)
(* several widgets, replies and the errors of the handlers.                *)
(***************************************************************************)
EXTENDS Naturals

CONSTANTS
    Posts,       \* messages the visitor writes
    LastLine,    \* bound of the connections
    LastIdentify \* bound of the identify events

ASSUME WidgetAssumption == LastLine \in Nat \ {0} /\ LastIdentify \in Nat

Lines == 1 .. LastLine
IdentifyEvents == 1 .. LastIdentify

VARIABLES
    line,             \* the last connection, 0 before the first
    connectionStatus, \* what the widget takes it for
    reach,            \* each connection; "lost": no end of it knows yet
    isWindowOpen,
    shownAs,          \* the entry of a message in the widget's list
    post,             \* what the server did with it
    identified,       \* handlers of identify events
    uids,             \* connections whose socket data name the visitor
    routed,           \* the connection the session key names, 0 for none
    removing,         \* ended connections whose session is about to be deleted
    telling,          \* <<m, n>>: a messageSent for m is on its way to n
    erased,           \* history: m was written before a history without m came
    missed            \* history: m was under way when another's session was deleted

widgetVars ==
    <<line, connectionStatus, reach, isWindowOpen, shownAs, post, identified, uids, routed,
      removing, telling, erased, missed>>

-----------------------------------------------------------------------------
(* Types *)

IdentifyHandler ==
    [pc : {"unused", "reading", "read", "done"}, line : 0 .. LastLine, history : SUBSET Posts]

WidgetTypeOK ==
    /\ line \in 0 .. LastLine
    /\ connectionStatus \in {"connected", "disconnected"}
    /\ reach \in [Lines -> {"new", "up", "lost", "ended"}]
    /\ isWindowOpen \in BOOLEAN
    /\ shownAs \in [Posts -> {"absent", "sending", "sent"}]
    /\ post \in [Posts -> {"unsent", "dropped", "queued", "stored", "told"}]
    /\ identified \in [IdentifyEvents -> IdentifyHandler]
    /\ uids \subseteq Lines
    /\ routed \in 0 .. LastLine
    /\ removing \subseteq Lines
    /\ telling \subseteq Posts \X Lines
    /\ erased \subseteq Posts
    /\ missed \subseteq Posts

WidgetInit ==
    /\ line = 0
    /\ connectionStatus = "disconnected"
    /\ reach = [n \in Lines |-> "new"]
    /\ isWindowOpen = FALSE
    /\ shownAs = [m \in Posts |-> "absent"]
    /\ post = [m \in Posts |-> "unsent"]
    /\ identified = [i \in IdentifyEvents |-> [pc |-> "unused", line |-> 0, history |-> {}]]
    /\ uids = {}
    /\ routed = 0
    /\ removing = {}
    /\ telling = {}
    /\ erased = {}
    /\ missed = {}

-----------------------------------------------------------------------------
(* The connection and the window *)

\* The widget still hears connection n.
Hears(n) == n = line /\ connectionStatus = "connected" /\ reach[n] = "up"

\* An identify on connection n, whose handler sets the session first.
IdentifyOn(n) ==
    \E i \in IdentifyEvents :
        /\ identified[i].pc = "unused"
        /\ \A j \in 1 .. (i - 1) : identified[j].pc # "unused"
        /\ identified' = [identified EXCEPT ![i].pc = "reading", ![i].line = n]
        /\ routed' = n

\* Connecting for the first time, or again.  An open window identifies.
ConnectWidget ==
    /\ connectionStatus = "disconnected"
    /\ line < LastLine
    /\ line' = line + 1
    /\ connectionStatus' = "connected"
    /\ reach' = [reach EXCEPT ![line + 1] = "up"]
    /\ IF isWindowOpen THEN IdentifyOn(line + 1) ELSE UNCHANGED <<identified, routed>>
    /\ UNCHANGED <<isWindowOpen, shownAs, post, uids, removing, telling, erased, missed>>

\* Opening identifies again on a connection that is known already.
ToggleWindow ==
    /\ isWindowOpen' = ~isWindowOpen
    /\ IF isWindowOpen' /\ line # 0 /\ Hears(line)
       THEN IdentifyOn(line)
       ELSE UNCHANGED <<identified, routed>>
    /\ UNCHANGED <<line, connectionStatus, reach, shownAs, post, uids, removing, telling,
                   erased, missed>>

LoseLine ==
    /\ line # 0
    /\ reach[line] = "up"
    /\ reach' = [reach EXCEPT ![line] = "lost"]
    /\ UNCHANGED <<line, connectionStatus, isWindowOpen, shownAs, post, identified, uids,
                   routed, removing, telling, erased, missed>>

NoticeLoss ==
    /\ connectionStatus = "connected"
    /\ reach[line] # "up"
    /\ connectionStatus' = "disconnected"
    /\ UNCHANGED <<line, reach, isWindowOpen, shownAs, post, identified, uids, routed,
                   removing, telling, erased, missed>>

\* handleDisconnect: the GET of deleteVisitorSession finds the connection or not.
EndLine(n) ==
    /\ reach[n] = "lost"
    /\ reach' = [reach EXCEPT ![n] = "ended"]
    /\ removing' = IF n \in uids /\ routed = n THEN removing \union {n} ELSE removing
    /\ UNCHANGED <<line, connectionStatus, isWindowOpen, shownAs, post, identified, uids,
                   routed, telling, erased, missed>>

\* Its DEL, by now perhaps of the session of another connection.
DeleteRoute(n) ==
    /\ n \in removing
    /\ removing' = removing \ {n}
    /\ routed' = 0
    /\ missed' = IF routed \in {0, n} THEN missed
                 ELSE missed \union {m \in Posts : post[m] \in {"queued", "stored"}}
    /\ UNCHANGED <<line, connectionStatus, reach, isWindowOpen, shownAs, post, identified,
                   uids, telling, erased>>

-----------------------------------------------------------------------------
(* Messages *)

\* A handler that leaves the session to the identify.
Unrouted(n) == routed

\* A message sets the session again.
Rerouted(n) == n

\* The message is shown at once.  It gets lost with the connection, and the gateway
\* drops it as long as the socket is nobody's.
AddMessage(m) ==
    /\ isWindowOpen
    /\ connectionStatus = "connected"
    /\ post[m] = "unsent"
    /\ shownAs' = [shownAs EXCEPT ![m] = "sending"]
    /\ IF Hears(line) /\ line \in uids
       THEN /\ post' = [post EXCEPT ![m] = "queued"]
            /\ routed' = Rerouted(line)
       ELSE /\ post' = [post EXCEPT ![m] = "dropped"]
            /\ UNCHANGED routed
    /\ UNCHANGED <<line, connectionStatus, reach, isWindowOpen, identified, uids, removing,
                   telling, erased, missed>>

\* The worker's transaction.
StorePost(m) ==
    /\ post[m] = "queued"
    /\ post' = [post EXCEPT ![m] = "stored"]
    /\ UNCHANGED <<line, connectionStatus, reach, isWindowOpen, shownAs, identified, uids,
                   routed, removing, telling, erased, missed>>

\* Every API process hears the announcement, and looks the session up on its own.
TellVisitor(m) ==
    /\ post[m] \in {"stored", "told"}
    /\ post' = [post EXCEPT ![m] = "told"]
    /\ telling' = IF routed = 0 THEN telling ELSE telling \union {<<m, routed>>}
    /\ UNCHANGED <<line, connectionStatus, reach, isWindowOpen, shownAs, identified, uids,
                   routed, removing, erased, missed>>

\* An entry that a history replaced has another id, and is left alone.
FinalizeMessage(m, n) ==
    /\ <<m, n>> \in telling
    /\ telling' = telling \ {<<m, n>>}
    /\ shownAs' = IF Hears(n) /\ shownAs[m] = "sending"
                  THEN [shownAs EXCEPT ![m] = "sent"] ELSE shownAs
    /\ UNCHANGED <<line, connectionStatus, reach, isWindowOpen, post, identified, uids,
                   routed, removing, erased, missed>>

-----------------------------------------------------------------------------
(* Histories *)

ReadHistory(i) ==
    /\ identified[i].pc = "reading"
    /\ identified' = [identified EXCEPT
          ![i].pc = "read", ![i].history = {m \in Posts : post[m] \in {"stored", "told"}}]
    /\ UNCHANGED <<line, connectionStatus, reach, isWindowOpen, shownAs, post, uids, routed,
                   removing, telling, erased, missed>>

\* The history replaces the list, and what was written meanwhile with it.
LoadHistory(i) ==
    LET n == identified[i].line
        history == identified[i].history
    IN  /\ identified[i].pc = "read"
        /\ identified' = [identified EXCEPT ![i].pc = "done"]
        /\ uids' = IF reach[n] = "ended" THEN uids ELSE uids \union {n}
        /\ IF Hears(n)
           THEN /\ shownAs' = [m \in Posts |-> IF m \in history THEN "sent" ELSE "absent"]
                /\ erased' = (erased \union {m \in Posts : post[m] # "unsent"}) \ history
                /\ missed' = missed \ history
           ELSE UNCHANGED <<shownAs, erased, missed>>
        /\ UNCHANGED <<line, connectionStatus, reach, isWindowOpen, post, routed, removing,
                       telling>>

-----------------------------------------------------------------------------

WidgetNext ==
    \/ ConnectWidget \/ ToggleWindow \/ LoseLine \/ NoticeLoss
    \/ \E n \in Lines : EndLine(n) \/ DeleteRoute(n)
    \/ \E m \in Posts : AddMessage(m) \/ StorePost(m) \/ TellVisitor(m)
    \/ \E m \in Posts, n \in Lines : FinalizeMessage(m, n)
    \/ \E i \in IdentifyEvents : ReadHistory(i) \/ LoadHistory(i)

WidgetSpec == WidgetInit /\ [][WidgetNext]_widgetVars

-----------------------------------------------------------------------------
(* Properties *)

\* Connected and identified, with nothing under way.
AtRest ==
    /\ line \in uids
    /\ Hears(line)
    /\ \A i \in IdentifyEvents : identified[i].pc \in {"unused", "done"}
    /\ removing = {} /\ telling = {}
    /\ \A m \in Posts : post[m] \in {"unsent", "dropped", "told"}

\* handleVisitorMessageReceived, deleteVisitorSession, loadConversationHistory: at rest
\* the widget shows every stored message as sent, whatever connections were lost and
\* sessions deleted on the way, unless a history read too early replaced the entry or
\* another connection's session was deleted between the message and its answer.
StoredIsShownAsSent ==
    AtRest => \A m \in Posts :
        post[m] = "told" => m \in erased \union missed \/ shownAs[m] = "sent"

=============================================================================
