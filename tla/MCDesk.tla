------------------------------- MODULE MCDesk -------------------------------
(***************************************************************************)
(* Three parts of a conversation, the rooms of an agent's socket and the       *)
(* sockets and the messages of a visitor's widgets, which share no state,      *)
(* checked one beside the other: a behaviour is one of the part it starts with. *)
(***************************************************************************)
EXTENDS AiResponder, FormRequests, AgentInbox, AgentRooms, RealtimeSession,
        WidgetMessages, TLC

CONSTANTS
    Parts,  \* those to check
    c1, c2, a1, a2, s1, s2, p1, p2

\* An old and a new socket of a visitor, on two API processes.
MCHomeOf == (s1 :> p1) @@ (s2 :> p2)

\* Messages, drafts, the sockets with their processes, and calls that send or answer a
\* form are alike.  The parts share nothing, so one permutation exchanges a pair of each.
Alike ==
    Permutations({a1, a2})
    \union {(c1 :> c2) @@ (c2 :> c1) @@ (s1 :> s2) @@ (s2 :> s1) @@ (p1 :> p2) @@ (p2 :> p1)}

VARIABLE part

deskVars == <<part, aiVars, formVars, inboxVars, roomsVars, realtimeVars, widgetVars>>

TypeOK ==
    /\ AiTypeOK /\ FormsTypeOK /\ InboxTypeOK /\ RoomsTypeOK
    /\ RealtimeTypeOK /\ WidgetTypeOK

Init ==
    /\ part \in Parts
    /\ AiInit /\ FormsInit /\ InboxInit /\ RoomsInit /\ RealtimeInit /\ WidgetInit
    /\ ~db.visitor

AiStep ==
    /\ part = "ai"
    /\ AiNext
    /\ UNCHANGED <<part, formVars, inboxVars, roomsVars, realtimeVars, widgetVars>>

FormsStep ==
    /\ part = "forms"
    /\ FormsNext
    /\ UNCHANGED <<part, aiVars, inboxVars, roomsVars, realtimeVars, widgetVars>>

InboxStep ==
    /\ part = "inbox"
    /\ InboxNext
    /\ UNCHANGED <<part, aiVars, formVars, roomsVars, realtimeVars, widgetVars>>

RoomsStep ==
    /\ part = "rooms"
    /\ RoomsNext
    /\ UNCHANGED <<part, aiVars, formVars, inboxVars, realtimeVars, widgetVars>>

RealtimeStep ==
    /\ part = "session"
    /\ RealtimeNext
    /\ UNCHANGED <<part, aiVars, formVars, inboxVars, roomsVars, widgetVars>>

WidgetStep ==
    /\ part = "widget"
    /\ WidgetNext
    /\ UNCHANGED <<part, aiVars, formVars, inboxVars, roomsVars, realtimeVars>>

Next == AiStep \/ FormsStep \/ InboxStep \/ RoomsStep \/ RealtimeStep \/ WidgetStep

Spec == Init /\ [][Next]_deskVars

-----------------------------------------------------------------------------
(* A workflow with every kind of node: a note is added, then the model takes  *)
(* decisions until it answers.                                               *)

MCNodes == {"start", "note", "choose", "sales", "pick"}
MCKind ==
    [n \in MCNodes |->
        CASE n = "start"  -> "start"
          [] n = "note"   -> "action"
          [] n = "choose" -> "condition"
          [] n = "pick"   -> "switch"
          [] OTHER        -> "llm"]
Edge(source, handle, target) == [source |-> source, handle |-> handle, target |-> target]
MCEdges == << Edge("start", "out", "note"), Edge("note", "out", "choose"),
              Edge("choose", "yes", "sales"), Edge("choose", "out", "pick"),
              Edge("pick", "default", "sales") >>
MCHandles == {"out", "yes", "default"}
=============================================================================
