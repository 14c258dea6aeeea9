----------------------------- MODULE MCServices -----------------------------
(***************************************************************************)
(* Five services of the API and the session of an agent's browser, which share *)
(* no state, checked one beside the other: a behaviour is one of the service   *)
(* it starts with.                                                             *)
(***************************************************************************)
EXTENDS ConversationRow, ProjectMembers, LlmProviders, WebhookDelivery, UserSessions,
        AgentSession

CONSTANTS Services  \* those to check

VARIABLE service

servicesVars ==
    <<service, rowVars, memberVars, providerVars, webhookVars, sessionVars, agentVars>>

TypeOK ==
    /\ RowTypeOK /\ MembersTypeOK /\ ProvidersTypeOK
    /\ WebhookTypeOK /\ SessionsTypeOK /\ AgentTypeOK

Init ==
    /\ service \in Services
    /\ RowInit /\ MembersInit /\ ProvidersInit /\ WebhookInit /\ SessionsInit /\ AgentInit

RowStep ==
    /\ service = "row"
    /\ RowNext
    /\ UNCHANGED <<service, memberVars, providerVars, webhookVars, sessionVars, agentVars>>

MembersStep ==
    /\ service = "members"
    /\ MembersNext
    /\ UNCHANGED <<service, rowVars, providerVars, webhookVars, sessionVars, agentVars>>

ProvidersStep ==
    /\ service = "providers"
    /\ ProvidersNext
    /\ UNCHANGED <<service, rowVars, memberVars, webhookVars, sessionVars, agentVars>>

WebhookStep ==
    /\ service = "webhook"
    /\ WebhookNext
    /\ UNCHANGED <<service, rowVars, memberVars, providerVars, sessionVars, agentVars>>

SessionsStep ==
    /\ service = "sessions"
    /\ SessionsNext
    /\ UNCHANGED <<service, rowVars, memberVars, providerVars, webhookVars, agentVars>>

AgentStep ==
    /\ service = "agent"
    /\ AgentNext
    /\ UNCHANGED <<service, rowVars, memberVars, providerVars, webhookVars, sessionVars>>

Next == RowStep \/ MembersStep \/ ProvidersStep \/ WebhookStep \/ SessionsStep \/ AgentStep

\* The worker of the webhooks queue, the API and what the browser sent to it go on while
\* they can.
Fairness ==
    /\ WF_webhookVars(\E j \in Jobs : WorkOn(j) /\ service = "webhook")
    /\ WF_sessionVars(\E c \in SessionCalls : Proceed(c) /\ service = "sessions")
    /\ WF_agentVars(Respond /\ service = "agent")

Spec == Init /\ [][Next]_servicesVars /\ Fairness

-----------------------------------------------------------------------------
(* What the calls of the instances ask for *)

E(kind, to) == [kind |-> kind, to |-> to]

\* The first call writes a message, the second changes the conversation, the third the
\* pages visited or the assignee, too.
MCEdits ==
    [r \in Requests |->
        CASE r = 1 -> {E(k, Nobody) : k \in {"message", "reply", "greeting"}}
          [] r = 2 -> {E("status", "spam"), E("assign", "ann"), E("read", Nobody),
                       E("message", Nobody)}
          [] r = 3 -> {E(k, Nobody) : k \in {"visit", "truncate", "assign"}}]

A(kind, by, user, role, invite) ==
    [kind |-> kind, by |-> by, user |-> user, role |-> role, invite |-> invite]

\* Two managers act on each other; one of them is invited again, or joe is, who
\* accepts twice.
MCAsks ==
    [c \in MemberCalls |->
        CASE c = 1 -> {A("role", "eve", u, "agent", NoCall) : u \in {"eve", "bob"}}
                         \union {A("cancel", "eve", "bob", "agent", 3)}
          [] c = 2 -> {A("remove", "eve", "bob", "agent", NoCall),
                       A("role", "bob", "eve", "agent", NoCall),
                       A("remove", "bob", "eve", "agent", NoCall),
                       A("accept", "joe", "joe", "agent", 3)}
          [] c = 3 -> {A("invite", "eve", u, "agent", NoCall) : u \in {"bob", "joe"}}
          [] c = 4 -> {A("accept", u, u, "agent", 3) : u \in {"bob", "joe"}}
                         \union {A("invite", "eve", "bob", "agent", NoCall)}]

MCPreference == <<"groq", "openai">>

W(kind, browser) == [kind |-> kind, browser |-> browser]

MCWishes ==
    [c \in SessionCalls |->
        CASE c = 1 -> {}
          [] c = 2 -> {W("refresh", "pc"), W("login", "phone")}
          [] c = 3 -> {W("refresh", "pc"), W("profile", "pc")}
          [] c = 4 -> {W("refresh", "phone")}
                      \union {W(k, "pc") : k \in {"logout", "logoutAll", "password", "email"}}]
=============================================================================
