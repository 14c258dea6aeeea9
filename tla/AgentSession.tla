---------------------------- MODULE AgentSession ----------------------------
(***************************************************************************)
(* The session of an agent's browser: the access token in its store, the      *)
(* calls of the API that carry it, the refresh that calls with a refused       *)
(* token share, and the agent who logs in, logs out and loads the page anew.   *)
(***************************************************************************)
EXTENDS Naturals

CONSTANTS
    ApiCalls,   \* calls of the pages
    UserMe,     \* the call that verifies the session when the page is loaded
    LastToken   \* bound of the access tokens

ASSUME AgentAssumption ==
    /\ UserMe \notin ApiCalls
    /\ LastToken \in Nat \ {0}

VARIABLES
    bearer,     \* accessToken of the store, 0 for null
    signedIn,   \* isAuthenticated
    apiCall,    \* the calls
    renewal,    \* refreshPromise
    goodbye,    \* the request of a logout
    tokens,     \* access tokens issued so far
    expired,    \* those that have expired
    renewable,  \* whether the server would refresh the cookie the browser has
    said,       \* history: which took effect last, a login or a logout
    crossed,    \* history: a refresh was under way then, or the logout left the cookie
    repelled    \* history: a refresh or a verification has failed since

agentVars == <<bearer, signedIn, apiCall, renewal, goodbye, tokens, expired, renewable,
               said, crossed, repelled>>

-----------------------------------------------------------------------------
(* Types *)

Tokens == 1 .. LastToken

ApiCall == [pc : {"unused", "sent", "waiting", "ended"},
            token : {0} \union Tokens, retried : BOOLEAN]

Renewal == [pc : {"idle", "sent", "granted"}, token : {0} \union Tokens]

AgentTypeOK ==
    /\ bearer \in {0} \union Tokens
    /\ signedIn \in BOOLEAN
    /\ apiCall \in [ApiCalls \union {UserMe} -> ApiCall]
    /\ renewal \in Renewal
    /\ goodbye \in {"none", "sent", "served"}
    /\ tokens \in {0} \union Tokens
    /\ expired \subseteq 1 .. tokens
    /\ renewable \in BOOLEAN
    /\ said \in {"login", "logout"}
    /\ crossed \in BOOLEAN
    /\ repelled \in BOOLEAN

CallAt(pc, token) == [pc |-> pc, token |-> token, retried |-> FALSE]

Ended == CallAt("ended", 0)

NoRenewal == [pc |-> "idle", token |-> 0]

\* The agent logged in before, and the page is there.
AgentInit ==
    /\ bearer = 1
    /\ signedIn = TRUE
    /\ apiCall = [c \in ApiCalls \union {UserMe} |->
                     IF c = UserMe THEN Ended ELSE CallAt("unused", 0)]
    /\ renewal = NoRenewal
    /\ goodbye = "none"
    /\ tokens = 1
    /\ expired = {}
    /\ renewable = TRUE
    /\ said = "login"
    /\ crossed = FALSE
    /\ repelled = FALSE

Pending(c) == apiCall[c].pc \in {"sent", "waiting"}

\* Nothing but a spinner is there while the session is verified.
Loading == Pending(UserMe)

-----------------------------------------------------------------------------
(* The store *)

\* login and setAccessToken
Enter(token) ==
    /\ bearer' = token
    /\ signedIn' = TRUE

SignOut ==
    /\ bearer' = 0
    /\ signedIn' = FALSE

-----------------------------------------------------------------------------
(* Calls: the interceptors of api.ts *)

SendCall(c) ==
    /\ signedIn /\ ~Loading
    /\ apiCall[c].pc = "unused"
    /\ apiCall' = [apiCall EXCEPT ![c] = CallAt("sent", bearer)]
    /\ UNCHANGED <<bearer, signedIn, renewal, goodbye, tokens, expired, renewable, said,
                   crossed, repelled>>

Accepted(c) == apiCall[c].token # 0 /\ apiCall[c].token \notin expired

\* A verified session needs the token that is in the store by now.
AnswerCall(c) ==
    /\ apiCall[c].pc = "sent"
    /\ Accepted(c)
    /\ apiCall' = [apiCall EXCEPT ![c] = Ended]
    /\ IF c # UserMe THEN UNCHANGED <<bearer, signedIn>>
       ELSE IF bearer # 0 THEN Enter(bearer) ELSE SignOut
    /\ UNCHANGED <<renewal, goodbye, tokens, expired, renewable, said, crossed, repelled>>

Reject(c) ==
    /\ apiCall' = [apiCall EXCEPT ![c] = Ended]
    /\ IF c = UserMe THEN SignOut /\ repelled' = TRUE
                     ELSE UNCHANGED <<bearer, signedIn, repelled>>
    /\ UNCHANGED <<goodbye, tokens, expired, renewable, said, crossed>>

\* The call fails, in whatever way other than a 401.
FailCall(c) ==
    /\ apiCall[c].pc = "sent"
    /\ Reject(c)
    /\ UNCHANGED renewal

\* A second refusal in a row.
RefuseAgain(c) ==
    /\ apiCall[c].pc = "sent"
    /\ ~Accepted(c) /\ apiCall[c].retried
    /\ Reject(c)
    /\ UNCHANGED renewal

\* A refused call waits for the refresh, which it starts if none is under way.
RefuseCall(c) ==
    /\ apiCall[c].pc = "sent"
    /\ ~Accepted(c) /\ ~apiCall[c].retried
    /\ apiCall' = [apiCall EXCEPT ![c].pc = "waiting", ![c].retried = TRUE]
    /\ renewal' = IF renewal.pc = "idle" THEN [NoRenewal EXCEPT !.pc = "sent"] ELSE renewal
    /\ UNCHANGED <<bearer, signedIn, goodbye, tokens, expired, renewable, said, crossed,
                   repelled>>

-----------------------------------------------------------------------------
(* The refresh *)

GrantRenewal ==
    /\ renewal.pc = "sent"
    /\ renewable /\ tokens < LastToken
    /\ tokens' = tokens + 1
    /\ renewal' = [pc |-> "granted", token |-> tokens']
    /\ UNCHANGED <<bearer, signedIn, apiCall, goodbye, expired, renewable, said, crossed,
                   repelled>>

WaitingBecome(Outcome(_)) ==
    apiCall' = [c \in DOMAIN apiCall |->
                   IF apiCall[c].pc = "waiting" THEN Outcome(apiCall[c]) ELSE apiCall[c]]

\* The answer also sets the cookie, of a session that may be gone by now.
AnswerRenewal ==
    /\ renewal.pc = "granted"
    /\ Enter(renewal.token)
    /\ WaitingBecome(LAMBDA call : [call EXCEPT !.pc = "sent", !.token = renewal.token])
    /\ renewal' = NoRenewal
    /\ renewable' \in BOOLEAN
    /\ UNCHANGED <<goodbye, tokens, expired, said, crossed, repelled>>

EndRenewal ==
    /\ SignOut
    /\ WaitingBecome(LAMBDA call : Ended)
    /\ renewal' = NoRenewal
    /\ repelled' = TRUE
    /\ UNCHANGED <<goodbye, tokens, expired, renewable, said, crossed>>

\* The refresh is refused like any other call, and waits for the refresh.
WaitForItself ==
    /\ renewal' = [renewal EXCEPT !.pc = "waiting"]
    /\ UNCHANGED <<bearer, signedIn, apiCall, goodbye, tokens, expired, renewable, said,
                   crossed, repelled>>

\* A 401 of the refresh is not answered with a refresh.
Refusal == EndRenewal

\* The cookie is not valid, or its user is no more.
RefuseRenewal ==
    /\ renewal.pc = "sent"
    /\ Refusal

\* No answer arrives.
FailRenewal ==
    /\ renewal.pc \in {"sent", "granted"}
    /\ EndRenewal

-----------------------------------------------------------------------------
(* The agent, and time *)

LogIn ==
    /\ ~signedIn /\ ~Loading
    /\ tokens < LastToken
    /\ tokens' = tokens + 1
    /\ Enter(tokens')
    /\ renewable' = TRUE
    /\ said' = "login"
    /\ crossed' = (renewal.pc # "idle")
    /\ repelled' = FALSE
    /\ UNCHANGED <<apiCall, renewal, goodbye, expired>>

LogOut ==
    /\ signedIn /\ ~Loading
    /\ goodbye = "none"
    /\ goodbye' = "sent"
    /\ UNCHANGED <<bearer, signedIn, apiCall, renewal, tokens, expired, renewable, said,
                   crossed, repelled>>

ServeLogout ==
    /\ goodbye = "sent"
    /\ goodbye' = "served"
    /\ renewable' = FALSE
    /\ UNCHANGED <<bearer, signedIn, apiCall, renewal, tokens, expired, said, crossed,
                   repelled>>

\* The store is cleared only after an answer.
ClearIfServed == IF goodbye = "served" THEN SignOut ELSE UNCHANGED <<bearer, signedIn>>

ClearAnyway == SignOut

\* The answer, or none.
EndLogout ==
    /\ goodbye # "none"
    /\ goodbye' = "none"
    /\ ClearAnyway
    /\ said' = "logout"
    /\ crossed' = (renewal.pc # "idle" \/ renewable)
    /\ UNCHANGED <<apiCall, renewal, tokens, expired, renewable, repelled>>

\* The page is loaded anew; the store is kept in localStorage.
LoadPage ==
    /\ ~Loading
    /\ apiCall' = [c \in DOMAIN apiCall |->
                      IF c = UserMe THEN CallAt("sent", bearer)
                      ELSE IF Pending(c) THEN Ended
                      ELSE apiCall[c]]
    /\ renewal' = NoRenewal
    /\ goodbye' = "none"
    /\ UNCHANGED <<bearer, signedIn, tokens, expired, renewable, said, crossed, repelled>>

ExpireToken(t) ==
    /\ t \in 1 .. tokens \ expired
    /\ expired' = expired \union {t}
    /\ UNCHANGED <<bearer, signedIn, apiCall, renewal, goodbye, tokens, renewable, said,
                   crossed, repelled>>

\* The session ends: elsewhere, or after thirty days.
EndSession ==
    /\ renewable
    /\ renewable' = FALSE
    /\ UNCHANGED <<bearer, signedIn, apiCall, renewal, goodbye, tokens, expired, said,
                   crossed, repelled>>

-----------------------------------------------------------------------------

\* What the server and the interceptors do with what was sent.
Respond ==
    \/ \E c \in ApiCalls \union {UserMe} : AnswerCall(c) \/ RefuseCall(c) \/ RefuseAgain(c)
    \/ GrantRenewal \/ AnswerRenewal \/ RefuseRenewal

AgentNext ==
    \/ Respond
    \/ \E c \in ApiCalls : SendCall(c)
    \/ \E c \in ApiCalls \union {UserMe} : FailCall(c)
    \/ FailRenewal
    \/ LogIn \/ LogOut \/ ServeLogout \/ EndLogout \/ LoadPage
    \/ \E t \in Tokens : ExpireToken(t)
    \/ EndSession

AgentSpec == AgentInit /\ [][AgentNext]_agentVars /\ WF_agentVars(Respond)

-----------------------------------------------------------------------------
(* Properties *)

\* Every call returns, however many are refused at once and whatever becomes of the
\* refresh they wait for.
ApiCallsReturn == \A c \in ApiCalls \union {UserMe} : Pending(c) ~> ~Pending(c)

\* The browser is signed in or out as the agent said last.  A refresh under way when
\* they said it may undo it, and so may a cookie that a logout left at the server, or a
\* refresh that failed since.
SessionFollowsAgent ==
    ~crossed =>
        /\ said = "logout" => ~signedIn
        /\ said = "login" /\ ~repelled => signedIn
=============================================================================
