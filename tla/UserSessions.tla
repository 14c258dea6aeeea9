---------------------------- MODULE UserSessions ----------------------------
(***************************************************************************)
(* The sessions of one user: refresh tokens in the browsers' cookies, their  *)
(* hashes in refresh_tokens, tokensValidFrom in the user's row, and the calls *)
(* that log in, refresh, log out, change the password or the email, or save  *)
(* the user for another reason.                                              *)
(***************************************************************************)
EXTENDS Naturals, FiniteSets

CONSTANTS
    SessionCalls,  \* API calls, each of them made once
    Browsers,
    Wishes,        \* what each call may be made for
    Fragile,       \* calls whose process may die
    NoSession,
    First, Home,   \* the login that made the user's session, and its browser
    SessionLimit,  \* SESSION_LIMIT
    Grace,         \* the 20 seconds of a rotated token
    Lifetime,      \* JWT_REFRESH_EXPIRES_IN
    LastSecond     \* bound of the clock

Wish == [kind : {"login", "refresh", "logout", "logoutAll", "password", "profile", "email"},
         browser : Browsers]

ASSUME SessionsAssumption ==
    /\ IsFiniteSet(SessionCalls)
    /\ Home \in Browsers
    /\ Wishes \in [SessionCalls -> SUBSET Wish]
    /\ Fragile \subseteq SessionCalls
    /\ NoSession \notin SessionCalls
    /\ First \in SessionCalls
    /\ SessionLimit \in Nat \ {0}
    /\ Grace \in Nat
    /\ Lifetime \in Nat \ {0}
    /\ LastSecond \in Nat \ {0, 1}

VARIABLES
    second,      \* the clock, in seconds as the iat of a token
    session,     \* refresh_tokens: a row per call that logged in or refreshed
    cookie,      \* the refresh token of a browser, by the second it was issued in
    owner,       \* the call whose session that token is of
    validFrom,   \* tokensValidFrom of the user's row
    lock,        \* the call whose open transaction has updated the user's row
    call,
    excused,     \* somebody logged out, or changed the password or the email; or a call
                 \* took seconds to store its session, or a refresh to be verified
    crowded      \* two calls stored their sessions in overlapping transactions

sessionVars == <<second, session, cookie, owner, validFrom, lock, call, excused, crowded>>

-----------------------------------------------------------------------------
(* Types *)

Seconds == 0 .. LastSecond

Session == [stored : BOOLEAN, made : Seconds, expires : Nat]

InFlight == {"guarded", "purging", "invalidating", "verified", "issued", "opened", "picked",
             "stored", "listed", "loaded", "locked"}

\* presented is the cookie the call came with, token the call whose session it is of;
\* issued is the second of its new tokens, began that of its transaction; doomed are
\* the rows it is about to delete, old the row it rotates; copy is the validFrom of
\* the user it loaded; overlapped when another session was stored since it began.
Call == [pc : InFlight \union {"idle", "done", "refused", "dead"}, wish : Wish,
         presented : Seconds, token : SessionCalls \union {NoSession}, issued : Seconds,
         began : Seconds, doomed : SUBSET SessionCalls, old : SessionCalls \union {NoSession},
         copy : Seconds, overlapped : BOOLEAN]

SessionsTypeOK ==
    /\ second \in Seconds
    /\ session \in [SessionCalls -> Session]
    /\ cookie \in [Browsers -> Seconds]
    /\ owner \in [Browsers -> SessionCalls \union {NoSession}]
    /\ validFrom \in Seconds
    /\ lock \in SessionCalls \union {NoSession}
    /\ call \in [SessionCalls -> Call]
    /\ excused \in BOOLEAN
    /\ crowded \in BOOLEAN

NoRow == [stored |-> FALSE, made |-> 0, expires |-> 0]

FirstWish == [kind |-> "login", browser |-> Home]

\* What is left of a call in state pc that came with the token issued in p for session s.
Brief(pc, w, p, s) ==
    [pc |-> pc, wish |-> w, presented |-> p, token |-> s, issued |-> 0, began |-> 0,
     doomed |-> {}, old |-> NoSession, copy |-> 0, overlapped |-> FALSE]

\* The user logged in at one browser in second 1; a browser without a cookie has cookie 0.
SessionsInit ==
    /\ second = 2
    /\ session = [c \in SessionCalls |->
                    IF c = First THEN [stored |-> TRUE, made |-> 1, expires |-> 1 + Lifetime]
                    ELSE NoRow]
    /\ cookie = [b \in Browsers |-> IF b = Home THEN 1 ELSE 0]
    /\ owner = [b \in Browsers |-> IF b = Home THEN First ELSE NoSession]
    /\ validFrom = 0
    /\ lock = NoSession
    /\ call = [c \in SessionCalls |->
                 Brief(IF c = First THEN "done" ELSE "idle", FirstWish, 0, NoSession)]
    /\ excused = FALSE
    /\ crowded = FALSE

-----------------------------------------------------------------------------
(* Helpers *)

Sessions == {s \in SessionCalls : session[s].stored}

Kind(c) == call[c].wish.kind
Browser(c) == call[c].wish.browser

Update(c, value) == call' = [call EXCEPT ![c] = value]
Reach(c, pc) == Update(c, [call[c] EXCEPT !.pc = pc])
Close(c, pc) == Update(c, Brief(pc, call[c].wish, call[c].presented, NoSession))

Drop(rows) ==
    session' = [s \in SessionCalls |-> IF s \in rows THEN NoRow ELSE session[s]]

\* The browser b has the token issued in p for session s; none when p is 0.
SetCookie(b, p, s) ==
    /\ cookie' = [cookie EXCEPT ![b] = p]
    /\ owner' = [owner EXCEPT ![b] = s]

Clear(b) == SetCookie(b, 0, NoSession)

\* An UPDATE of the user's row waits for the transaction that has updated it.
Unlocked == lock = NoSession

-----------------------------------------------------------------------------
(* Refreshing: RefreshTokenGuard and refreshUserTokens *)

\* The browser's cookie, unless it has expired with its token.
Presented(b) == IF second < cookie[b] + Lifetime THEN cookie[b] ELSE 0

\* RefreshTokenStrategy.validate reads the user.  Both times are whole seconds: a token
\* issued in the second of a revocation is let in.
EnterGuard(c, w) ==
    LET p == Presented(w.browser)
    IN  /\ call[c].pc = "idle"
        /\ w.kind \in {"refresh", "logout", "logoutAll"}
        /\ IF p # 0 /\ p >= validFrom
           THEN Update(c, Brief("guarded", w, p, owner[w.browser]))
           ELSE Update(c, Brief("refused", w, p, NoSession))
        /\ UNCHANGED <<second, session, cookie, owner, validFrom, lock, excused, crowded>>

\* The rows in the other order: the first to match is the one that expires first.
VerifyOldest(c) ==
    /\ call[c].pc = "guarded"
    /\ Kind(c) = "refresh"
    /\ \E s \in Sessions :
          /\ \A t \in Sessions : session[t].expires >= session[s].expires
          /\ IF session[s].expires < second
             THEN Drop({s}) /\ Close(c, "refused")
             ELSE Reach(c, "verified") /\ UNCHANGED session
    /\ UNCHANGED <<second, cookie, owner, validFrom, lock, excused, crowded>>

\* verifyRefreshToken.  bcrypt compares the first 72 bytes, which all refresh tokens of
\* a user share: the token matches the row that expires last, whosever it is.
Verify(c) ==
    /\ call[c].pc = "guarded"
    /\ Kind(c) = "refresh"
    /\ \/ /\ Sessions = {}
          /\ Reach(c, "purging")
          /\ UNCHANGED session
       \/ \E s \in Sessions :
             /\ \A t \in Sessions : session[t].expires <= session[s].expires
             /\ IF session[s].expires < second
                THEN Drop({s}) /\ Close(c, "refused")
                ELSE Reach(c, "verified") /\ UNCHANGED session
    /\ UNCHANGED <<second, cookie, owner, validFrom, lock, excused, crowded>>

\* The local strategy let the user in, without the second factor or after it.
Login(c, w) ==
    /\ call[c].pc = "idle"
    /\ w.kind = "login"
    /\ Update(c, Brief("verified", w, 0, NoSession))
    /\ UNCHANGED <<second, session, cookie, owner, validFrom, lock, excused, crowded>>

\* generateTokens
Issue(c) ==
    /\ call[c].pc = "verified"
    /\ Update(c, [call[c] EXCEPT !.pc = "issued", !.issued = second])
    /\ UNCHANGED <<second, session, cookie, owner, validFrom, lock, excused, crowded>>

-----------------------------------------------------------------------------
(* setCurrentRefreshToken: one READ COMMITTED transaction *)

\* No room for the session to come.
OldestBeyondLimit(rows) ==
    {d \in SUBSET rows :
        /\ IF Cardinality(rows) > SessionLimit
           THEN Cardinality(d) = Cardinality(rows) - SessionLimit
           ELSE d = {}
        /\ \A s \in d, t \in rows \ d : session[s].made <= session[t].made}

\* The oldest rows, so many that there is room for one more.
Oldest(rows) ==
    {d \in SUBSET rows :
        /\ IF Cardinality(rows) >= SessionLimit
           THEN Cardinality(d) = Cardinality(rows) - SessionLimit + 1
           ELSE d = {}
        /\ \A s \in d, t \in rows \ d : session[s].made <= session[t].made}

OpenSession(c) ==
    /\ call[c].pc = "issued"
    /\ \E d \in Oldest(Sessions) :
          Update(c, [call[c] EXCEPT !.pc = "opened", !.began = second, !.doomed = d])
    /\ UNCHANGED <<second, session, cookie, owner, validFrom, lock, excused, crowded>>

\* findRefreshTokenByValue: every row matches, the first one found is rotated.
PickOld(c) ==
    LET rows == Sessions \ call[c].doomed
    IN  /\ call[c].pc = "opened"
        /\ Kind(c) = "refresh"
        /\ \E s \in rows \union {NoSession} :
              /\ s = NoSession <=> rows = {}
              /\ Update(c, [call[c] EXCEPT !.pc = "picked", !.old = s])
        /\ UNCHANGED <<second, session, cookie, owner, validFrom, lock, excused, crowded>>

\* The rotated row expires soon.  One deleted meanwhile stays away (back is FALSE) or
\* is inserted again by save.
Rotated(s, back) ==
    IF session[s].stored \/ back
    THEN [stored |-> TRUE, made |-> session[s].made, expires |-> second + Grace]
    ELSE NoRow

Storing == {"opened", "picked"}

StoreSession(c) ==
    LET x == call[c]
        new == [stored |-> TRUE, made |-> x.began, expires |-> x.issued + Lifetime]
    IN  /\ x.pc = IF Kind(c) = "refresh" THEN "picked" ELSE "opened"
        /\ \E back \in BOOLEAN :
              session' = [s \in SessionCalls |->
                             IF s = c THEN new
                             ELSE IF s = x.old THEN Rotated(s, back)
                             ELSE IF s \in x.doomed THEN NoRow
                             ELSE session[s]]
        /\ call' = [d \in SessionCalls |->
                       CASE d = c -> [x EXCEPT !.pc = "stored"]
                         [] d # c /\ call[d].pc \in Storing -> [call[d] EXCEPT !.overlapped = TRUE]
                         [] OTHER -> call[d]]
        /\ crowded' = (crowded \/ x.overlapped)
        /\ UNCHANGED <<second, cookie, owner, validFrom, lock, excused>>

\* The answer sets the cookie; a login updates lastLoginAt of the user's row first.
Answer(c) ==
    /\ call[c].pc = "stored"
    /\ Kind(c) = "login" => Unlocked
    /\ SetCookie(Browser(c), call[c].issued, c)
    /\ Close(c, "done")
    /\ UNCHANGED <<second, session, validFrom, lock, excused, crowded>>

-----------------------------------------------------------------------------
(* Ending sessions *)

\* revokeRefreshToken lists the user's rows and deletes those that match: all of them.
ListSessions(c) ==
    /\ call[c].pc = "guarded"
    /\ Kind(c) = "logout"
    /\ Update(c, [call[c] EXCEPT !.pc = "listed", !.doomed = Sessions])
    /\ UNCHANGED <<second, session, cookie, owner, validFrom, lock, excused, crowded>>

Logout(c) ==
    /\ call[c].pc = "listed"
    /\ Drop(call[c].doomed)
    /\ Clear(Browser(c))
    /\ excused' = TRUE
    /\ Close(c, "done")
    /\ UNCHANGED <<second, validFrom, lock, crowded>>

\* Nothing goes on when there is nothing to delete.
PurgeSome(c) ==
    /\ Sessions # {}
    /\ \/ call[c].pc \in {"purging", "locked"}
       \/ call[c].pc = "guarded" /\ Kind(c) = "logoutAll"
    /\ Drop(Sessions)
    /\ excused' = (excused \/ Kind(c) # "refresh")
    /\ Reach(c, "invalidating")
    /\ UNCHANGED <<second, cookie, owner, validFrom, lock, crowded>>

\* removeAllRefreshTokensForUser of logout-all, of a refresh that found no row, and of
\* a password change, on a connection of its own.
Purge(c) ==
    /\ \/ call[c].pc \in {"purging", "locked"}
       \/ call[c].pc = "guarded" /\ Kind(c) = "logoutAll"
    /\ Drop(Sessions)
    /\ excused' = (excused \/ Kind(c) # "refresh")
    /\ Reach(c, "invalidating")
    /\ UNCHANGED <<second, cookie, owner, validFrom, lock, crowded>>

Revoke == validFrom' = second

\* invalidateAllTokens, on a connection of its own: a password change waits here for
\* its own transaction.
Invalidate(c) ==
    /\ call[c].pc = "invalidating"
    /\ Unlocked
    /\ Revoke
    /\ IF Kind(c) = "refresh"
       THEN Close(c, "refused") /\ UNCHANGED <<cookie, owner>>
       ELSE Close(c, "done") /\ Clear(Browser(c))
    /\ UNCHANGED <<second, session, lock, excused, crowded>>

\* changePassword and resetPassword save the user in a transaction.
SavePassword(c, w) ==
    /\ call[c].pc = "idle"
    /\ w.kind = "password"
    /\ Unlocked
    /\ lock' = c
    /\ Update(c, Brief("locked", w, 0, NoSession))
    /\ UNCHANGED <<second, session, cookie, owner, validFrom, excused, crowded>>

\* verifyEmailChange: one transaction locks the row, deletes the tokens and revokes.
ChangeEmail(c, w) ==
    /\ call[c].pc = "idle"
    /\ w.kind = "email"
    /\ Unlocked
    /\ Drop(Sessions)
    /\ Revoke
    /\ excused' = TRUE
    /\ Update(c, Brief("done", w, 0, NoSession))
    /\ UNCHANGED <<second, cookie, owner, lock, crowded>>

-----------------------------------------------------------------------------
(* Saves of the user: updateProfile, activate, markEmailAsVerified *)

LoadUser(c, w) ==
    /\ call[c].pc = "idle"
    /\ w.kind = "profile"
    /\ Update(c, [Brief("loaded", w, 0, NoSession) EXCEPT !.copy = validFrom])
    /\ UNCHANGED <<second, session, cookie, owner, validFrom, lock, excused, crowded>>

\* save writes every column in which the loaded user differs from the row.
SaveUser(c) ==
    /\ call[c].pc = "loaded"
    /\ Unlocked
    /\ validFrom' = call[c].copy
    /\ Close(c, "done")
    /\ UNCHANGED <<second, session, cookie, owner, lock, excused, crowded>>

-----------------------------------------------------------------------------
(* Crashes and time *)

\* The process dies: its transactions roll back, its answer is lost.
Crash(c) ==
    /\ c \in Fragile
    /\ call[c].pc \in InFlight
    /\ lock' = IF lock = c THEN NoSession ELSE lock
    /\ Close(c, "dead")
    /\ UNCHANGED <<second, session, cookie, owner, validFrom, excused, crowded>>

\* handleExpiredTokensCleanup
Cleanup ==
    /\ Drop({s \in Sessions : session[s].expires < second})
    /\ UNCHANGED <<second, cookie, owner, validFrom, lock, call, excused, crowded>>

\* Calls that are at it for long: a call issued its token before this second and has not
\* stored it; a refresh is to be verified, and its cookie expires.
Dawdling(c) ==
    \/ call[c].pc \in {"issued", "opened", "picked"} /\ call[c].issued < second
    \/ /\ call[c].pc = "guarded" /\ Kind(c) = "refresh"
       /\ call[c].presented + Lifetime <= second + 1

\* A session is stored before its token expires: 30 days.
SessionTick ==
    /\ second < LastSecond
    /\ \A c \in SessionCalls :
          call[c].pc \in {"issued", "opened", "picked"} => second + 1 < call[c].issued + Lifetime
    /\ second' = second + 1
    /\ excused' = (excused \/ \E c \in SessionCalls : Dawdling(c))
    /\ UNCHANGED <<session, cookie, owner, validFrom, lock, call, crowded>>

Proceed(c) ==
    \/ Verify(c) \/ Issue(c) \/ OpenSession(c) \/ PickOld(c) \/ StoreSession(c) \/ Answer(c)
    \/ ListSessions(c) \/ Logout(c) \/ Purge(c) \/ Invalidate(c) \/ SaveUser(c)

SessionsNext ==
    \/ \E c \in SessionCalls :
          \/ \E w \in Wishes[c] : \/ EnterGuard(c, w) \/ Login(c, w) \/ SavePassword(c, w)
                                  \/ ChangeEmail(c, w) \/ LoadUser(c, w)
          \/ Proceed(c) \/ Crash(c)
    \/ Cleanup
    \/ SessionTick

SessionsSpec == SessionsInit /\ [][SessionsNext]_sessionVars

-----------------------------------------------------------------------------
(* Properties *)

\* A call that came with a live cookie is refused only after somebody logged out or changed
\* the password or the email: rotations of several tabs, the session limit, lost answers and
\* the cleanup never log a user out, unless a call took seconds over its session or a
\* refresh came with the last second of its cookie.  This needs that a token matches the
\* rows of the others (Verify): were its own row compared alone, as the documentation has it,
\* a token whose session the limit removed would end all sessions.
NoLogoutLoop ==
    [][\A c \in SessionCalls :
          call[c].pc # "refused" /\ call'[c].pc = "refused" /\ call'[c].presented # 0
              => excused]_sessionVars

\* SESSION_LIMIT holds as long as no two transactions that store a session overlap.
WithinLimitUnlessCrowded == ~crowded => Cardinality(Sessions) <= SessionLimit

\* A refresh whose session is not in the table is refused: the limit removed it, or the
\* cleanup after its rotation.  So user-authentication-flow.md says (186, 216-220).
UnknownTokensAreRefused ==
    [][\A c \in SessionCalls :
          call[c].pc = "guarded" /\ call'[c].pc = "verified"
              => session[call[c].token].stored]_sessionVars

\* The calls come to an end, all of them, unless a password change holds the user's row.
CallsEnd ==
    (\E c \in SessionCalls : call[c].pc \in InFlight)
        ~> (lock # NoSession \/ \A c \in SessionCalls : call[c].pc \notin InFlight)

\* A password change is answered.
PasswordChangesReturn ==
    \A c \in SessionCalls : call[c].pc = "locked" ~> call[c].pc \notin InFlight
=============================================================================
