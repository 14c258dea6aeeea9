----------------------------- MODULE AgentInbox -----------------------------
(***************************************************************************)
(* An agent's browser on one conversation: the React Query cache of its      *)
(* messages, which the message pane reads, and everyone who writes it: the   *)
(* fetches of the pane, the optimistic update of a reply and its outcome,     *)
(* and the handler of newMessage events.  Messages are numbered by id.        *)
(***************************************************************************)
EXTENDS Naturals, SequencesExt

CONSTANTS
    Drafts,        \* replies the agent writes
    NoDraft,
    PageLimit,     \* messages per page
    FirstMessages, \* messages the conversation has
    LastMessage,   \* bound of the messages
    MaxPages       \* bound of the pages the agent scrolls through

ASSUME InboxAssumption ==
    /\ NoDraft \notin Drafts
    /\ PageLimit \in Nat \ {0}
    /\ FirstMessages \in 0 .. LastMessage
    /\ LastMessage \in Nat
    /\ MaxPages \in Nat

VARIABLES
    thread,    \* number of messages of the conversation
    news,      \* messages whose newMessage event is on its way
    page,      \* where the agent is
    cache,     \* data of ["messages", project, conversation, undefined]
    fetch,     \* the fetch of that query
    draft,     \* the requests of the replies
    replaced,  \* history: replies since whose beginning a fetched list came in
    scrolled   \* history: replies under way when a page was asked for that came in

inboxVars == <<thread, news, page, cache, fetch, draft, replaced, scrolled>>

-----------------------------------------------------------------------------
(* Types *)

Ids == 1 .. LastMessage

\* A message, or a reply before its answer, which has no id yet.
Entry == [id : {0} \union Ids, draft : Drafts \union {NoDraft}, failed : BOOLEAN]

Message(n) == [id |-> n, draft |-> NoDraft, failed |-> FALSE]
Optimistic(d) == [id |-> 0, draft |-> d, failed |-> FALSE]

\* useGetMessages keeps pages; a list is what handleNewMessage makes where there is nothing.
Cache == [shape : {"none", "pages", "list"}, pages : Seq(Seq(Entry))]

\* pages are those fetched so far, of the number wanted; known the replies begun and
\* sending those under way when the fetch began.
Fetch == [pc : {"idle", "asked", "answered"}, pages : Seq(Seq(Entry)), wanted : Nat,
          known : SUBSET Drafts, sending : SUBSET Drafts]

Draft == [pc : {"unsent", "sending", "stored", "sent", "failed", "gone"}, id : {0} \union Ids]

InboxTypeOK ==
    /\ thread \in 0 .. LastMessage
    /\ news \subseteq Ids
    /\ page \in {"settings", "project", "pane", "crashed"}
    /\ cache \in Cache
    /\ fetch \in Fetch
    /\ draft \in [Drafts -> Draft]
    /\ replaced \subseteq Drafts
    /\ scrolled \subseteq Drafts

NoData == [shape |-> "none", pages |-> <<>>]
NoFetch == [pc |-> "idle", pages |-> <<>>, wanted |-> 0, known |-> {}, sending |-> {}]

InboxInit ==
    /\ thread = FirstMessages
    /\ news = {}
    /\ page = "project"
    /\ cache = NoData
    /\ fetch = NoFetch
    /\ draft = [d \in Drafts |-> [pc |-> "unsent", id |-> 0]]
    /\ replaced = {}
    /\ scrolled = {}

-----------------------------------------------------------------------------
(* The query *)

Begun == {d \in Drafts : draft[d].pc # "unsent"}
UnderWay == {d \in Drafts : draft[d].pc \in {"sending", "stored"}}

\* getNextPageParam
HasMore(pages) == pages # <<>> /\ Len(Last(pages)) >= PageLimit
NextCursor(pages) == Last(Last(pages)).id

\* listByConversation: the newest messages below the cursor, oldest first.
PageUpTo(newest) ==
    LET size == IF newest < PageLimit THEN newest ELSE PageLimit
    IN  [i \in 1 .. size |-> Message(newest - size + i)]

\* A fetch takes the place of one under way.
StartFetch(pages, wanted, sending) ==
    fetch' = [pc |-> "asked", pages |-> pages, wanted |-> wanted, known |-> Begun,
              sending |-> sending]

\* All pages that are there, or the first.
RefetchPages ==
    StartFetch(<<>>, IF cache.shape = "pages" THEN Len(cache.pages) ELSE 1, {})

\* The server answers one page.  The id of an optimistic message is no cursor.
ReadPage ==
    /\ fetch.pc = "asked"
    /\ fetch.pages # <<>> => NextCursor(fetch.pages) # 0
    /\ LET newest == IF fetch.pages = <<>> THEN thread ELSE NextCursor(fetch.pages) - 1
       IN  fetch' = [fetch EXCEPT !.pc = "answered", !.pages = Append(@, PageUpTo(newest))]
    /\ UNCHANGED <<thread, news, page, cache, draft, replaced, scrolled>>

AskNextPage ==
    /\ fetch.pc = "answered"
    /\ Len(fetch.pages) < fetch.wanted
    /\ HasMore(fetch.pages)
    /\ fetch' = [fetch EXCEPT !.pc = "asked"]
    /\ UNCHANGED <<thread, news, page, cache, draft, replaced, scrolled>>

\* The pages fetched are the data, whatever was written to it meanwhile.
FinishFetch ==
    /\ fetch.pc = "answered"
    /\ Len(fetch.pages) = fetch.wanted \/ ~HasMore(fetch.pages)
    /\ cache' = [shape |-> "pages", pages |-> fetch.pages]
    /\ fetch' = NoFetch
    /\ replaced' = replaced \union fetch.known
    /\ scrolled' = scrolled \union fetch.sending
    /\ UNCHANGED <<thread, news, page, draft>>

FailFetch ==
    /\ fetch.pc # "idle"
    /\ fetch' = NoFetch
    /\ UNCHANGED <<thread, news, page, cache, draft, replaced, scrolled>>

\* Ten minutes after the pane was closed.
Forget ==
    /\ page # "pane"
    /\ fetch.pc = "idle"
    /\ cache.shape # "none"
    /\ cache' = NoData
    /\ replaced' = Begun
    /\ UNCHANGED <<thread, news, page, fetch, draft, scrolled>>

-----------------------------------------------------------------------------
(* The agent *)

\* The pane fetches what it has not, or what is older than five minutes.  It cannot
\* render a list.
OpenPane ==
    /\ page = "project"
    /\ page' = IF cache.shape = "list" THEN "crashed" ELSE "pane"
    /\ \/ /\ cache.shape # "list"
          /\ fetch.pc = "idle"
          /\ RefetchPages
       \/ /\ cache.shape # "none" \/ fetch.pc # "idle"
          /\ UNCHANGED fetch
    /\ UNCHANGED <<thread, news, cache, draft, replaced, scrolled>>

CrashOnRender ==
    /\ page = "pane"
    /\ cache.shape = "list"
    /\ page' = "crashed"
    /\ UNCHANGED <<thread, news, cache, fetch, draft, replaced, scrolled>>

Go(from, to) ==
    /\ page = from
    /\ page' = to
    /\ UNCHANGED <<thread, news, cache, fetch, draft, replaced, scrolled>>

ClosePane == Go("pane", "project")
LeaveProject == Go("project", "settings")
EnterProject == Go("settings", "project")

\* The top of the list came into view.
ScrollUp ==
    /\ page = "pane"
    /\ cache.shape = "pages"
    /\ HasMore(cache.pages)
    /\ Len(cache.pages) < MaxPages
    /\ fetch.pc = "idle" \/ fetch.wanted <= Len(cache.pages)
    /\ StartFetch(cache.pages, Len(cache.pages) + 1, UnderWay)
    /\ UNCHANGED <<thread, news, page, cache, draft, replaced, scrolled>>

\* A change of the status, or the mark that the messages were read, succeeded; a first
\* fetch goes on.
UpdateStatus ==
    /\ page = "pane"
    /\ cache.shape # "none" \/ fetch.pc = "idle"
    /\ RefetchPages
    /\ UNCHANGED <<thread, news, page, cache, draft, replaced, scrolled>>

\* The browser loads the application anew.
Reload ==
    /\ page' = "project"
    /\ cache' = NoData
    /\ fetch' = NoFetch
    /\ news' = {}
    /\ draft' = [d \in Drafts |-> IF d \in Begun THEN [draft[d] EXCEPT !.pc = "gone"]
                                                ELSE draft[d]]
    /\ UNCHANGED <<thread, replaced, scrolled>>

-----------------------------------------------------------------------------
(* Replies: useSendAgentReply *)

Become(d, pc) == draft' = [draft EXCEPT ![d].pc = pc]

InFirstPage(e) ==
    IF cache.shape = "none"
    THEN << <<e>> >>
    ELSE [cache.pages EXCEPT ![1] = Append(@, e)]

\* onMutate without cancelQueries.
LeaveFetch == UNCHANGED fetch

CancelFetch == fetch' = NoFetch

\* onMutate.  While the first fetch runs the pane shows no composer.
SendReply(d) ==
    /\ page = "pane"
    /\ draft[d].pc = "unsent"
    /\ cache.shape = "pages" \/ (cache.shape = "none" /\ fetch.pc = "idle")
    /\ CancelFetch
    /\ cache' = [shape |-> "pages", pages |-> InFirstPage(Optimistic(d))]
    /\ Become(d, "sending")
    /\ UNCHANGED <<thread, news, page, replaced, scrolled>>

StoreReply(d) ==
    /\ draft[d].pc = "sending"
    /\ thread < LastMessage
    /\ thread' = thread + 1
    /\ news' = news \union {thread'}
    /\ draft' = [draft EXCEPT ![d] = [pc |-> "stored", id |-> thread']]
    /\ UNCHANGED <<page, cache, fetch, replaced, scrolled>>

InPages(Change(_)) ==
    cache' = IF cache.shape = "pages"
             THEN [cache EXCEPT !.pages = [i \in DOMAIN @ |-> Change(@[i])]]
             ELSE cache

Shows(entries, e) == \E i \in DOMAIN entries : entries[i] = e

\* The real message is added, and the optimistic one stays.
AddReal(d, entries) ==
    IF Shows(entries, Message(draft[d].id)) THEN entries
                                            ELSE Append(entries, Message(draft[d].id))

\* A page has an optimistic message once.
Without(entries, e) ==
    IF Shows(entries, e) THEN RemoveAt(entries, CHOOSE i \in DOMAIN entries : entries[i] = e)
                         ELSE entries

\* The optimistic message gives way to the real one, in whatever page it is.
Settled(d, entries) ==
    IF Shows(entries, Message(draft[d].id))
    THEN Without(entries, Optimistic(d))
    ELSE ReplaceAll(entries, Optimistic(d), Message(draft[d].id))

\* onSuccess
AnswerReply(d) ==
    /\ draft[d].pc = "stored"
    /\ InPages(LAMBDA entries : Settled(d, entries))
    /\ Become(d, "sent")
    /\ UNCHANGED <<thread, news, page, fetch, replaced, scrolled>>

Failed(d) == [Optimistic(d) EXCEPT !.failed = TRUE]

MarkFailed(d, entries) == ReplaceAll(entries, Optimistic(d), Failed(d))

\* onError: the server refused the reply, or its answer was lost.
FailReply(d) ==
    /\ draft[d].pc \in {"sending", "stored"}
    /\ InPages(LAMBDA entries : MarkFailed(d, entries))
    /\ Become(d, "failed")
    /\ UNCHANGED <<thread, news, page, fetch, replaced, scrolled>>

-----------------------------------------------------------------------------
(* Events *)

\* A message of the visitor or of another agent.
StoreOther ==
    /\ thread < LastMessage
    /\ thread' = thread + 1
    /\ news' = news \union {thread'}
    /\ UNCHANGED <<page, cache, fetch, draft, replaced, scrolled>>

\* handleNewMessage.  The updater takes the data for a list: it makes one of nothing,
\* and pages have no some, so that it throws.
HearMessage(n) ==
    /\ n \in news
    /\ page # "crashed"
    /\ news' = news \ {n}
    /\ \/ /\ page = "settings" \/ cache.shape = "pages"
          /\ UNCHANGED cache
       \/ /\ page # "settings" /\ cache.shape = "none"
          /\ cache' = [shape |-> "list", pages |-> << <<Message(n)>> >>]
       \/ /\ page # "settings" /\ cache.shape = "list"
          /\ cache' = IF Shows(cache.pages[1], Message(n))
                      THEN cache
                      ELSE [cache EXCEPT !.pages[1] = Append(@, Message(n))]
    /\ UNCHANGED <<thread, page, fetch, draft, replaced, scrolled>>

\* The socket is down, or in no room.
MissMessage(n) ==
    /\ n \in news
    /\ news' = news \ {n}
    /\ UNCHANGED <<thread, page, cache, fetch, draft, replaced, scrolled>>

InboxNext ==
    \/ ReadPage \/ AskNextPage \/ FinishFetch \/ FailFetch \/ Forget
    \/ OpenPane \/ CrashOnRender \/ ClosePane \/ LeaveProject \/ EnterProject
    \/ ScrollUp \/ UpdateStatus \/ Reload
    \/ \E d \in Drafts : SendReply(d) \/ StoreReply(d) \/ AnswerReply(d) \/ FailReply(d)
    \/ StoreOther
    \/ \E n \in Ids : HearMessage(n) \/ MissMessage(n)

InboxSpec == InboxInit /\ [][InboxNext]_inboxVars

-----------------------------------------------------------------------------
(* Properties *)

Showing(e) == \E i \in DOMAIN cache.pages : Shows(cache.pages[i], e)

\* Until a fetched list takes its place, the pane shows a reply as its request stands:
\* under way, sent or failed, however many replies and fetches overlap.
RepliesFollowRequests ==
    cache.shape = "pages" =>
        \A d \in Drafts \ replaced :
            /\ draft[d].pc \in {"sending", "stored"} => Showing(Optimistic(d))
            /\ draft[d].pc = "sent" => Showing(Message(draft[d].id))
            /\ draft[d].pc = "failed" => Showing(Failed(d))

\* A reply whose request has ended is shown as under way only if the agent scrolled up
\* while it was: the older page brings back the list as it was then.
SettledUnlessScrolled ==
    \A d \in Drafts \ scrolled : draft[d].pc \in {"sent", "failed"} => ~Showing(Optimistic(d))

\* inboxApi.ts: "The cursor for the next page (older messages) is the ID or timestamp
\* of the last message in the list", so scrolling up adds messages that are older than
\* those of the page below.
OlderPagesAreOlder ==
    [][FinishFetch /\ Len(fetch.pages) > 1
        => \A i \in 2 .. Len(fetch.pages) : \A e \in DOMAIN fetch.pages[i] :
              fetch.pages[i][e].id < fetch.pages[i - 1][1].id]_inboxVars
=============================================================================
