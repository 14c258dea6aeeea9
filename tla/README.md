# Formal models of the live chat application

TLA+ models of the live chat back end (`src/packages/backend`) and the parts of the
widget (`src/packages/frontend/src/widget`) and of the agents' dashboard (`src/packages/frontend/src`)
that talk to it, the TLC runs that check them on small instances, and proofs of their
main properties for every size. Models
are translated from the code; `PROJECT.json` maps each definition to its lines.
Paths below are relative to `src/packages/backend/src` unless they say otherwise.

## 1. The system

A visitor's widget is connected by Socket.IO to one of several API processes. Workers
take jobs from BullMQ (Redis), write to PostgreSQL and relay an outbox table to a Redis
channel, which the API processes subscribe to. Agents use a REST API and Socket.IO.

| component | state | operations | what is hard |
|---|---|---|---|
| Visitor message pipeline (`event-producer`, `event-consumer`, `inbox/services/persistence`) | BullMQ jobs, rows of visitors, conversations and messages, `outbox_events` | take a job, its transaction, LISTEN and poll, fetch, PUBLISH, delete | concurrent workers, crashes between commit and acknowledgement, stalled jobs, refused commands |
| Realtime sessions and gateway (`realtime-session`, `gateway`, `inbox/inbox-event.handler.ts`) | `socket.data`, Redis key `session:visitor:<uid>`, online status, what a widget shows | connect, identify, send, reply, disconnect, acknowledge | several sockets of one visitor, two-command Redis sequences, handlers cut by awaits |
| Inbox API (`inbox/services`) | conversation rows | status, read, assign, unassign, delete, context | read, modify, save without locks |
| Status automation (`modules/status-automation`) | delayed jobs | auto-pending | a timer against the visitor's answer |
| AI responder (`ai-responder`) | visitor lock with expiry, workflow position, circuit breakers | lock, call a model, run tools, reply | the lock expires under a slow answer |
| Actions and forms (`actions`) | form requests, submissions | send, submit, edit, delete | one pending request per conversation, checked before it is inserted |
| Refresh tokens (`auth/services/token.service.ts`) | token rows with a grace period | rotate, verify, revoke, clean | tabs that rotate the same token, a limit on sessions |
| Login, registration, passwords, OAuth, 2FA | users, one-time codes in a cache | log in, verify, reset | one-time use |
| Webhooks (`webhooks`) | subscriptions, deliveries | dispatch, deliver with retries | duplicates after timeouts |
| Projects, invitations, roles | memberships, invitations | invite, accept, cancel | accepted twice |
| Users, email change | change requests | request, confirm | a stale request |
| Widget client | a store in the browser | connect, history, pending messages | reconnects, replaced lists |
| Agent dashboard (`frontend/src/services`, `contexts`, `lib`, `stores`) | query caches, access token and socket in the browser | fetch, older pages, optimistic replies, events; refresh, log in and out; join and leave rooms | many writers of one cache, fetches that replace it; one refresh for many calls; connections that come back |
| Visitors, notes, canned responses, audit, mail, screenshots | single rows | CRUD | nothing concurrent |

What makes each component correct: a visitor's messages go to one conversation, every
acknowledged message is stored, every stored message is announced; a visitor who is gone is offline
and one who is there gets every reply once; an agent's change of a conversation is not
undone; one AI answer at a time; one pending form per conversation; a bounded number of
sessions, and no session lost by a race of two tabs.

## 2. Modules

| module | what it is |
|---|---|
| `TransactionalOutbox` | abstract: rows are stored and due at once, announced or refused, then no longer due |
| `MessagePipeline` | the pipeline, with everything that fails and every edit of the API that matters to it |
| `MessagePipelineProofs` | theorems about `MessagePipeline` |
| `RealtimeSession` | sockets, identify, session key, presence, replies and messages of one visitor |
| `WidgetMessages` | the statuses of a visitor's messages in a widget that loses its connection |
| `AiResponder` | the AI's runs for one visitor, their lock, the workflow and the metadata it shares |
| `FormAnswers` | abstract: requests that can be seen, their answers and marks |
| `FormRequests` | the form requests of a conversation, their answers and templates; refines `FormAnswers` |
| `FormRequestsProofs` | theorems about `FormRequests` |
| `ConversationRow`, `ConversationRowProofs` | one row of `conversations` under all its writers, and theorems about it |
| `ProjectMembers` | the members and invitations of a project |
| `LlmProviders` | generations that fail over along providers with shared circuit breakers |
| `WebhookDelivery` | a subscription, its dispatch by every API process, the delivery jobs |
| `OutgoingCallsProofs` | theorems about `LlmProviders` and `WebhookDelivery` |
| `UserSessions` | the refresh tokens, cookies and `tokensValidFrom` of one user |
| `AgentInbox` | the dashboard's cache of a conversation's messages |
| `AgentSession` | the access token of the dashboard, its calls and the refresh they share |
| `AgentRooms` | the dashboard's sockets and the project rooms they are in |
| `ConnectionProofs` | theorems about `RealtimeSession` and `WidgetMessages` |
| `DeskProofs` | theorems about `AiResponder`, `AgentRooms` and `AgentInbox`, and about `MCDesk` |
| `AccountProofs` | theorems about `ProjectMembers`, `UserSessions` and `AgentSession` |
| `ServicesProofs` | theorems about `MCServices` |
| `MCMessagePipeline` | the constants of the pipeline's runs |
| `MCDesk` | `AiResponder`, `FormRequests`, `AgentInbox`, `AgentRooms`, `RealtimeSession` and `WidgetMessages`: these share no state, so a behaviour is one of the part it starts with |
| `MCServices` | the modules `ConversationRow`, `ProjectMembers`, `LlmProviders`, `WebhookDelivery`, `UserSessions` and `AgentSession`, in the same way |

### MessagePipeline

State and code: `job` and `stalls` are the BullMQ job and its stalled counter (jobs are
added without `attempts`, so a job that throws is not retried; only stalled jobs are).
`tx[p]` is the transaction of `handleNewMessageFromVisitor` in worker process `p`: `taken`
(before the visitor was saved), `found` (conversation looked up), `inserted` (message
inserted, status read by `updateLastMessage`), `committed`. `relay[p]` is one pass of
`processOutboxEvents`; `listener[p]` is whether `onModuleInit` succeeded. `convs`, `rows`
and `outbox` are the committed rows. `sent`, `heard`, `interrupted`, `refused`
and `restored` are history, there for the properties only.

* The steps of a transaction are cut at the statements whose outcome another
  transaction can change. Locks are guards: `VisitorRowFree` is the row lock that
  `findOrCreateByUid` takes by saving `lastSeenAt`; `Saved` the one of the metadata
  save; the foreign key of a message makes `DeleteConversation` wait (`inserted`).
* `created_at` is the start of the creating transaction, so it does not follow the order of commits:
  `Newest` and `Batches` leave the choice open.
* `SetStatus`, `DeleteConversation` and `ChangeSetting` are the writes of the API that
  the pipeline reacts to. Everything else the API stores does not touch its state.
* `pipeline.exec()` resolves although commands were refused: `Publish` chooses the
  accepted ones, and `DeleteEvents` deletes all rows.
* A conversation's metadata, unread counter and last message are left out: nothing here
  depends on them. Re-inserting a conversation that was deleted during the transaction
  appears only as "the transaction's own write" (`OwnStatus`).

### RealtimeSession

One visitor; the keys of different visitors are independent. A socket is `new`, `open`,
`gone` (the client left, the server has not noticed) or `closed`. Handlers are cut at
their awaits. Redis commands of one process execute in the order they are issued, so the first
command of a handler (SET of `setVisitorSession`, GET of `deleteVisitorSession`) belongs
to the step that calls it. `known` is `socket.data.visitorUid`, set by
`prepareSocketForVisitor`. `shown[s]` is the widget's list: the history replaces it,
a reply is appended without looking for it, and a message of its own appears at once. Errors of Redis
or the database end a handler; a crash ends all handlers of a process and closes its
sockets; a reply that was stored by then stays stored (`kept`). The worker's part of a message is one step, as `MessagePipeline` models it.
Left out: the acknowledgement `messageSent` (see `WidgetMessages`), typing,
page context, rooms, forms, the clean-up of the widget's list beyond 500 entries, and
changes of the conversation's status while a widget shows it.

### WidgetMessages

One widget, whose connections are numbered. `connectionStatus`, `isWindowOpen` and the entries (`shownAs`) are the store's;
`reach` is what became of a connection, which each end notices on its own (`NoticeLoss`, `EndLine`). An open
window identifies on every connection, and opening it identifies again. The handler of a
message sets the session (`Rerouted`); the answer goes to the connection the session names when a process
hears the announcement (`TellVisitor`), and changes the entry if that connection and the
entry are still there (`FinalizeMessage`). History: `erased` (written before, but not in, the last
history), `missed` (under way when the DEL of one connection removed the session of another). Left out: what
`RealtimeSession` has: other widgets, replies, expiry, and handlers that fail.

### AiResponder

`run[m]` is the run of `handleVisitorMessage` for message `m`: `received`, `locked`
(holds the lock, or starts `_processMessage` over after a decision), `walking` (through
action nodes, then at the node it asks the model about), `merging` and `writing` (before
and after metadata is fetched again), `releasing`. Calls of the model, of tools and of
Redis are steps; the up to three turns of tools of an answer are one. Any of them may
fail (`EndRun`), and so may the release (`Crash`). The workflow is a constant: nodes
with a type, edges in their order, since `getNextNodeId` takes the first that fits; the
functions of `WorkflowEngineService` are operators. Simple mode, and a workflow that leads
nowhere, is a run at `NoNode`.

The metadata has a workflow position and a set of pages. Three writers share it: the
worker (`StoreMessage`, which replaces it by what the message carries), `updateContext`
(`ReadContext`, `SaveContext`), and the runs. Left out: the truncation of `urlHistory`,
status edits, which save the row as they read it, too, the
texts, the history given to the model, and conversations other than the first.

### FormRequests

`send[a]` and `submit[t]` are calls of `sendFormRequest` and `submitFormAsVisitor`, cut at
their queries. `requests` has the `form_request` messages in the order of `created_at`
(the start of the transaction that inserts them): a message is there for others once it
is `stored`. `answer` is the row of `action_submissions` that points to the request,
`mark` the `submissionId` in its metadata, which the dashboard shows. The unique index is
the guard `Unique`: a transaction waits for another that holds the entry. `seen` is
history: the latest request its sender found. The three saves of a submission
are steps inside its transaction: `saved` is the metadata save that only this transaction sees, a failure before the
commit takes back what was saved, and the commit makes the answer and the mark visible. Deleting a submission takes the
answer away and leaves the metadata and the messages. Left out: what forms contain, and edits
of a submission.

`FormAnswers` is what this promises: an answer and its mark appear in one step, to a visible
request that has no answer, from a submission that answered nothing before. The mapping
(`Forms`) takes the stored requests for those asked; transactions, checks and the index
are steps that the abstract state does not see.

### ConversationRow

`request[r]` is one call that changes the row: `find` read the entity (`Find`) and the
handler changed it (`Edited`), `save` loads the row again and compares (`Compare`), then its
transaction writes the columns that differ, which locks the row (`Write`, `RowLocked`), and commits (`Commit`) or fails
(`Refuse`). `assign` and `unassign` announce the assignee inside the transaction, after the save and before the COMMIT:
`announced` is the call whose announcement came last. All calls of `conversation.service.ts`,
the worker's message, the agent's reply and the visitor's page views have this form; the
proactive greeting reads inside its transaction, too. A save that finds no row inserts it again.
A message holds a key share lock on its conversation (`HoldsKey`), so `Delete` waits for it.
`Schedule` adds the auto-pending job of a reply, `AutoPend` is its conditional UPDATE, one
statement. History, for the properties: `raced` (a commit wrote over a change
made since its read), `serialRow` and `serialStored` (the row when the calls are served one after
another in the order of their commits), `newest`, `version`. A COMMIT that fails after the announcement
leaves the dashboards with an assignee the row does not have; `AnnouncedUnlessUndone` says that this, a race and a
commit still to come are the only causes.

### ProjectMembers

A call passes the roles guard (`Admit`, which answers from a cache of one minute; `Forget` is its
expiry), then goes through the queries of its handler one action at a time: `invite`
(`CheckInvitee`, `CheckPending`, `Invite`), `accept` (`FindInvitation`, `CheckMembership`,
`Join`), `cancel`, the change of a role and the removal of a member. The entity a handler
read is `copy[c]`, and a save of it inserts a row that is gone. `made` names the
call that inserted a membership. `unmanaged` is history: somebody changed the members
who was no manager when the change was made. Users stand for their email addresses.

### LlmProviders

`generation[g]` is a call of `generateResponse`: at which provider of the preference it is,
and whether it waits for the answer. `breaker[p]` is the `CircuitBreaker` object all
generations of the process share; `execute` is cut at the await of the provider (`Send`, then
`Succeed` or `Fail`). `clock` counts in the unit of the recovery time up to `LastTick`, a bound of
the model. `streak` and `lastFailed` are history.

### WebhookDelivery

Each API process subscribes to the Redis channel, so one publication enqueues a job per
process (`Jobs` = `Dispatchers` x `Publications`) and the receiver gets that many requests; a
process whose connection is down misses it. A job's run reads the subscription (`Run`), inserts
its delivery row (`Record`), posts (`Post`), and saves the outcome (`Succeeded`, `Refused`).
The post may time out after the receiver took the request. `Die` is the end of the
process: BullMQ gives a stalled job back once. `isActive` has no endpoint, so `Switch` stands for an operator.

### UserSessions

`session` is `refresh_tokens`, a row per call that logged in or refreshed; `cookie[b]` what
a browser presents, known by the second it was issued in, and `owner[b]` the call whose session that token
is of. The strategy compares whole seconds, so a token issued in the second of a revocation is let in. `call[c]` is a request, cut at its
queries: login and refresh store a session (`Issue`, `OpenSession`, `PickOld`,
`StoreSession`, `Answer`), refresh verifies before (`Verify`); logout, logout of all
devices, password change and email change delete and revoke; `profile` is any other save of the
user, which may write `tokensValidFrom` back. `lock` is the lock of the user's row. bcrypt
compares the first 72 bytes, which all tokens of a user share, so every row matches
every token: `Verify` takes the one that expires last, `PickOld` any. `Crash` rolls the transaction of a `Fragile` call
back. `SessionTick` moves the clock; a token does not expire before its session is stored, which is 30
days. History: `excused` (a logout or a revocation, or the clock moved on while a call was `Dawdling`: it had issued a
token and not stored it, or was to verify a refresh in the last second of its cookie), `crowded`; `owner` and the `token` of a call serve only to say whose session is gone (`UnknownTokensAreRefused`).
The transaction of an email change is one step. Left out: registration, OAuth, one-time codes.

### AgentInbox

One browser and one conversation, whose messages `1 .. thread` are numbered by id and creation alike.
`cache` is the data React Query holds under `["messages", project, conversation, undefined]`: the pages of
`useGetMessages`, or the bare list `handleNewMessage` makes where there is nothing. `fetch` is the query's fetch: it reads page
after page (`ReadPage`, `AskNextPage`) and then replaces the data (`FinishFetch`), whatever was written
meanwhile; a fetch of an older page starts from the pages as they are when it begins (`ScrollUp`).
`draft[d]` is a reply: `SendReply` is `onMutate`, `AnswerReply` `onSuccess`, `FailReply`
`onError`, each with the whole update of the cache. What the library does with a fetch is external, modelled from
its use here: a new fetch takes the place of one under way, `cancelQueries` drops it, data that no
component observes is forgotten after `gcTime`. `handleNewMessage` treats the data as a list:
its updater throws on pages (`HearMessage` leaves them alone), and the list it makes of nothing is one the pane
cannot render (`CrashOnRender`). `replaced` and `scrolled` are history: replies since
whose beginning a fetched list came in, and replies under way when an older page was asked for.
Where the code filters the optimistic message out of a page, `Without` removes the one place that has it.

### AgentSession

One tab. `bearer` and `signedIn` are `accessToken` and `isAuthenticated` of the store, which survive a reload
(`LoadPage`). `apiCall[c]` is a call of a page, `UserMe` the one that verifies the session while
nothing but a spinner is shown. A call refused with `TOKEN_INVALID` waits for `renewal`, the promise all
refused calls share (`RefuseCall`); when it is answered or fails, all of them go on at once
(`AnswerRenewal`, `EndRenewal`), and a second refusal of a call is final (`RefuseAgain`). The server's side is
`renewable`: whether it would still accept the cookie, which is what `UserSessions` is about. `goodbye` is
the request of a logout, whose end clears the store, answered or not. History: `said` (login or logout,
whichever took effect last), `crossed` (a refresh was under way then, or the logout
did not reach the server), `repelled` (a refresh or verification failed since). Left out: two-factor
authentication and other tabs, which share the stored state.

### AgentRooms

The dashboard makes a socket per access token (`MakeSocket`), puts it in the context when it is connected
(`ConnectSocket`), and the effect of `InboxLayout` joins the room of the page's project whenever socket or
project differ from those it ran with (`RunEffect`). Events emitted meanwhile wait in `buffer`;
those that arrived are handled in any order (`arriving`), because each passes a guard with a
query and a join reads the membership, too. A connection that is lost takes its rooms with it. `spoiled` is history: why
a project's room may be another than the page's.

## 3. Runs

| run | bounds | shows |
|---|---|---|
| `pipeline` | 2 workers, 2 messages of 1 visitor, both modes, 1 stall per job, 1 crash, 1 API edit and 1 fault of the relay (a failed pass, a refused pipeline or a listener that does not start), combined as `FewFaults` says; fairness | `OneActiveConversation`, `CompletedIsStored`, `DuplicateNeedsStall`, `NoSilentLoss`, `RepublishNeedsInterruption`, `ImplementsOutbox`, `EventsAreRelayed`, `JobsSettle` |
| `exactly_once` | 1 crash, 1 API outage | finding: delivery is neither at least nor at most once |
| `desk` (ai) | 2 messages, 1 page, 5 nodes of all types, expiry at any time | `OneRunUnlessExpired`, `PositionProtected`, `PagesKept` |
| `desk` (forms) | 2 sends, 2 answers, 1 template, each answer may be deleted, each request may expire | `SubmittedOnce`, `ImplementsFormAnswers`, `OneActiveUnlessRaced` |
| `desk` (inbox) | 2 replies, 3 to 5 messages, pages of 2, 2 pages | `RepliesFollowRequests`, `SettledUnlessScrolled` |
| `desk` (rooms) | 2 projects, 3 access tokens, a page is shown while at most 2 events are under way | `RoomsFollowPage` |
| `desk` (session) | a new visitor, 2 sockets on 2 processes, 2 identifies, 1 reply, 1 message, 1 fault | `NoGhost`, `SessionExpires`, `ShownOnce` |
| `desk` (widget) | 2 connections, 2 identifies, 2 messages | `StoredIsShownAsSent` |
| `session_takeover` | 2 sockets, 2 identifies, no fault | finding: a disconnect deletes the session of another socket |
| `ai_position` | 2 messages, no page | finding: the next message resets the workflow |
| `forms_resend` | 2 sends, 1 answer | finding: an expired request blocks the form |
| `inbox_pages` | as `desk` (inbox) | finding: older pages repeat the page that is there |
| `rooms_reconnect` | as `desk` (rooms) | finding: a connection that comes back is in no room |
| `services` (row) | 3 calls that change the row, 1 agent | `SerialUnlessRaced`, `AnnouncedUnlessUndone`, `UnreadWereSent` |
| `services` (members) | 4 calls, 3 users, 2 of them managers | `ManagedUnlessStale`, `InvitationsAreUsedUp` |
| `services` (providers) | 3 generations, 2 providers, threshold 2, recovery 1, 3 ticks | `OpenCountsFailures`, `RecoveryFollowsFailure` |
| `services` (webhook) | 1 dispatcher, 1 publication, 3 attempts | `AuditTrail`, `CompletedWasReceived`, `JobsEnd` |
| `services` (sessions) | a session and 3 calls, 2 browsers, limit 2, lifetime 2, 3 seconds, 1 crash | `WithinLimitUnlessCrowded`, `NoLogoutLoop`, `CallsEnd` |
| `services` (agent) | 2 calls and the verification, 3 access tokens, fairness | `SessionFollowsAgent`, `ApiCallsReturn` |
| `services_pending` | the row's instance | finding: the auto-pending job acts on a last message that a save wrote back |
| `services_password` | the sessions' instance without crashes | finding: a password change waits for itself |
| `services_tokens` | the sessions' instance without crashes, limit 1 | finding: a token whose session the limit removed is accepted |

Why these bounds are enough: every property is about one visitor, one row or one
conversation, and is broken, when it is, by two actors: two workers are the two
transactions or passes that collide (the mutants confirm it), two messages are the two
conversations of a fork, and one fault per kind lies at every point of both. The
pipeline proofs then cover every number. Two sockets are an old and a new connection; on
two processes, so that one survives a crash; two identifies may go to one socket
(widgets identify whenever their window opens) or to both. One widget needs the same
two connections and two identifies, and a message on either side of the lost connection. Two messages are two runs
that compete for the lock, or overlap; the workflow has every type of node and an edge of each
kind, so every case of the engine's functions occurs. Two sends are a request and one that raced with
it or came later; two answers are two tabs. Two replies on two pages meet
in one cache, with a message of another in between. Two projects are one left for the other; three tokens
let a socket be replaced twice, once while events are under way. Two calls are refused
together, so that one waits for the refresh of the other, and the third token is that of a refresh or a login after a logout. Three calls on a row are one
that writes a message, one that changes a column meanwhile, and one that visits a page, truncates
the history or assigns, whose read may be older than both. Two managers demote each other while an invitation is accepted twice or
cancelled, which takes four calls. Three generations are one that opens a breaker, one under
way since before, and the one that tries it again. Jobs of a webhook do not touch each
other, so one with all attempts suffices. Three calls after the first login are two tabs that refresh and a
call that revokes between them; `Grace` 0 and `Lifetime` 2 let a rotated row and a
token expire by second three, the last of the clock.

`CHECK_DEADLOCK FALSE` stands in every cfg: visitors may send nothing more, and
counters are bounded, so the models end.

Fairness (`MessagePipeline!Fairness`): a worker goes on with its job, polls the outbox
(the interval timer of `OutboxListenerService`), starts its listener; BullMQ keeps
looking for stalled jobs. Nothing is assumed of visitors, agents or faults, or of which of two
enabled steps of a worker comes first. `EventsAreRelayed` needs a
listener that starts: `MaxListenFailures` is 1 for two processes. With every
listener deaf nothing would be relayed, which `onModuleInit` only logs.
`MCServices!Fairness`: the worker of the webhooks queue goes on with a job (`WorkOn`), an API
process with its requests (`Proceed`), and the server answers what the dashboard sent (`Respond`: a request
is served or refused, and an answer reaches the interceptors); neither receivers nor operators, clients or clocks are
assumed to do anything.

## 4. Findings

* `exactly_once`: `docs/architecture.md:103` promises exactly-once delivery. An event
  published while no API process is subscribed is deleted undelivered; a worker that
  goes down between PUBLISH and commit delivers twice. `ExactlyOnceWithoutFaults` proves it where
  neither happens, no pass fails and Redis refuses nothing; at-least-once needs only the API processes
  and Redis, at-most-once only the workers.
* `session_takeover`: the comment of `deleteVisitorSession` says the comparison
  prevents the deletion of a new connection's session. GET and DEL are two commands, and the
  session may change hands in between.
* `ai_position`: `.gtd/CODEBASE.md:109` says that `workflowState.currentNodeId` tracks the
  position across messages. The worker puts the message's `sessionMetadata`, which has
  no position, in place of the conversation's metadata, so every message the widget
  sends starts the workflow over (or moves it back under a run in progress).
* `forms_resend`: `send_form_to_chat.md:319` (`agent_workspace`) says that the agent must
  resend a form that expired. `hasPendingFormRequest` ignores `expiresAt`, so the expired request
  stays pending and every further one is refused.
* `inbox_pages`: the comment at `frontend/src/services/inboxApi.ts:173` takes the last message of a
  page for its oldest. `listByConversation` reverses the page before it returns it, so the cursor is the
  newest one's id, and the next page repeats all the others.
* `rooms_reconnect`: `deep_investigation/agent-message-broadcast-flow.md:87` says that all agents who joined a project's
  room receive its messages. When a connection comes back, `handleConnect` sets the same socket object
  again, so the effect that joins is not run, and the agent hears nothing of the project until another page
  is opened or the token changes.
* `services_pending`: `status_automation/docs/decisions.md:17` says that the conditional
  update "guarantees strict consistency". It compares `last_message_id`, which every
  save of a conversation read before the visitor's answer writes back: the conversation is
  put to pending although the visitor has answered. `PendsQuietWithoutRaces` proves the guarantee as
  long as no save writes over a change made since its read.
* `services_tokens`: `user-authentication-flow.md:186` (`deep_investigation`) says that the oldest sessions are removed beyond the
  limit, lines 216 to 219 that a token that is not found is refused, and `token.service.ts:151` that a rotated token "disappears"
  after its grace period. bcrypt compares the first 72 bytes, which all refresh tokens of a user share: the token of a session
  that is gone matches the row of another, and is accepted and rotated as long as the user has any row. `NoLogoutLoop` holds for the
  same reason: if the code did what is documented, the refresh of a browser whose session was removed by the limit would
  find no row and end all sessions of the user (lines 217 and 218). `Logout` deletes all rows, too.
* `services_password`: `changePassword` holds the lock of the user's row in its transaction
  (`password.service.ts:84`) and awaits `invalidateAllTokens` (line 88), which updates that row
  on another connection: the request never returns, nor does any later one that writes the user.
  `resetPassword` is built the same way. `PasswordChangesHang` proves that this is so of every password change.

INV-5, "Only ONE active form request per conversation" (`actions.service.ts:257`), is
enforced by a check before the insertion. The design notes the race (line 307), so it is
no finding here; `OneActiveUnlessRaced` says exactly when it fails.

## 5. Proofs

All with TLAPS, for every value of the constants (visitors, sockets, calls, messages, tokens and any bounds), from
the modules' assumptions about them alone (and, where said, that the bound of some fault is 0). Each invariant below was
checked by TLC on the run of its part before it was proved. A theorem's proof has one step per action; the
temporal step is PTL.

`MessagePipelineProofs`

* `TypeCorrect`: `TypeOK` alone is not inductive: a transaction's
  message and conversation must exist, and a pass must hold stored rows (`TypeInv`).
* `VisitorHasOneActiveConversation`: `ThreadInv` says that (1) two transactions between find and commit are of
  different visitors (the row lock), (2) at most one ordinary conversation of a
  visitor takes messages, in either mode, and (3) a writing transaction may make its conversation active: no other
  ordinary one takes messages. (3) is what the commit needs, since the conversation may
  have been closed since it was found.
* `CompletedJobsAreStored`, `StallsBoundDuplicates`: `StoredInv` says that a process at work alone owns an active job
  (`OwnsJob`), and counts: a message whose try starts over (unsent, waiting, or in a transaction before its commit)
  is stored at most as often as it stalled, any other once more (`CountsStalls`). A crash after the commit leaves the
  job active with nobody at it, and only the stall that finds it there lets it start over.
* `NothingLostSilently`, `RepublishedOnlyAfterInterruption`: `RelayInv` says that passes
  hold disjoint parts of the outbox (SKIP LOCKED), that what left the outbox or is held
  by a pass that published was announced, and that a row no such pass holds was
  published at most as often as passes were interrupted.
* `PipelineImplementsOutbox`: every step is a step of `TransactionalOutbox` or leaves its state alone. Rows that Redis refused
  are part of the abstract state: they leave the outbox unannounced.
* `DeliveredAtLeastOnce`, `DeliveredAtMostOnce`, `ExactlyOnceWithoutFaults` say which faults the documented
  delivery depends on, by three invariants beside `RelayInv`: without outages every announcement is heard (`AllHeard`),
  none is heard more often than it is made (`HeardInv`), and without crashes and failed passes no pass that
  published is interrupted (`NobodyInterrupted`).

`DeskProofs`

* `LockExcludesOthers`: two runs of the AI overlap only if a lock expired under one of them, for any
  number of runs and any workflow. `LockInv`: a run at work holds the lock or outlived it.
  `LockProtectsPosition`: a run that was not disturbed writes over the position it read.
* `RefetchKeepsPages`: a page that was saved and not raced is in the metadata and in every copy of it that somebody
  is going to write: what a run fetched again, what a message brought along, what `updateContext` read (`InEveryCopy`).
* `SocketFollowsPage`: of an undisturbed room at most one event is on its way, and it is a join just if the effect
  of the page holds the room on the socket of the token; with no event on the way, the server's room is as the effect
  has it (`RoomInv`). So the order in which the server handles events cannot matter. The way is the buffer until
  the connection is there (`LinkInv`).
* `RepliesAreShown`, `RepliesSettle`: `CacheInv` and `FetchInv` say where an optimistic message can be: in the cache
  while its reply is under way, or after a scroll; in the pages of a fetch only if the reply was under way
  when the fetch started from them. No reply begins while a fetch runs (`cancelQueries`), so that the end of a fetch
  has seen all of them. A page has the optimistic message of a reply at most once (`Once`), which is what `Without` relies on
  when it removes one place where the code filters.

`FormRequestsProofs`: `AnsweredOnce`, `OneActiveRequest`. `SubmitInv`: the
submissions that exist are the answers of their requests, and at most one transaction
per request is past the index. `PendingInv`: a call that goes on to insert found the request it
looked at answered, or its answer was deleted since. The chain of requests up to the
new one then gives `OneActiveUnlessRaced`. `FormsImplementAnswers` is the refinement of `FormAnswers`. `StoredInv`
says that a request nobody can see has neither answer nor mark, is inserted by one call, and is not
what a submission past its checks is for; then a commit of a submission is `Answer`, a deletion `Withdraw`, the commit of a
request `Ask`, and every other step a stutter.

`ConversationRowProofs`: `SerialWithoutRaces`, `AnnouncedWithoutRaces`. `RowInv` adds that a
read of the current version is the row (`Fresh`), and that a comparison made since then found
exactly what the edit changed: a commit that overwrites nothing newer is the edit
applied to the row. `UnreadNeverMadeUp`: `UnreadInv` bounds the counter of the row and of every entity in
memory, the stale ones too, by the messages counted so far and the call's own one (`CountsSent`); nothing is
assumed of the number of calls, the set of those counted is finite because each step adds one at most.
`PendsQuietWithoutRaces`: until a commit is `raced`, the row's last message is the one committed last
(`LastSent`), so the job's comparison sees every answer of the visitor. `AnnouncedWithoutRaces`: a transaction
that wrote holds the row's lock until it ends, so it is the last that announced when it commits (`LockAnnounced`), and who
announced has written (`AnnouncedByAssign`).

`AccountProofs`

* `ProjectStaysManaged`. `OnAnother`: a call past its checks is not on
  its own caller, so who changes the members and is a manager stays one. `InvitedOnce`. `UsedInv`: an
  invitation exists once its call is done; a member, and an entity about to be saved, name
  invitations that are used or gone (`Made`, `AcceptsMade`, `CopyUsed`, `RowUsed`).
* `PasswordChangesHang`: a password change that did not die is on its way and holds the row, and
  nothing else does (`PasswordInv`); so the revocation it awaits is never enabled.
* `SessionLimitHolds`: a call whose transaction no other overlapped leaves fewer rows than the limit of those it
  found, so its own has room (`RoomInv`, with the library's facts on cardinalities).
* `NobodyLoggedOut`, an action property: until somebody is excused, while a token lives there is a row that expires at
  most a second before it (`Covered`). It holds of the cookies and of every token a call has on its way (`CallSafe`): the
  row a refresh rotates may be any, and that which it stores covers them all. It needs that every token matches every row.
* `AgentIsFollowed` leaves out a refresh that was under way at the login or logout, whose late answer may undo it, and a
  logout that did not reach the server (`crossed`). Any other logout leaves neither a cookie
  the server accepts nor a granted refresh behind, and who holds a token is signed in (`StoreInv`): calls refused afterwards cannot
  sign the browser in again.

`ConnectionProofs`

* `SessionKeyExpires` is inductive with the types. `NoGhostRemains`: the key names a socket that is up or whose removal is
  past its comparison, and the visitor is online only while some socket is up, orphans left out (`GhostInv`).
* `ItemsShownOnce`: `HandlerInv` relates what an identify found when it began, what is stored now and what its history
  holds, for the items that were not under way; `ShownAt` then follows an item from there, `TargetInv` says
  that nothing goes to a socket that never connected.
* `MessagesShownAsSent`: while the connection is named and heard, a message that got through has been answered, or
  its answer is on its way to that connection (`AnswerInv`).

`OutgoingCallsProofs`: `BreakersCountFailures`, `BreakersRecover`. `BreakerInv` relates the
counter to the failures since the last answer and `nextAttempt` to the last failure.
`RowsAreAuditTrail`, `CompletionIsReceipt`. `JobInv`: a job at work has attempts left and is
made once; `AuditTrail` counts rows, whose status is the sender's view and not modelled; a run that is about to post has a row that no request stands for yet; a run that was answered was received.

Every module's type invariant is a theorem, too (`TypeCorrect`, `RowTypeCorrect`, `MembersTypeCorrect`, ...).

The theorems above are about each part's own specification; the runs check the parts beside each
other. `DeskComposes` and `ServicesCompose` prove that the compositions implement all of them (`DeskStep`,
`ServicesStep`: a step is one of a part and leaves the others alone). `DeskTypeCorrect`, `ServicesTypeCorrect`, `DeskIsSafe` and
`ServicesAreSafe` carry every safety property over to the specification that TLC runs.

What the attempts to prove changed in the models: `NoLogoutLoop` is false in instances larger than the run's when a call takes seconds to
store its session, or a refresh comes in the last second of its cookie (`excused` now names both); a
reply stored by a process that died before it was sent was missing from the histories of `RealtimeSession` (`kept`);
`CASE` expressions whose arms overlapped were made disjoint.

Only model-checked: the liveness properties `EventsAreRelayed`, `JobsSettle`, `CallsEnd`, `JobsEnd` and `ApiCallsReturn`. They
need fairness and ENABLED, which are out of the prover's reach. Every other property of the passing runs is a
theorem, and so are the conditions under which the properties of the runs `exactly_once` and
`services_pending` hold. The counterexamples of the other findings stay with TLC: a theorem cannot say that a
behaviour exists.

## 6. Plan

In this order; each with its run, its mutants and, where it says so, theorems.

1. `WidgetMessages` with the handlers that fail and the reconnects that give up.
2. One-time codes of OAuth, two-factor authentication and recovery.
3. Proofs: the invariants of what 1 and 2 add.

Not modelled, and not planned: single-row CRUD, mail, screenshots, audit records, the
rendering of the dashboard, module wiring and migrations. They neither interleave nor
keep state that another component depends on.
