--------------------------- MODULE ConversationRow ---------------------------
(***************************************************************************)
(* One row of the conversations table.  Every request of the inbox API, the  *)
(* worker's message transaction and the visitor's page views read the row,   *)
(* change the entity in memory and save it; the delayed auto-pending job      *)
(* updates it in place.  The transactions are READ COMMITTED and nothing      *)
(* locks the row between the read and the save.                              *)
(***************************************************************************)
EXTENDS Naturals, Sequences, FiniteSets

CONSTANTS
    Requests,    \* calls that change the row, each of them once
    Edits,       \* what each call may ask for
    Agents,
    Nobody,      \* assignee_id or last_message_id is NULL
    MaxHistory,  \* MAX_URL_HISTORY_LENGTH
    KeptHistory  \* entries kept when the visitor disconnects

Statuses == {"open", "pending", "solved", "spam"}

\* What the calls ask for: updateStatus and assign carry a value.
Edit ==
    [kind : {"status"}, to : Statuses]
        \union [kind : {"assign"}, to : Agents \union {Nobody}]
        \union [kind : {"read", "visit", "truncate", "message", "greeting", "reply"},
                to : {Nobody}]

ASSUME RowAssumption ==
    /\ Edits \in [Requests -> SUBSET Edit]
    /\ Nobody \notin Requests
    /\ MaxHistory \in Nat \ {0}
    /\ KeptHistory \in 1 .. MaxHistory

VARIABLES
    stored,        \* the row exists
    row,           \* its columns
    request,       \* the calls: what each read, changed and is about to write
    job,           \* auto-pending jobs, by the reply that scheduled them
    announced,     \* the call of the last conversation.updated event about the assignee
    newest,        \* the call that committed the last message
    version,       \* number of changes of the row
    raced,         \* some save wrote over a change made since its read
    serialStored,  \* the row as it is when the calls happen one after another,
    serialRow      \* in the order of their commits

rowVars == <<stored, row, request, job, announced, newest, version, raced, serialStored,
             serialRow>>

-----------------------------------------------------------------------------
(* Types *)

\* last is the request that sent the last message, history the requests that
\* visited a page.
Row == [status : Statuses, unread : Nat, last : Requests \union {Nobody},
        assignee : Agents \union {Nobody}, history : Seq(Requests)]

Columns == [status : BOOLEAN, unread : BOOLEAN, last : BOOLEAN, assignee : BOOLEAN,
            history : BOOLEAN]

\* entity is the entity after the change, seen the version it was read at, dirty the
\* columns that save found to differ from the row, insert that it found no row.
Request == [pc : {"idle", "found", "compared", "written", "missed", "committed", "done",
                  "failed"},
            edit : Edit, entity : Row, seen : Nat, dirty : Columns, insert : BOOLEAN]

RowTypeOK ==
    /\ stored \in BOOLEAN
    /\ row \in Row
    /\ request \in [Requests -> Request]
    /\ job \in [Requests -> {"none", "waiting", "done"}]
    /\ announced \in Requests \union {Nobody}
    /\ newest \in Requests \union {Nobody}
    /\ version \in Nat
    /\ raced \in BOOLEAN
    /\ serialStored \in BOOLEAN
    /\ serialRow \in Row

NewRow == [status |-> "open", unread |-> 0, last |-> Nobody, assignee |-> Nobody,
           history |-> <<>>]

NoColumn == [status |-> FALSE, unread |-> FALSE, last |-> FALSE, assignee |-> FALSE,
             history |-> FALSE]

\* A call without an entity in memory.
Outside(pc, e) == [pc |-> pc, edit |-> e, entity |-> NewRow, seen |-> 0, dirty |-> NoColumn,
                   insert |-> FALSE]

Sending == {"message", "greeting", "reply"}
Reading == [kind |-> "read", to |-> Nobody]

RowInit ==
    /\ stored = TRUE
    /\ row = NewRow
    /\ request = [r \in Requests |-> Outside("idle", Reading)]
    /\ job = [r \in Requests |-> "none"]
    /\ announced = Nobody
    /\ newest = Nobody
    /\ version = 0
    /\ raced = FALSE
    /\ serialStored = TRUE
    /\ serialRow = NewRow

-----------------------------------------------------------------------------
(* The change each call makes to the entity *)

Visited(history, r) ==
    IF Len(history) < MaxHistory THEN Append(history, r) ELSE Append(Tail(history), r)

Truncated(history) ==
    IF Len(history) > KeptHistory
    THEN SubSeq(history, Len(history) - KeptHistory + 1, Len(history))
    ELSE history

\* Every message counts as unread, the agents' replies too.
CountsReplies(c, r, unread) ==
    [c EXCEPT !.status = IF @ = "spam" THEN "spam" ELSE "open", !.last = r, !.unread = @ + 1]

\* updateLastMessage: the conversation is opened again unless it is spam.
WithMessage(c, r, unread) ==
    [c EXCEPT !.status = IF @ = "spam" THEN "spam" ELSE "open",
              !.last = r, !.unread = @ + unread]

\* A greeting is a visitor's message that brings metadata: findOrCreateByVisitorId
\* saves the metadata, updateLastMessage then reads the row again.
Edited(c, e, r) ==
    CASE e.kind = "status"   -> [c EXCEPT !.status = e.to]
      [] e.kind = "assign"   -> [c EXCEPT !.assignee = e.to]
      [] e.kind = "read"     -> [c EXCEPT !.unread = 0]
      [] e.kind = "visit"    -> [c EXCEPT !.history = Visited(@, r)]
      [] e.kind = "truncate" -> [c EXCEPT !.history = Truncated(@)]
      [] e.kind = "greeting" -> [c EXCEPT !.history = <<r>>]
      [] e.kind = "message"  -> WithMessage(c, r, 1)
      [] e.kind = "reply"    -> WithMessage(c, r, 0)

\* What the transaction does after the save: a greeting holds the lock of the row
\* by then, so nothing comes between its two saves.
Finished(c, e, r) == IF e.kind = "greeting" THEN WithMessage(c, r, 1) ELSE c

\* The whole call on a row nobody else changes.
Served(c, e, r) == Finished(Edited(c, e, r), e, r)

-----------------------------------------------------------------------------
(* The store *)

\* The row becomes c, or goes when exists is FALSE.
Store(exists, c) ==
    /\ stored' = exists
    /\ row' = c
    /\ version' = IF exists = stored /\ c = row THEN version ELSE version + 1

\* A transaction wrote the row and did not commit.
RowLocked == \E r \in Requests : request[r].pc = "written"

Replace(r, value) == request' = [request EXCEPT ![r] = value]

\* The message of r is inserted but not committed: its foreign key locks the row
\* against DELETE.
HoldsKey(r) ==
    /\ request[r].pc \in {"found", "compared"}
    /\ request[r].edit.kind \in {"message", "reply"}

\* truncateUrlHistory saves only a history that is too long.
Saves(c, e) == e.kind = "truncate" => Len(c.history) > KeptHistory

\* findOne inside the call, and the change of the entity.
Find(r, e) ==
    /\ request[r].pc = "idle"
    /\ stored
    /\ Saves(row, e)
    /\ Replace(r, [request[r] EXCEPT !.pc = "found", !.edit = e, !.seen = version,
                                     !.entity = Edited(row, e, r)])
    /\ UNCHANGED <<stored, row, job, announced, newest, version, raced, serialStored, serialRow>>

\* 404, a new conversation for the visitor's message, or nothing to truncate.
FindNothing(r, e) ==
    /\ request[r].pc = "idle"
    /\ stored => ~Saves(row, e)
    /\ Replace(r, Outside("failed", e))
    /\ UNCHANGED <<stored, row, job, announced, newest, version, raced, serialStored, serialRow>>

\* validateProjectMembership refuses the call, or its transaction fails: at the
\* latest its COMMIT, when assign has announced already.
Refuse(r) ==
    /\ request[r].pc \in {"found", "compared", "written", "missed"}
    /\ Replace(r, Outside("failed", request[r].edit))
    /\ UNCHANGED <<stored, row, job, announced, newest, version, raced, serialStored, serialRow>>

\* The counter is saved only when it grew: a reset to zero is lost.
GrownColumns(c, d) ==
    [status |-> c.status # d.status, unread |-> c.unread > d.unread, last |-> c.last # d.last,
     assignee |-> c.assignee # d.assignee, history |-> c.history # d.history]

Differences(c, d) ==
    [status |-> c.status # d.status, unread |-> c.unread # d.unread, last |-> c.last # d.last,
     assignee |-> c.assignee # d.assignee, history |-> c.history # d.history]

\* save loads the row again and writes the columns in which the entity differs
\* from it, whoever changed them; without a row it inserts the entity.
Compare(r) ==
    /\ request[r].pc = "found"
    /\ Replace(r, [request[r] EXCEPT !.pc = "compared", !.insert = ~stored,
                                     !.dirty = Differences(request[r].entity, row)])
    /\ UNCHANGED <<stored, row, job, announced, newest, version, raced, serialStored, serialRow>>

\* The relation is saved without its column.
WithoutAssignee(c, entity, dirty) == [entity EXCEPT !.assignee = c.assignee]

Overwritten(c, entity, dirty) ==
    [status   |-> IF dirty.status THEN entity.status ELSE c.status,
     unread   |-> IF dirty.unread THEN entity.unread ELSE c.unread,
     last     |-> IF dirty.last THEN entity.last ELSE c.last,
     assignee |-> IF dirty.assignee THEN entity.assignee ELSE c.assignee,
     history  |-> IF dirty.history THEN entity.history ELSE c.history]

\* The call as it is served without the others.
ServeSerially(r) ==
    /\ UNCHANGED serialStored
    /\ serialRow' = IF serialStored THEN Served(serialRow, request[r].edit, r) ELSE serialRow

\* The UPDATE, or the INSERT of a row that was gone, waits for the lock of the row,
\* an INSERT of one inserted meanwhile fails, and an UPDATE of a row deleted meanwhile
\* changes nothing.  assign announces the assignee at once, before the COMMIT.
\* (A save without differences writes nothing and waits for nobody; such a call may as
\* well commit before or after the one that holds the lock.)
Write(r) ==
    LET q == request[r] IN
    /\ q.pc = "compared"
    /\ \/ /\ stored = ~q.insert
          /\ ~RowLocked
          /\ Replace(r, [q EXCEPT !.pc = "written"])
       \/ /\ ~stored
          /\ ~q.insert
          /\ q.edit.kind # "greeting"
          /\ Replace(r, [q EXCEPT !.pc = "missed"])
    /\ announced' = IF q.edit.kind = "assign" THEN r ELSE announced
    /\ UNCHANGED <<stored, row, job, newest, version, raced, serialStored, serialRow>>

\* The row as r leaves it.
Saved(r) ==
    LET q == request[r] IN
    Finished(IF q.insert THEN q.entity ELSE Overwritten(row, q.entity, q.dirty), q.edit, r)

Commit(r) ==
    LET q == request[r] IN
    /\ \/ /\ q.pc = "written"
          /\ Store(TRUE, Saved(r))
       \/ /\ q.pc = "missed"
          /\ UNCHANGED <<stored, row, version>>
    /\ newest' = IF q.edit.kind \in Sending THEN r ELSE newest
    /\ raced' = (raced \/ version # q.seen)
    /\ ServeSerially(r)
    /\ Replace(r, Outside(IF q.edit.kind = "reply" THEN "committed" ELSE "done", q.edit))
    /\ UNCHANGED <<job, announced>>

\* deleteConversation: the messages go with the row.
Delete ==
    /\ stored
    /\ ~RowLocked
    /\ \A r \in Requests : ~HoldsKey(r)
    /\ Store(FALSE, row)
    /\ serialStored' = FALSE
    /\ UNCHANGED <<request, job, announced, newest, raced, serialRow>>

-----------------------------------------------------------------------------
(* Status automation *)

\* sendAgentReply schedules the job after its commit; a crash in between loses it.
Schedule(r) ==
    /\ request[r].pc = "committed"
    /\ Replace(r, Outside("done", request[r].edit))
    /\ job' = [job EXCEPT ![r] = "waiting"]
    /\ UNCHANGED <<stored, row, announced, newest, version, raced, serialStored, serialRow>>

Due(exists, c, r) == exists /\ c.status = "open" /\ c.last = r

\* A status the table does not know.
PendedAsClosed(c) == [c EXCEPT !.status = "closed"]

Pended(c) == [c EXCEPT !.status = "pending"]

\* One conditional UPDATE, which waits for a row it may change; a job that stalls after
\* it runs again.
AutoPend(r) ==
    /\ job[r] = "waiting"
    /\ Due(stored, row, r) => ~RowLocked
    /\ \E next \in {"waiting", "done"} : job' = [job EXCEPT ![r] = next]
    /\ Store(stored, IF Due(stored, row, r) THEN Pended(row) ELSE row)
    /\ serialRow' = IF Due(serialStored, serialRow, r) THEN Pended(serialRow) ELSE serialRow
    /\ UNCHANGED <<request, announced, newest, raced, serialStored>>

RowNext ==
    \/ \E r \in Requests : \/ \E e \in Edits[r] : Find(r, e) \/ FindNothing(r, e)
                           \/ Refuse(r) \/ Compare(r) \/ Write(r) \/ Commit(r)
                           \/ Schedule(r) \/ AutoPend(r)
    \/ Delete

RowSpec == RowInit /\ [][RowNext]_rowVars

-----------------------------------------------------------------------------
(* Properties *)

\* Without a save over a change made since its read, the row is what the calls
\* make of it one after another: no status, assignment, unread message or page view
\* is lost, no deleted conversation returns.  A version check in save would do.
SerialUnlessRaced ==
    ~raced => /\ stored = serialStored
              /\ row = serialRow

AnnouncedTo == IF announced = Nobody THEN Nobody ELSE request[announced].edit.to

\* Without such a save the dashboards know the assignee of the row, unless the last call
\* they heard of did not commit: assign announces before its COMMIT, which may fail, and
\* nothing is announced then.
AnnouncedUnlessUndone ==
    ~raced => \/ AnnouncedTo = row.assignee
              \/ /\ announced # Nobody
                 /\ request[announced].pc \in {"written", "missed", "failed"}

\* A race can lose unread messages, it never makes one up.
UnreadWereSent ==
    row.unread <= Cardinality({r \in Requests : /\ request[r].pc = "done"
                                                /\ request[r].edit.kind \in {"message", "greeting"}})

\* The auto-pending job acts only while the reply that scheduled it is the last
\* message of the conversation.
PendsQuietConversations ==
    [][\A r \in Requests : AutoPend(r) /\ row' # row => newest = r]_rowVars
=============================================================================
