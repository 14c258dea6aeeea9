--------------------------- MODULE MessagePipeline ---------------------------
(***************************************************************************)
(* The way of a visitor's message through the back end: a BullMQ job, one  *)
(* database transaction of a worker process (visitor, conversation,        *)
(* message, outbox event), and the relay of the outbox event to the Redis  *)
(* channel the API listens on.                                             *)
(*                                                                         *)
(* PostgreSQL runs at READ COMMITTED: a statement sees what is committed   *)
(* when it starts, and a transaction's writes show at its commit.  The     *)
(* steps of a transaction are cut where another transaction can make a     *)
(* difference.  What BullMQ, PostgreSQL and ioredis do is modelled from    *)
(* how the code uses them.                                                 *)
(***************************************************************************)
EXTENDS Naturals, Sequences, FiniteSets

CONSTANTS
    Visitors,         \* visitors that have identified: their rows exist
    Messages,         \* messages the widgets send, by tempId
    NoMessage,        \* stands for the message of a process that has no job
    VisitorOf,        \* the sender of each message
    Procs,            \* worker processes
    HistoryModes,     \* values the project's historyVisibility setting takes
    InitialModes,     \* those it may have at first
    BatchLimit,       \* most outbox rows one relay pass fetches (100 in the code)
    MaxStalledCount,  \* times BullMQ gives a stalled job back (1 by default)
    MaxCrashes,       \* bound: crashes of worker processes
    MaxRelayErrors,   \* bound: relay transactions that end in a rollback
    MaxRedisErrors,   \* bound: pipelines in which Redis refuses a PUBLISH
    MaxListenFailures,\* bound: listeners that fail to start
    MaxApiOutages,    \* bound: pipelines executed while no API is subscribed
    MaxEdits          \* bound: status changes and deletions through the API

ASSUME ConstantsAssumption ==
    /\ VisitorOf \in [Messages -> Visitors]
    /\ NoMessage \notin Messages
    /\ HistoryModes \subseteq {"limit_to_active", "forever"}
    /\ InitialModes \subseteq HistoryModes
    /\ BatchLimit \in Nat \ {0}
    /\ MaxStalledCount \in Nat
    /\ {MaxCrashes, MaxRelayErrors, MaxRedisErrors,
        MaxListenFailures, MaxApiOutages, MaxEdits} \subseteq Nat

VARIABLES
    job,         \* each message's BullMQ job
    stalls,      \* how often BullMQ found it stalled
    tx,          \* each process's event-job transaction
    relay,       \* each process's pass over the outbox
    listener,    \* each process's outbox listener
    setting,     \* the project's historyVisibility, and whether it was changed
    convs,       \* conversations, in the order of their commits
    rows,        \* messages ever stored, in the order of their commits
    outbox,      \* ids of the messages whose outbox row exists
    sent,        \* history: PUBLISHes accepted by Redis, per message row
    heard,       \* history: of those, the ones an API was subscribed for
    interrupted, \* history: relay passes that died holding the row
    refused,     \* history: rows whose PUBLISH Redis refused
    faults       \* how much of each bound is used up

jobVars   == <<job, stalls>>
dbVars    == <<convs, rows, outbox>>
history   == <<sent, heard, interrupted, refused>>
vars == <<jobVars, tx, relay, listener, setting, dbVars, history, faults>>

-----------------------------------------------------------------------------
(* Types *)

Active == {"open", "pending"}
Status == Active \union {"solved", "spam"}

\* "deleted": the row is gone.  restored is history: an API call, and not a
\* message, reactivated the conversation or took it out of spam.
Conversation ==
    [visitor : Visitors, status : Status \union {"deleted"}, restored : BOOLEAN]

Setting == [mode : HistoryModes, changed : BOOLEAN]

NewConversation == 0

\* status is the conversation's when the transaction last read it; saved says
\* that it wrote the conversation already and so locks its row.
Transaction ==
    [pc : {"idle", "taken", "found", "inserted", "committed"},
     msg : Messages \union {NoMessage}, conv : Nat, status : Status, saved : BOOLEAN]

IdleTx ==
    [pc |-> "idle", msg |-> NoMessage, conv |-> NewConversation,
     status |-> "open", saved |-> FALSE]

Relay == [pc : {"idle", "locked", "published"}, batch : SUBSET Nat]

IdleRelay == [pc |-> "idle", batch |-> {}]

Faults == [crashes : 0..MaxCrashes, relayErrors : 0..MaxRelayErrors,
           redisErrors : 0..MaxRedisErrors, listenFailures : 0..MaxListenFailures,
           apiOutages : 0..MaxApiOutages, edits : 0..MaxEdits]

TypeOK ==
    /\ job \in [Messages -> {"unsent", "waiting", "active", "done", "failed"}]
    /\ stalls \in [Messages -> 0..MaxStalledCount]
    /\ tx \in [Procs -> Transaction]
    /\ relay \in [Procs -> Relay]
    /\ listener \in [Procs -> {"starting", "listening", "deaf"}]
    /\ setting \in Setting
    /\ convs \in Seq(Conversation)
    /\ rows \in Seq([msg : Messages, conv : Nat])
    /\ outbox \subseteq DOMAIN rows
    /\ sent \in [DOMAIN rows -> Nat]
    /\ heard \in [DOMAIN rows -> Nat]
    /\ interrupted \in [DOMAIN rows -> Nat]
    /\ refused \subseteq DOMAIN rows
    /\ faults \in Faults

Init ==
    /\ job = [m \in Messages |-> "unsent"]
    /\ stalls = [m \in Messages |-> 0]
    /\ tx = [p \in Procs |-> IdleTx]
    /\ relay = [p \in Procs |-> IdleRelay]
    /\ listener = [p \in Procs |-> "starting"]
    /\ \E mode \in InitialModes : setting = [mode |-> mode, changed |-> FALSE]
    /\ convs = <<>>
    /\ rows = <<>>
    /\ outbox = {}
    /\ sent = [r \in {} |-> 0]
    /\ heard = [r \in {} |-> 0]
    /\ interrupted = [r \in {} |-> 0]
    /\ refused = {}
    /\ faults = [crashes |-> 0, relayErrors |-> 0, redisErrors |-> 0,
                 listenFailures |-> 0, apiOutages |-> 0, edits |-> 0]

-----------------------------------------------------------------------------
(* Jobs *)

\* handleVisitorMessageReceived hands the message to BullMQ.
Enqueue(m) ==
    /\ job[m] = "unsent"
    /\ job' = [job EXCEPT ![m] = "waiting"]
    /\ UNCHANGED <<stalls, tx, relay, listener, setting, dbVars, history, faults>>

TakeJob(p, m) ==
    /\ tx[p].pc = "idle"
    /\ job[m] = "waiting"
    /\ job' = [job EXCEPT ![m] = "active"]
    /\ tx' = [tx EXCEPT ![p] = [IdleTx EXCEPT !.pc = "taken", !.msg = m]]
    /\ UNCHANGED <<stalls, relay, listener, setting, dbVars, history, faults>>

\* Completing a job before its transaction is over (a missing await).
ReturnsEarly(p) == tx[p].pc \in {"inserted", "committed"}

ProcessReturned(p) == tx[p].pc = "committed"

CompleteJob(p) ==
    /\ ProcessReturned(p)
    /\ job' = [job EXCEPT ![tx[p].msg] = "done"]
    /\ tx' = [tx EXCEPT ![p] = IdleTx]
    /\ UNCHANGED <<stalls, relay, listener, setting, dbVars, history, faults>>

\* A failed transaction that leaves its connection, and so its row lock, open.
LeakedTx(p) == [tx[p] EXCEPT !.pc = "leaked"]

TxAfterError(p) == IdleTx

\* The transaction throws and is rolled back, and process() rethrows.  The job
\* was added without attempts, so BullMQ fails it for good.
RollBackJob(p) ==
    /\ job' = [job EXCEPT ![tx[p].msg] = "failed"]
    /\ tx' = [tx EXCEPT ![p] = TxAfterError(p)]
    /\ UNCHANGED <<stalls, relay, listener, setting, dbVars, history, faults>>

\* Any statement may fail (connection lost, server restart).
FailJob(p) ==
    /\ tx[p].pc \in {"taken", "found", "inserted"}
    /\ RollBackJob(p)

StalledTooOften(m) == stalls[m] >= MaxStalledCount

\* BullMQ finds an active job that no process renews.
StalledJob(m) ==
    /\ job[m] = "active"
    /\ \A p \in Procs : tx[p].msg # m
    /\ IF StalledTooOften(m)
       THEN /\ job' = [job EXCEPT ![m] = "failed"]
            /\ UNCHANGED stalls
       ELSE /\ job' = [job EXCEPT ![m] = "waiting"]
            /\ stalls' = [stalls EXCEPT ![m] = @ + 1]
    /\ UNCHANGED <<tx, relay, listener, setting, dbVars, history, faults>>

-----------------------------------------------------------------------------
(* The transaction of an event job *)

\* Saving the visitor without touching the row (lastSeenAt not refreshed).
VisitorRowUnlocked(p, v) == TRUE

\* findOrCreateByUid saves a new lastSeenAt and so locks the visitor's row until
\* the transaction ends; the next transaction of that visitor waits there.
VisitorRowFree(p, v) ==
    \A q \in Procs \ {p} :
        tx[q].pc \notin {"idle", "taken", "committed"} => VisitorOf[tx[q].msg] # v

\* Forgetting that a conversation may be gone.
TakesUnlessSpam(c) ==
    IF setting.mode = "forever" THEN convs[c].status # "spam"
                                ELSE convs[c].status \in Active

\* The visibility mode lets a visitor's message go to c.
TakesMessages(c) ==
    IF setting.mode = "forever" THEN convs[c].status \notin {"spam", "deleted"}
                                ELSE convs[c].status \in Active

Eligible(v) == {c \in DOMAIN convs : convs[c].visitor = v /\ TakesMessages(c)}

\* ORDER BY created_at DESC, first row; none means a new one.  created_at is when
\* the creating transaction began, which says nothing about the order of the
\* commits, so any of cs may be the newest.
Newest(cs) == IF cs = {} THEN {NewConversation} ELSE cs

StatusSeen(c) == IF c = NewConversation THEN "open" ELSE convs[c].status

FindConversation(p) ==
    /\ tx[p].pc = "taken"
    /\ VisitorRowFree(p, VisitorOf[tx[p].msg])
    /\ \E c \in Newest(Eligible(VisitorOf[tx[p].msg])) :
         tx' = [tx EXCEPT ![p] = [@ EXCEPT !.pc = "found", !.conv = c,
                                          !.status = StatusSeen(c)]]
    /\ UNCHANGED <<jobVars, relay, listener, setting, dbVars, history, faults>>

\* A message with session metadata saves the conversation as it was found: the
\* save writes the status back if the row has another one by now, and inserts the
\* row again if it is gone.
SaveMetadata(p) ==
    /\ tx[p].pc = "found" /\ tx[p].conv # NewConversation /\ ~tx[p].saved
    /\ tx' = [tx EXCEPT ![p] = [@ EXCEPT !.saved = TRUE]]
    /\ UNCHANGED <<jobVars, relay, listener, setting, dbVars, history, faults>>

\* What a statement of p sees of its conversation: its own write, if there is one.
OwnStatus(p) == IF tx[p].saved THEN tx[p].status ELSE StatusSeen(tx[p].conv)

\* Inserting the message takes a key-share lock on its conversation (the foreign
\* key), which fails if the conversation is gone; updateLastMessage then reads
\* the status its save will be computed from.
InsertMessage(p) ==
    /\ tx[p].pc = "found"
    /\ OwnStatus(p) # "deleted"
    /\ tx' = [tx EXCEPT ![p] = [@ EXCEPT !.pc = "inserted", !.status = OwnStatus(p)]]
    /\ UNCHANGED <<jobVars, relay, listener, setting, dbVars, history, faults>>

ForeignKeyError(p) ==
    /\ tx[p].pc = "found"
    /\ OwnStatus(p) = "deleted"
    /\ RollBackJob(p)

Reopened(status) == IF status = "spam" THEN "spam" ELSE "open"

\* A message stored without its event (createEvent outside the transaction).
NoEvent(id) == {}

CreateEvent(id) == {id}

ExtendedTo(counts, id) ==
    [r \in DOMAIN counts \union {id} |-> IF r = id THEN 0 ELSE counts[r]]

\* A retry of the transaction although it was committed (its answer got lost).
RetriesCommit(p) == [tx[p] EXCEPT !.pc = "found"]

AfterCommit(p) == [IdleTx EXCEPT !.pc = "committed", !.msg = tx[p].msg]

\* updateLastMessage saves, createEvent inserts, and all of it is committed.
Commit(p) ==
    /\ tx[p].pc = "inserted"
    /\ LET t   == tx[p]
           id  == Len(rows) + 1
           c   == IF t.conv = NewConversation THEN Len(convs) + 1 ELSE t.conv
       IN  /\ convs' =
                IF t.conv = NewConversation
                THEN Append(convs, [visitor |-> VisitorOf[t.msg],
                                    status |-> "open", restored |-> FALSE])
                ELSE [convs EXCEPT ![c].status = Reopened(t.status)]
           /\ rows' = Append(rows, [msg |-> t.msg, conv |-> c])
           /\ outbox' = outbox \union CreateEvent(id)
           /\ tx' = [tx EXCEPT ![p] = AfterCommit(p)]
    /\ sent' = ExtendedTo(sent, Len(rows) + 1)
    /\ heard' = ExtendedTo(heard, Len(rows) + 1)
    /\ interrupted' = ExtendedTo(interrupted, Len(rows) + 1)
    /\ UNCHANGED <<jobVars, relay, listener, setting, refused, faults>>

-----------------------------------------------------------------------------
(* What the API does to conversations meanwhile *)

\* The row lock of a metadata save makes every other write wait for the commit.
Saved(c) == \E p \in Procs : tx[p].saved /\ tx[p].conv = c

\* updateStatus of an agent or of the AI's changeStatus tool, and every other
\* save of the API that writes a status back.
SetStatus(c, s) ==
    /\ faults.edits < MaxEdits
    /\ ~Saved(c)
    /\ convs[c].status \notin {"deleted", s}
    /\ convs' = [convs EXCEPT ![c] = [@ EXCEPT
            !.status = s,
            !.restored = \/ convs[c].restored
                         \/ convs[c].status = "spam"
                         \/ s \in Active /\ convs[c].status \notin Active]]
    /\ faults' = [faults EXCEPT !.edits = @ + 1]
    /\ UNCHANGED <<jobVars, tx, relay, listener, setting, rows, outbox, history>>

\* The key-share lock of a message insert makes the DELETE wait as well.
DeleteConversation(c) ==
    /\ faults.edits < MaxEdits
    /\ ~Saved(c)
    /\ convs[c].status # "deleted"
    /\ \A p \in Procs : ~(tx[p].pc = "inserted" /\ tx[p].conv = c)
    /\ convs' = [convs EXCEPT ![c].status = "deleted"]
    /\ faults' = [faults EXCEPT !.edits = @ + 1]
    /\ UNCHANGED <<jobVars, tx, relay, listener, setting, rows, outbox, history>>

\* The project's widget settings are saved with another historyVisibility.
ChangeSetting(mode) ==
    /\ faults.edits < MaxEdits
    /\ setting.mode # mode
    /\ setting' = [mode |-> mode, changed |-> TRUE]
    /\ faults' = [faults EXCEPT !.edits = @ + 1]
    /\ UNCHANGED <<jobVars, tx, relay, listener, dbVars, history>>

-----------------------------------------------------------------------------
(* The outbox relay *)

\* onModuleInit logs a failure and leaves the process without LISTEN and poller.
StartListener(p) ==
    /\ listener[p] = "starting"
    /\ \/ /\ listener' = [listener EXCEPT ![p] = "listening"]
          /\ UNCHANGED faults
       \/ /\ faults.listenFailures < MaxListenFailures
          /\ listener' = [listener EXCEPT ![p] = "deaf"]
          /\ faults' = [faults EXCEPT !.listenFailures = @ + 1]
    /\ UNCHANGED <<jobVars, tx, relay, setting, dbVars, history>>

\* Without SKIP LOCKED's effect: rows another pass holds are fetched as well.
LockedOrNot == outbox

Unlocked == outbox \ UNION {relay[p].batch : p \in Procs}

\* ORDER BY created_at LIMIT n: any n rows may be the oldest (see Newest).
Batches(ids) ==
    IF Cardinality(ids) <= BatchLimit THEN {ids}
    ELSE {b \in SUBSET ids : Cardinality(b) = BatchLimit}

\* A pass starts on a notification or every minute; one that finds nothing
\* commits and returns.
FetchEvents(p) ==
    /\ listener[p] = "listening"
    /\ relay[p].pc = "idle"
    /\ Unlocked # {}
    /\ \E batch \in Batches(Unlocked) :
         relay' = [relay EXCEPT ![p] = [pc |-> "locked", batch |-> batch]]
    /\ UNCHANGED <<jobVars, tx, listener, setting, dbVars, history, faults>>

CountFor(counts, ids) ==
    [r \in DOMAIN counts |-> IF r \in ids THEN counts[r] + 1 ELSE counts[r]]

\* pipeline.exec() resolves with the errors of single commands and never throws
\* for them.  Redis forwards a message to who is subscribed at that moment, which
\* is nobody while the API restarts.
Publish(p) ==
    /\ relay[p].pc = "locked"
    /\ \E accepted \in SUBSET relay[p].batch, subscribed \in BOOLEAN :
         /\ faults' = [faults EXCEPT
                !.redisErrors = IF accepted = relay[p].batch THEN @ ELSE @ + 1,
                !.apiOutages = IF subscribed THEN @ ELSE @ + 1]
         /\ faults'.redisErrors <= MaxRedisErrors
         /\ faults'.apiOutages <= MaxApiOutages
         /\ sent' = CountFor(sent, accepted)
         /\ heard' = IF subscribed THEN CountFor(heard, accepted) ELSE heard
         /\ refused' = refused \union (relay[p].batch \ accepted)
    /\ relay' = [relay EXCEPT ![p].pc = "published"]
    /\ UNCHANGED <<jobVars, tx, listener, setting, dbVars, interrupted>>

\* DELETE FROM outbox_events without the list of ids.
WholeOutbox(p) == outbox

EventIds(p) == relay[p].batch

DeleteEvents(p) ==
    /\ relay[p].pc = "published"
    /\ outbox' = outbox \ EventIds(p)
    /\ relay' = [relay EXCEPT ![p] = IdleRelay]
    /\ UNCHANGED <<jobVars, tx, listener, setting, convs, rows, history, faults>>

\* The rows that a relay pass gives back although it may have published them.
GivenBack(p) == IF relay[p].pc = "published" THEN relay[p].batch ELSE {}

\* An error without rollback and release: the locks stay.
LeakedRelay(p) == [relay[p] EXCEPT !.pc = "leaked"]

RelayAfterError(p) == IdleRelay

RelayError(p) ==
    /\ relay[p].pc \in {"locked", "published"}
    /\ faults.relayErrors < MaxRelayErrors
    /\ interrupted' = CountFor(interrupted, GivenBack(p))
    /\ relay' = [relay EXCEPT ![p] = RelayAfterError(p)]
    /\ faults' = [faults EXCEPT !.relayErrors = @ + 1]
    /\ UNCHANGED <<jobVars, tx, listener, setting, dbVars, sent, heard, refused>>

-----------------------------------------------------------------------------
(* Processes going down *)

\* PostgreSQL rolls both transactions back; the job stays active until BullMQ
\* finds it stalled.  The container restarts.
Crash(p) ==
    /\ faults.crashes < MaxCrashes
    /\ interrupted' = CountFor(interrupted, GivenBack(p))
    /\ tx' = [tx EXCEPT ![p] = IdleTx]
    /\ relay' = [relay EXCEPT ![p] = IdleRelay]
    /\ listener' = [listener EXCEPT ![p] = "starting"]
    /\ faults' = [faults EXCEPT !.crashes = @ + 1]
    /\ UNCHANGED <<jobVars, setting, dbVars, sent, heard, refused>>

-----------------------------------------------------------------------------

JobStep(p) ==
    \/ \E m \in Messages : TakeJob(p, m)
    \/ FindConversation(p)
    \/ SaveMetadata(p)
    \/ InsertMessage(p)
    \/ ForeignKeyError(p)
    \/ Commit(p)
    \/ CompleteJob(p)

RelayStep(p) == FetchEvents(p) \/ Publish(p) \/ DeleteEvents(p)

ApiEdit ==
    \/ \E c \in DOMAIN convs : \/ \E s \in Status : SetStatus(c, s)
                               \/ DeleteConversation(c)
    \/ \E mode \in HistoryModes : ChangeSetting(mode)

Next ==
    \/ \E m \in Messages : Enqueue(m) \/ StalledJob(m)
    \/ \E p \in Procs : \/ JobStep(p) \/ RelayStep(p) \/ StartListener(p)
                        \/ FailJob(p) \/ RelayError(p) \/ Crash(p)
    \/ ApiEdit

Spec == Init /\ [][Next]_vars

\* A worker process keeps working on its job, polls the outbox every minute and
\* starts its listener; BullMQ keeps looking for stalled jobs.  Visitors, agents
\* and faults owe nothing.
Fairness ==
    /\ \A p \in Procs : /\ WF_vars(JobStep(p))
                        /\ WF_vars(RelayStep(p))
                        /\ WF_vars(StartListener(p))
    /\ \A m \in Messages : WF_vars(StalledJob(m))

FairSpec == Spec /\ Fairness

-----------------------------------------------------------------------------
(* Properties *)

\* Of the conversations of one visitor that no API call reactivated, at most one
\* is active, as long as the project keeps its visibility mode: worker processes
\* never fork a visitor's thread, however their findOrCreateByVisitorId calls
\* interleave.  Nothing in the schema says so; the lock on the visitor's row does.
OneActiveConversation ==
    ~setting.changed => \A c, d \in DOMAIN convs :
        /\ convs[c].visitor = convs[d].visitor
        /\ ~convs[c].restored /\ ~convs[d].restored
        /\ convs[c].status \in Active /\ convs[d].status \in Active
        => c = d

Stored(m) == {r \in DOMAIN rows : rows[r].msg = m}

\* A job BullMQ was told is complete has its message in the database: a crash
\* between the steps of processEvent never loses an acknowledged message.
CompletedIsStored == \A m \in Messages : job[m] = "done" => Stored(m) # {}

\* A message is stored twice only if its job stalled after an earlier commit,
\* and never more often than that: the worker does not look at tempId, so every
\* give-back may store it again.
DuplicateNeedsStall == \A m \in Messages : Cardinality(Stored(m)) <= 1 + stalls[m]

\* A message whose outbox row is gone was published, or Redis refused it and the
\* relay deleted the row all the same.
NoSilentLoss == \A r \in DOMAIN rows \ outbox : sent[r] > 0 \/ r \in refused

\* An event is published again only by a pass that follows one that died between
\* its PUBLISH and its commit, however many processes relay at a time.
RepublishNeedsInterruption == \A r \in DOMAIN rows : sent[r] <= 1 + interrupted[r]

\* docs/architecture.md: the outbox "ensures exactly-once event delivery".
ExactlyOnceDelivery ==
    \A r \in DOMAIN rows : heard[r] <= 1 /\ (r \notin outbox => heard[r] = 1)

\* The pipeline is a transactional outbox: a message and its event are stored in one
\* step, and an event leaves the outbox only after it was published or refused.
Outbox == INSTANCE TransactionalOutbox
    WITH stored <- Len(rows), due <- outbox, refused <- refused,
         announced <- {r \in DOMAIN rows : sent[r] > 0}

ImplementsOutbox == Outbox!Spec

\* The outbox empties again and again, as long as one listener started: a pass
\* that fails gives its rows back, and the poller retries.
EventsAreRelayed == []<>(outbox = {})

\* Every job is eventually completed or failed: no transaction waits for ever for
\* the row lock of another, and no crash leaves a job active.
JobsSettle == []<>(\A m \in Messages : job[m] \notin {"waiting", "active"})

=============================================================================
