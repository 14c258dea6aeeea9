------------------------ MODULE MessagePipelineProofs ------------------------
(***************************************************************************)
(* Theorems about MessagePipeline for every set of visitors, messages and  *)
(* worker processes and every bound on the faults.                         *)
(***************************************************************************)
EXTENDS MessagePipeline, FiniteSetTheorems, TLAPS

-----------------------------------------------------------------------------
(* Types *)

\* Only a process without a job has no message.
BusyHasMessage == \A p \in Procs : tx[p].pc # "idle" => tx[p].msg \in Messages

\* The conversation of a transaction is a row, or one it will create.
ConvExists == \A p \in Procs :
    tx[p].pc \in {"found", "inserted"} =>
        tx[p].conv = NewConversation \/ tx[p].conv \in DOMAIN convs

\* A relay pass holds rows that were stored.
BatchExists == \A p \in Procs : relay[p].batch \subseteq DOMAIN rows

TypeInv == TypeOK /\ BusyHasMessage /\ ConvExists /\ BatchExists

\* Counting adds no row and keeps the counters natural numbers.
LEMMA CountForType ==
    ASSUME NEW S, NEW counts \in [S -> Nat], NEW ids
    PROVE  CountFor(counts, ids) \in [S -> Nat]
BY DEF CountFor

\* The counters of a new row start at zero, next to the others.
LEMMA ExtendedToType ==
    ASSUME NEW S, NEW counts \in [S -> Nat], NEW id
    PROVE  ExtendedTo(counts, id) \in [S \union {id} -> Nat]
BY DEF ExtendedTo

\* The conversation a message goes to exists, or is a new one.
LEMMA NewestType ==
    ASSUME NEW v, NEW c \in Newest(Eligible(v))
    PROVE  c = NewConversation \/ c \in DOMAIN convs
BY DEF Newest, Eligible

\* A relay pass fetches some of the rows it may have.
LEMMA BatchesType ==
    ASSUME NEW ids, NEW batch \in Batches(ids)
    PROVE  batch \subseteq ids
BY DEF Batches

\* The initial state is well typed.
LEMMA TypeInit == Init => TypeInv
<1> SUFFICES ASSUME Init PROVE TypeInv
  OBVIOUS
<1> USE ConstantsAssumption DEF Init
<1>1. tx \in [Procs -> Transaction]
  BY DEF Transaction, IdleTx, NewConversation, Status, Active
<1>2. relay \in [Procs -> Relay]
  BY DEF Relay, IdleRelay
<1>3. faults \in Faults
  BY DEF Faults
<1>4. /\ sent \in [DOMAIN rows -> Nat]
      /\ heard \in [DOMAIN rows -> Nat]
      /\ interrupted \in [DOMAIN rows -> Nat]
  OBVIOUS
<1>5. BusyHasMessage /\ ConvExists /\ BatchExists
  BY DEF BusyHasMessage, ConvExists, BatchExists, IdleTx, IdleRelay
<1>6. convs \in Seq(Conversation) /\ rows \in Seq([msg : Messages, conv : Nat])
  OBVIOUS
<1>7. setting \in Setting
  <2>1. PICK mode \in InitialModes : setting = [mode |-> mode, changed |-> FALSE]
    OBVIOUS
  <2> QED
    BY <2>1 DEF Setting
<1> QED
  BY <1>1, <1>2, <1>3, <1>4, <1>5, <1>6, <1>7 DEF TypeInv, TypeOK

\* Enqueueing, taking and giving back a job keep the types.
LEMMA TypeJobs ==
    ASSUME TypeInv, NEW m \in Messages,
           Enqueue(m) \/ StalledJob(m) \/ (\E p \in Procs : TakeJob(p, m))
    PROVE  TypeInv'
<1> USE ConstantsAssumption
<1>1. CASE Enqueue(m)
  BY <1>1 DEF TypeInv, TypeOK, BusyHasMessage, ConvExists, BatchExists, Enqueue,
              dbVars, history
<1>2. CASE StalledJob(m)
  <2>1. job' \in [Messages -> {"unsent", "waiting", "active", "done", "failed"}]
    BY <1>2 DEF TypeInv, TypeOK, StalledJob
  <2>2. stalls' \in [Messages -> 0..MaxStalledCount]
    <3>1. stalls \in [Messages -> 0..MaxStalledCount] /\ MaxStalledCount \in Nat
      BY DEF TypeInv, TypeOK
    <3>2. stalls[m] < MaxStalledCount => stalls[m] + 1 \in 0..MaxStalledCount
      BY <3>1
    <3>3. \/ stalls' = stalls
          \/ /\ ~(stalls[m] >= MaxStalledCount)
             /\ stalls' = [stalls EXCEPT ![m] = stalls[m] + 1]
      BY <1>2 DEF StalledJob, StalledTooOften
    <3> QED
      BY <3>1, <3>2, <3>3
  <2> QED
    BY <1>2, <2>1, <2>2
       DEF TypeInv, TypeOK, BusyHasMessage, ConvExists, BatchExists, StalledJob,
           dbVars, history
<1>3. ASSUME NEW p \in Procs, TakeJob(p, m) PROVE TypeInv'
  <2>1. tx' \in [Procs -> Transaction]
    BY <1>3 DEF TypeInv, TypeOK, TakeJob, Transaction, IdleTx,
                NewConversation, Status, Active
  <2>2. BusyHasMessage' /\ ConvExists'
    BY <1>3 DEF TypeInv, TypeOK, BusyHasMessage, ConvExists, TakeJob, IdleTx, dbVars
  <2> QED
    BY <1>3, <2>1, <2>2 DEF TypeInv, TypeOK, BatchExists, TakeJob, dbVars, history
<1> QED
  BY <1>1, <1>2, <1>3

\* A conversation that is not deleted has a status that a transaction may hold.
LEMMA StatusSeenType ==
    ASSUME TypeOK, NEW c, c = NewConversation \/ c \in DOMAIN convs,
           StatusSeen(c) # "deleted"
    PROVE  StatusSeen(c) \in Status
<1>1. CASE c = NewConversation
  BY <1>1 DEF StatusSeen, Status, Active
<1>2. CASE c # NewConversation
  <2>1. convs[c] \in Conversation
    BY <1>2 DEF TypeOK
  <2> QED
    BY <1>2, <2>1 DEF StatusSeen, Conversation
<1> QED
  BY <1>1, <1>2

\* Finding the conversation keeps the types.
LEMMA TypeFind ==
    ASSUME TypeInv, NEW p \in Procs, FindConversation(p)
    PROVE  TypeInv'
<1>2. PICK c \in Newest(Eligible(VisitorOf[tx[p].msg])) :
          tx' = [tx EXCEPT ![p] = [@ EXCEPT !.pc = "found", !.conv = c,
                                           !.status = StatusSeen(c)]]
  BY DEF FindConversation
<1>3. c = NewConversation \/ c \in DOMAIN convs
  BY NewestType
<1>4. c \in Nat
  BY <1>3 DEF NewConversation, TypeInv, TypeOK
<1>5. StatusSeen(c) # "deleted"
  BY DEF StatusSeen, Newest, Eligible, TakesMessages, Active
<1>6. StatusSeen(c) \in Status
  BY <1>3, <1>5, StatusSeenType DEF TypeInv
<1>7. [tx[p] EXCEPT !.pc = "found", !.conv = c, !.status = StatusSeen(c)] \in Transaction
  BY <1>4, <1>6 DEF TypeInv, TypeOK, Transaction
<1>8. tx' \in [Procs -> Transaction]
  BY <1>2, <1>7 DEF TypeInv, TypeOK
<1>9. tx'[p].msg = tx[p].msg /\ tx'[p].conv = c /\ \A q \in Procs \ {p} : tx'[q] = tx[q]
  BY <1>2 DEF TypeInv, TypeOK, Transaction
<1>10. BusyHasMessage'
  BY <1>9 DEF TypeInv, BusyHasMessage, FindConversation
<1>11. ConvExists'
  BY <1>3, <1>9 DEF TypeInv, ConvExists, FindConversation, dbVars
<1> QED
  BY <1>8, <1>10, <1>11
     DEF TypeInv, TypeOK, BatchExists, FindConversation, dbVars, history, jobVars

\* Saving the metadata and inserting the message keep the types.
LEMMA TypeSaveInsert ==
    ASSUME TypeInv, NEW p \in Procs, SaveMetadata(p) \/ InsertMessage(p)
    PROVE  TypeInv'
<1>1. tx[p] \in Transaction /\ tx[p].pc = "found"
  BY DEF TypeInv, TypeOK, SaveMetadata, InsertMessage
<1>2. tx[p].msg \in Messages /\ (tx[p].conv = NewConversation \/ tx[p].conv \in DOMAIN convs)
  BY <1>1 DEF TypeInv, BusyHasMessage, ConvExists
<1>3. PICK t \in Transaction : /\ tx' = [tx EXCEPT ![p] = t]
                               /\ t.msg = tx[p].msg /\ t.conv = tx[p].conv
  <2>1. ASSUME SaveMetadata(p)
        PROVE  \E t \in Transaction : /\ tx' = [tx EXCEPT ![p] = t]
                                      /\ t.msg = tx[p].msg /\ t.conv = tx[p].conv
    <3> DEFINE t == [tx[p] EXCEPT !.saved = TRUE]
    <3>1. t \in Transaction /\ t.msg = tx[p].msg /\ t.conv = tx[p].conv
      BY <1>1 DEF Transaction
    <3>2. tx' = [tx EXCEPT ![p] = t]
      BY <2>1 DEF SaveMetadata
    <3> QED
      BY <3>1, <3>2
  <2>2. ASSUME InsertMessage(p)
        PROVE  \E t \in Transaction : /\ tx' = [tx EXCEPT ![p] = t]
                                      /\ t.msg = tx[p].msg /\ t.conv = tx[p].conv
    <3> DEFINE t == [tx[p] EXCEPT !.pc = "inserted", !.status = OwnStatus(p)]
    <3>1. OwnStatus(p) \in Status
      BY <1>1, <1>2, <2>2, StatusSeenType
         DEF TypeInv, InsertMessage, OwnStatus, Transaction
    <3>2. t \in Transaction /\ t.msg = tx[p].msg /\ t.conv = tx[p].conv
      BY <1>1, <3>1 DEF Transaction
    <3>3. tx' = [tx EXCEPT ![p] = t]
      BY <2>2 DEF InsertMessage
    <3> QED
      BY <3>2, <3>3
  <2> QED
    BY <2>1, <2>2
<1>4. /\ tx' \in [Procs -> Transaction]
      /\ tx'[p] = t /\ \A q \in Procs \ {p} : tx'[q] = tx[q]
  BY <1>3 DEF TypeInv, TypeOK
<1>5. UNCHANGED <<jobVars, relay, listener, setting, dbVars, history, faults>>
  BY DEF SaveMetadata, InsertMessage
<1>6. BusyHasMessage' /\ ConvExists'
  BY <1>2, <1>3, <1>4, <1>5 DEF TypeInv, BusyHasMessage, ConvExists, dbVars
<1> QED
  BY <1>4, <1>5, <1>6 DEF TypeInv, TypeOK, BatchExists, dbVars, history, jobVars

\* The end of a job, whether it is completed or rolled back, keeps the types.
LEMMA TypeJobEnds ==
    ASSUME TypeInv, NEW p \in Procs,
           FailJob(p) \/ ForeignKeyError(p) \/ CompleteJob(p)
    PROVE  TypeInv'
<1>1. /\ tx[p].msg \in Messages
      /\ job' = [job EXCEPT ![tx[p].msg] = "done"] \/ job' = [job EXCEPT ![tx[p].msg] = "failed"]
      /\ tx' = [tx EXCEPT ![p] = IdleTx]
      /\ UNCHANGED <<stalls, relay, listener, setting, convs, rows, outbox, sent,
                     heard, interrupted, refused, faults>>
  BY DEF TypeInv, BusyHasMessage, FailJob, ForeignKeyError, CompleteJob,
         RollBackJob, TxAfterError, ProcessReturned, dbVars, history
<1>2. IdleTx \in Transaction /\ IdleTx.pc = "idle"
  BY DEF IdleTx, Transaction, NewConversation, Status, Active
<1>3. tx' \in [Procs -> Transaction]
  BY <1>1, <1>2 DEF TypeInv, TypeOK
<1>4. job' \in [Messages -> {"unsent", "waiting", "active", "done", "failed"}]
  BY <1>1 DEF TypeInv, TypeOK
<1>5. BusyHasMessage' /\ ConvExists'
  BY <1>1, <1>2 DEF TypeInv, TypeOK, BusyHasMessage, ConvExists
<1> QED
  BY <1>1, <1>3, <1>4, <1>5 DEF TypeInv, TypeOK, BatchExists

\* Committing a message adds a row, its counters and perhaps a conversation.
LEMMA TypeCommit ==
    ASSUME TypeInv, NEW p \in Procs, Commit(p)
    PROVE  TypeInv'
<1> DEFINE t  == tx[p]
           id == Len(rows) + 1
           c  == IF t.conv = NewConversation THEN Len(convs) + 1 ELSE t.conv
<1> USE ConstantsAssumption
<1>1. t \in Transaction /\ t.msg \in Messages /\ VisitorOf[t.msg] \in Visitors
  BY DEF TypeInv, TypeOK, BusyHasMessage, Commit, Transaction
<1>2. convs' \in Seq(Conversation) /\ DOMAIN convs \subseteq DOMAIN convs'
  <2>1. CASE t.conv = NewConversation
    <3>1. [visitor |-> VisitorOf[t.msg], status |-> "open", restored |-> FALSE] \in Conversation
      BY <1>1 DEF Conversation, Status, Active
    <3>2. convs' = Append(convs, [visitor |-> VisitorOf[t.msg],
                                  status |-> "open", restored |-> FALSE])
      BY <2>1 DEF Commit
    <3> QED
      BY <3>1, <3>2 DEF TypeInv, TypeOK
  <2>2. CASE t.conv # NewConversation
    <3>1. convs' = [convs EXCEPT ![t.conv].status = Reopened(t.status)]
      BY <2>2 DEF Commit
    <3>2. Reopened(t.status) \in Status
      BY DEF Reopened, Status, Active
    <3>3. t.conv \in DOMAIN convs
      BY <2>2 DEF TypeInv, ConvExists, Commit
    <3>4. convs[t.conv] \in Conversation
      BY <3>3 DEF TypeInv, TypeOK
    <3>5. [convs[t.conv] EXCEPT !.status = Reopened(t.status)] \in Conversation
      BY <3>2, <3>4 DEF Conversation
    <3> QED
      BY <3>1, <3>3, <3>5 DEF TypeInv, TypeOK
  <2> QED
    BY <2>1, <2>2
<1>3. rows' \in Seq([msg : Messages, conv : Nat]) /\ DOMAIN rows' = DOMAIN rows \union {id}
  <2>1. rows' = Append(rows, [msg |-> t.msg, conv |-> c])
    BY DEF Commit
  <2>2. c \in Nat
    BY <1>1 DEF Transaction, TypeInv, TypeOK
  <2> QED
    BY <1>1, <2>1, <2>2 DEF TypeInv, TypeOK
<1>4. outbox' \subseteq DOMAIN rows' /\ refused' \subseteq DOMAIN rows'
  BY <1>3 DEF Commit, CreateEvent, TypeInv, TypeOK
<1>5. /\ sent' \in [DOMAIN rows' -> Nat]
      /\ heard' \in [DOMAIN rows' -> Nat]
      /\ interrupted' \in [DOMAIN rows' -> Nat]
  BY <1>3, ExtendedToType DEF Commit, TypeInv, TypeOK
<1>6. /\ AfterCommit(p) \in Transaction
      /\ AfterCommit(p).pc = "committed" /\ AfterCommit(p).msg = t.msg
  BY <1>1 DEF AfterCommit, IdleTx, Transaction, NewConversation, Status, Active
<1>7. /\ tx' \in [Procs -> Transaction]
      /\ tx'[p] = AfterCommit(p) /\ \A q \in Procs \ {p} : tx'[q] = tx[q]
  BY <1>6 DEF Commit, TypeInv, TypeOK
<1>8. BusyHasMessage' /\ ConvExists'
  BY <1>1, <1>2, <1>6, <1>7 DEF TypeInv, BusyHasMessage, ConvExists
<1> QED
  BY <1>2, <1>3, <1>4, <1>5, <1>7, <1>8 DEF TypeInv, TypeOK, BatchExists, Commit, jobVars

\* A change of one conversation's status keeps the types.
LEMMA TypeEdit ==
    ASSUME TypeInv, NEW c \in DOMAIN convs,
           (\E s \in Status : SetStatus(c, s)) \/ DeleteConversation(c)
    PROVE  TypeInv'
<1> USE ConstantsAssumption
<1>1. convs[c] \in Conversation
  BY DEF TypeInv, TypeOK
<1>2. PICK r \in Conversation : convs' = [convs EXCEPT ![c] = r]
  <2>1. ASSUME NEW s \in Status, SetStatus(c, s)
        PROVE  \E r \in Conversation : convs' = [convs EXCEPT ![c] = r]
    <3> DEFINE b == \/ convs[c].restored
                    \/ convs[c].status = "spam"
                    \/ s \in Active /\ convs[c].status \notin Active
               r == [convs[c] EXCEPT !.status = s, !.restored = b]
    <3>1. b \in BOOLEAN
      BY <1>1 DEF Conversation
    <3>2. r \in Conversation
      <4> HIDE DEF b
      <4> QED
        BY <1>1, <3>1 DEF Conversation
    <3>3. convs' = [convs EXCEPT ![c] = r]
      BY <2>1 DEF SetStatus
    <3> QED
      BY <3>2, <3>3
  <2>2. ASSUME DeleteConversation(c)
        PROVE  \E r \in Conversation : convs' = [convs EXCEPT ![c] = r]
    <3>1. [convs[c] EXCEPT !.status = "deleted"] \in Conversation
      BY <1>1 DEF Conversation
    <3>2. convs' = [convs EXCEPT ![c] = [convs[c] EXCEPT !.status = "deleted"]]
      BY <2>2 DEF DeleteConversation
    <3> QED
      BY <3>1, <3>2
  <2> QED
    BY <2>1, <2>2
<1>3. convs' \in Seq(Conversation) /\ DOMAIN convs' = DOMAIN convs
  BY <1>2 DEF TypeInv, TypeOK
<1>4. /\ faults.edits < MaxEdits
      /\ faults' = [faults EXCEPT !.edits = @ + 1]
      /\ UNCHANGED <<jobVars, tx, relay, listener, setting, rows, outbox, history>>
  BY DEF SetStatus, DeleteConversation
<1>5. faults' \in Faults
  <2>1. faults \in Faults
    BY DEF TypeInv, TypeOK
  <2> QED
    BY <1>4, <2>1 DEF Faults
<1> QED
  BY <1>3, <1>4, <1>5
     DEF TypeInv, TypeOK, BusyHasMessage, ConvExists, BatchExists, jobVars, history

\* A change of the visibility mode keeps the types.
LEMMA TypeSetting ==
    ASSUME TypeInv, NEW mode \in HistoryModes, ChangeSetting(mode)
    PROVE  TypeInv'
<1> USE ConstantsAssumption
<1>1. faults' \in Faults
  <2>1. faults \in Faults
    BY DEF TypeInv, TypeOK
  <2> QED
    BY <2>1 DEF ChangeSetting, Faults
<1>2. setting' \in Setting
  BY DEF ChangeSetting, Setting
<1> QED
  BY <1>1, <1>2 DEF TypeInv, TypeOK, BusyHasMessage, ConvExists, BatchExists,
                    ChangeSetting, jobVars, dbVars, history

\* The relay, its failures and the start of its listener keep the types.
LEMMA TypeRelay ==
    ASSUME TypeInv, NEW p \in Procs,
           \/ StartListener(p) \/ FetchEvents(p) \/ Publish(p) \/ DeleteEvents(p)
    PROVE  TypeInv'
<1> USE ConstantsAssumption
<1>1. CASE StartListener(p)
  <2>1. listener' \in [Procs -> {"starting", "listening", "deaf"}]
    BY <1>1 DEF TypeInv, TypeOK, StartListener
  <2>2. faults' \in Faults
    <3>1. CASE faults' = faults
      BY <3>1 DEF TypeInv, TypeOK
    <3>2. CASE /\ faults.listenFailures < MaxListenFailures
               /\ faults' = [faults EXCEPT !.listenFailures = @ + 1]
      <4>1. faults \in Faults
        BY DEF TypeInv, TypeOK
      <4> QED
        BY <3>2, <4>1 DEF Faults
    <3> QED
      BY <1>1, <3>1, <3>2 DEF StartListener
  <2> QED
    BY <1>1, <2>1, <2>2 DEF TypeInv, TypeOK, BusyHasMessage, ConvExists, BatchExists,
                            StartListener, jobVars, dbVars, history
<1>2. CASE FetchEvents(p)
  <2>1. PICK batch \in Batches(Unlocked) :
            relay' = [relay EXCEPT ![p] = [pc |-> "locked", batch |-> batch]]
    BY <1>2 DEF FetchEvents
  <2>2. batch \subseteq DOMAIN rows /\ [pc |-> "locked", batch |-> batch] \in Relay
    <3>1. Unlocked \subseteq DOMAIN rows /\ DOMAIN rows \subseteq Nat
      BY DEF TypeInv, TypeOK, Unlocked
    <3>2. batch \subseteq DOMAIN rows /\ batch \subseteq Nat
      BY <3>1, BatchesType
    <3> QED
      BY <3>2 DEF Relay
  <2>3. relay' \in [Procs -> Relay] /\ BatchExists'
    BY <1>2, <2>1, <2>2 DEF TypeInv, TypeOK, FetchEvents, BatchExists, dbVars
  <2> QED
    BY <1>2, <2>3 DEF TypeInv, TypeOK, BusyHasMessage, ConvExists,
                      FetchEvents, jobVars, dbVars, history
<1>3. CASE Publish(p)
  <2>1. PICK accepted \in SUBSET relay[p].batch, subscribed \in BOOLEAN :
          /\ faults' = [faults EXCEPT
                !.redisErrors = IF accepted = relay[p].batch THEN @ ELSE @ + 1,
                !.apiOutages = IF subscribed THEN @ ELSE @ + 1]
          /\ faults'.redisErrors <= MaxRedisErrors
          /\ faults'.apiOutages <= MaxApiOutages
          /\ sent' = CountFor(sent, accepted)
          /\ heard' = IF subscribed THEN CountFor(heard, accepted) ELSE heard
          /\ refused' = refused \union (relay[p].batch \ accepted)
    BY <1>3 DEF Publish
  <2>2. faults' \in Faults
    <3> DEFINE redisErrors == IF accepted = relay[p].batch THEN faults.redisErrors
                              ELSE faults.redisErrors + 1
               apiOutages  == IF subscribed THEN faults.apiOutages
                              ELSE faults.apiOutages + 1
    <3>1. faults \in Faults
      BY DEF TypeInv, TypeOK
    <3>2. faults' = [faults EXCEPT !.redisErrors = redisErrors, !.apiOutages = apiOutages]
      BY <2>1
    <3>3. redisErrors \in Nat /\ apiOutages \in Nat
      BY <3>1 DEF Faults
    <3> HIDE DEF redisErrors, apiOutages
    <3>4. faults'.redisErrors = redisErrors /\ faults'.apiOutages = apiOutages
      BY <3>1, <3>2 DEF Faults
    <3>5. redisErrors \in 0..MaxRedisErrors /\ apiOutages \in 0..MaxApiOutages
      BY <2>1, <3>3, <3>4
    <3> QED
      BY <3>1, <3>2, <3>5 DEF Faults
  <2>3. sent' \in [DOMAIN rows -> Nat] /\ heard' \in [DOMAIN rows -> Nat]
    BY <2>1, CountForType DEF TypeInv, TypeOK
  <2>4. refused' \subseteq DOMAIN rows
    BY <2>1 DEF TypeInv, TypeOK, BatchExists
  <2>5. relay' \in [Procs -> Relay] /\ BatchExists'
    BY <1>3 DEF TypeInv, TypeOK, Publish, BatchExists, Relay, dbVars
  <2> QED
    BY <1>3, <2>2, <2>3, <2>4, <2>5
       DEF TypeInv, TypeOK, BusyHasMessage, ConvExists, Publish, jobVars, dbVars
<1>4. CASE DeleteEvents(p)
  <2>1. relay' \in [Procs -> Relay] /\ BatchExists'
    BY <1>4 DEF TypeInv, TypeOK, DeleteEvents, BatchExists, Relay, IdleRelay
  <2> QED
    BY <1>4, <2>1
       DEF TypeInv, TypeOK, BusyHasMessage, ConvExists, DeleteEvents, jobVars, history
<1> QED
  BY <1>1, <1>2, <1>3, <1>4

\* A relay pass that fails, and a process that goes down, keep the types.
LEMMA TypeFailure ==
    ASSUME TypeInv, NEW p \in Procs, RelayError(p) \/ Crash(p)
    PROVE  TypeInv'
<1> USE ConstantsAssumption
<1>1. /\ interrupted' = CountFor(interrupted, GivenBack(p))
      /\ relay' = [relay EXCEPT ![p] = IdleRelay]
      /\ UNCHANGED <<job, stalls, setting, convs, rows, outbox, sent, heard, refused>>
  BY DEF RelayError, Crash, RelayAfterError, jobVars, dbVars
<1>2. interrupted' \in [DOMAIN rows -> Nat]
  BY <1>1, CountForType DEF TypeInv, TypeOK
<1>3. IdleRelay \in Relay /\ IdleRelay.batch = {}
  BY DEF IdleRelay, Relay
<1>4. relay' \in [Procs -> Relay] /\ BatchExists'
  BY <1>1, <1>3 DEF TypeInv, TypeOK, BatchExists
<1>5. CASE RelayError(p)
  <2>1. faults' \in Faults
    <3>1. faults \in Faults
      BY DEF TypeInv, TypeOK
    <3> QED
      BY <1>5, <3>1 DEF Faults, RelayError
  <2> QED
    BY <1>1, <1>2, <1>4, <1>5, <2>1
       DEF TypeInv, TypeOK, BusyHasMessage, ConvExists, RelayError
<1>6. CASE Crash(p)
  <2>1. faults' \in Faults
    <3>1. faults \in Faults
      BY DEF TypeInv, TypeOK
    <3> QED
      BY <1>6, <3>1 DEF Faults, Crash
  <2>2. IdleTx \in Transaction /\ IdleTx.pc = "idle"
    BY DEF IdleTx, Transaction, NewConversation, Status, Active
  <2>3. /\ tx' \in [Procs -> Transaction]
        /\ listener' \in [Procs -> {"starting", "listening", "deaf"}]
    BY <1>6, <2>2 DEF TypeInv, TypeOK, Crash
  <2>4. BusyHasMessage' /\ ConvExists'
    BY <1>1, <1>6, <2>2 DEF TypeInv, TypeOK, BusyHasMessage, ConvExists, Crash
  <2> QED
    BY <1>1, <1>2, <1>4, <2>1, <2>3, <2>4 DEF TypeInv, TypeOK
<1> QED
  BY <1>5, <1>6

\* Every step keeps the types.
LEMMA TypeStep == TypeInv /\ [Next]_vars => TypeInv'
<1> SUFFICES ASSUME TypeInv, [Next]_vars PROVE TypeInv'
  OBVIOUS
<1>1. CASE UNCHANGED vars
  BY <1>1 DEF vars, jobVars, dbVars, history, TypeInv, TypeOK, BusyHasMessage,
              ConvExists, BatchExists
<1>2. CASE Next
  BY <1>2, TypeJobs, TypeFind, TypeSaveInsert, TypeJobEnds, TypeCommit, TypeEdit, TypeSetting,
     TypeRelay, TypeFailure
     DEF Next, JobStep, RelayStep, ApiEdit
<1> QED
  BY <1>1, <1>2

\* The types of every state, with what they rest on.
LEMMA TypeInvariance == Spec => []TypeInv
BY TypeInit, TypeStep, PTL DEF Spec

\* In every reachable state the jobs, transactions, rows, relay passes and
\* counters are what the declarations say, for any number of processes.
THEOREM TypeCorrect == Spec => []TypeOK
<1>1. TypeInv => TypeOK
  BY DEF TypeInv
<1> QED
  BY <1>1, TypeInvariance, PTL

-----------------------------------------------------------------------------
(* One active conversation per visitor *)

\* A transaction between its search for the conversation and its commit.
Writing(p) == tx[p].pc \in {"found", "inserted"}

\* A conversation of v whose status only messages and closing changed.
Ordinary(c, v) == convs[c].visitor = v /\ ~convs[c].restored

\* The lock on the visitor's row admits one such transaction per visitor.
RowLockInv ==
    \A p, q \in Procs : p # q /\ Writing(p) /\ Writing(q)
                            => VisitorOf[tx[p].msg] # VisitorOf[tx[q].msg]

\* A visitor's messages have one conversation to go to.
OneThreadInv ==
    \A v \in Visitors : \A c, d \in DOMAIN convs :
        /\ Ordinary(c, v) /\ TakesMessages(c)
        /\ Ordinary(d, v) /\ TakesMessages(d)
        => c = d

\* The conversation found for v may be made active whatever its status was: no
\* other takes messages.
MayOpen(v, conv) ==
    conv = NewConversation \/ Ordinary(conv, v) =>
        \A d \in DOMAIN convs : Ordinary(d, v) /\ TakesMessages(d) => d = conv

TargetInv == \A p \in Procs : Writing(p) =>
    LET v == VisitorOf[tx[p].msg]
    IN  /\ tx[p].conv # NewConversation => convs[tx[p].conv].visitor = v
        /\ MayOpen(v, tx[p].conv)

ThreadInv ==
    /\ RowLockInv
    /\ ~setting.changed => OneThreadInv /\ TargetInv

\* Whatever the mode, an active conversation takes messages.
LEMMA ThreadGivesOne == TypeInv /\ ThreadInv => OneActiveConversation
<1> SUFFICES ASSUME TypeInv, ThreadInv, ~setting.changed,
                    NEW c \in DOMAIN convs, NEW d \in DOMAIN convs,
                    convs[c].visitor = convs[d].visitor,
                    ~convs[c].restored, ~convs[d].restored,
                    convs[c].status \in Active, convs[d].status \in Active
             PROVE  c = d
  BY DEF OneActiveConversation
<1>1. convs[c].visitor \in Visitors
  <2>1. convs[c] \in Conversation
    BY DEF TypeInv, TypeOK
  <2> QED
    BY <2>1 DEF Conversation
<1>2. TakesMessages(c) /\ TakesMessages(d)
  BY DEF TakesMessages, Active
<1> QED
  BY <1>1, <1>2 DEF ThreadInv, OneThreadInv, Ordinary

\* Steps that leave the conversations alone and open no new transaction.
LEMMA ThreadFrame ==
    ASSUME ThreadInv, UNCHANGED <<convs, setting>>,
           \A q \in Procs : Writing(q)' => /\ Writing(q)
                                           /\ tx'[q].msg = tx[q].msg
                                           /\ tx'[q].conv = tx[q].conv
    PROVE  ThreadInv'
<1>1. RowLockInv'
  BY DEF ThreadInv, RowLockInv
<1>2. OneThreadInv => OneThreadInv'
  BY DEF OneThreadInv, Ordinary, TakesMessages
<1>3. TargetInv => TargetInv'
  <2>1. \A v, d : MayOpen(v, d) => MayOpen(v, d)'
    BY DEF MayOpen, Ordinary, TakesMessages
  <2> QED
    BY <2>1 DEF TargetInv
<1> QED
  BY <1>1, <1>2, <1>3 DEF ThreadInv

\* Finding the conversation: the row lock is free, and the find is up to date.
LEMMA ThreadFind ==
    ASSUME TypeInv, ThreadInv, NEW p \in Procs, FindConversation(p)
    PROVE  ThreadInv'
<1> DEFINE v == VisitorOf[tx[p].msg]
<1>1. PICK c \in Newest(Eligible(v)) :
          tx' = [tx EXCEPT ![p] = [@ EXCEPT !.pc = "found", !.conv = c,
                                           !.status = StatusSeen(c)]]
  BY DEF FindConversation
<1>2. v \in Visitors
  BY ConstantsAssumption DEF TypeInv, BusyHasMessage, FindConversation
<1>3. /\ tx'[p].msg = tx[p].msg /\ tx'[p].conv = c
      /\ \A q \in Procs \ {p} : tx'[q] = tx[q]
  BY <1>1 DEF TypeInv, TypeOK, Transaction
<1>4. UNCHANGED <<convs, setting>>
  BY DEF FindConversation, dbVars
<1>5. \A q \in Procs \ {p} : Writing(q) => VisitorOf[tx[q].msg] # v
  BY DEF FindConversation, VisitorRowFree, Writing
<1>6. RowLockInv'
  BY <1>3, <1>5 DEF ThreadInv, RowLockInv, Writing
<1>7. OneThreadInv => OneThreadInv'
  BY <1>4 DEF OneThreadInv, Ordinary, TakesMessages
<1>8. OneThreadInv /\ TargetInv => TargetInv'
  <2> SUFFICES ASSUME OneThreadInv, TargetInv PROVE TargetInv'
    OBVIOUS
  <2>1. \A w, d : MayOpen(w, d) => MayOpen(w, d)'
    BY <1>4 DEF MayOpen, Ordinary, TakesMessages
  <2>2. c # NewConversation => c \in DOMAIN convs /\ convs[c].visitor = v /\ TakesMessages(c)
    BY DEF Newest, Eligible
  <2>3. c = NewConversation => Eligible(v) = {}
    <3>1. NewConversation \notin DOMAIN convs
      BY DEF NewConversation, TypeInv, TypeOK
    <3> QED
      BY <3>1 DEF Newest, Eligible
  <2>4. MayOpen(v, c)
    BY <1>2, <2>2, <2>3 DEF MayOpen, OneThreadInv, Ordinary, Eligible
  <2> QED
    BY <1>3, <1>4, <2>1, <2>2, <2>4 DEF TargetInv, Writing
<1> QED
  BY <1>4, <1>6, <1>7, <1>8 DEF ThreadInv

\* The commit makes the conversation active, or leaves it spam.
LEMMA ThreadCommit ==
    ASSUME TypeInv, ThreadInv, NEW p \in Procs, Commit(p)
    PROVE  ThreadInv'
<1>1. PICK v, n : /\ v = VisitorOf[tx[p].msg]
                  /\ n = IF tx[p].conv = NewConversation THEN Len(convs) + 1 ELSE tx[p].conv
  OBVIOUS
<1>2. Writing(p) /\ setting' = setting
  BY DEF Commit, Writing
<1>3. \A q \in Procs : Writing(q)' => Writing(q) /\ q # p /\ tx'[q] = tx[q]
  BY DEF Commit, AfterCommit, IdleTx, Writing, TypeInv, TypeOK
<1>4. \A q \in Procs : Writing(q)' => VisitorOf[tx[q].msg] # v
  BY <1>1, <1>2, <1>3 DEF ThreadInv, RowLockInv
<1>5. RowLockInv'
  BY <1>3 DEF ThreadInv, RowLockInv
<1>6. /\ DOMAIN convs' = DOMAIN convs \union {n} /\ n # NewConversation
      /\ \A d \in DOMAIN convs \ {n} : convs'[d] = convs[d]
  <2>1. CASE tx[p].conv = NewConversation
    <3>1. convs' = Append(convs, [visitor |-> v, status |-> "open", restored |-> FALSE])
      BY <1>1, <2>1 DEF Commit
    <3> QED
      BY <1>1, <2>1, <3>1 DEF TypeInv, TypeOK, NewConversation
  <2>2. CASE tx[p].conv # NewConversation
    <3>1. n = tx[p].conv /\ n \in DOMAIN convs
      BY <1>1, <1>2, <2>2 DEF TypeInv, ConvExists, Writing
    <3>2. convs' = [convs EXCEPT ![n] = [convs[n] EXCEPT !.status = Reopened(tx[p].status)]]
      BY <2>2, <3>1 DEF Commit
    <3> QED
      BY <2>2, <3>1, <3>2 DEF TypeInv, TypeOK
  <2> QED
    BY <2>1, <2>2
<1>7. ASSUME TargetInv
      PROVE  /\ convs'[n].visitor = v
             /\ n \in DOMAIN convs => convs[n].visitor = v
             /\ \A d \in DOMAIN convs \ {n} :
                    ~(~convs'[n].restored /\ Ordinary(d, v) /\ TakesMessages(d))
  <2>1. /\ tx[p].conv # NewConversation => convs[tx[p].conv].visitor = v
        /\ MayOpen(v, tx[p].conv)
    BY <1>1, <1>2, <1>7 DEF TargetInv
  <2>2. CASE tx[p].conv = NewConversation
    <3>1. convs' = Append(convs, [visitor |-> v, status |-> "open", restored |-> FALSE])
      BY <1>1, <2>2 DEF Commit
    <3>2. n \notin DOMAIN convs /\ convs'[n].visitor = v
      BY <1>1, <2>2, <3>1 DEF TypeInv, TypeOK
    <3>3. \A d \in DOMAIN convs : d # NewConversation
      BY DEF TypeInv, TypeOK, NewConversation
    <3> QED
      BY <2>1, <2>2, <3>2, <3>3 DEF MayOpen
  <2>3. CASE tx[p].conv # NewConversation
    <3>1. n = tx[p].conv /\ n \in DOMAIN convs /\ convs[n].visitor = v
      BY <1>1, <1>2, <2>1, <2>3 DEF TypeInv, ConvExists, Writing
    <3>2. convs' = [convs EXCEPT ![n] = [convs[n] EXCEPT !.status = Reopened(tx[p].status)]]
      BY <2>3, <3>1 DEF Commit
    <3>3. convs'[n] = [convs[n] EXCEPT !.status = Reopened(tx[p].status)]
      BY <3>1, <3>2 DEF TypeInv, TypeOK
    <3>4. convs[n] \in Conversation
      BY <3>1 DEF TypeInv, TypeOK
    <3>5. convs'[n].visitor = v /\ convs'[n].restored = convs[n].restored
      BY <3>1, <3>3, <3>4 DEF Conversation
    <3> QED
      BY <2>1, <3>1, <3>5 DEF MayOpen, Ordinary
  <2> QED
    BY <2>2, <2>3
<1>8. \A e \in DOMAIN convs \ {n} : /\ TakesMessages(e)' <=> TakesMessages(e)
                                    /\ \A w : Ordinary(e, w)' <=> Ordinary(e, w)
  BY <1>2, <1>6 DEF Ordinary, TakesMessages
<1>9. OneThreadInv /\ TargetInv => OneThreadInv'
  <2> SUFFICES ASSUME OneThreadInv, TargetInv,
                      NEW w \in Visitors, NEW c \in DOMAIN convs', NEW d \in DOMAIN convs',
                      Ordinary(c, w)', TakesMessages(c)', Ordinary(d, w)', TakesMessages(d)'
               PROVE  c = d
    BY DEF OneThreadInv
  <2>1. ASSUME NEW e \in DOMAIN convs', e # n, Ordinary(e, w)', TakesMessages(e)',
               Ordinary(n, w)'
        PROVE  FALSE
    <3>1. w = v /\ ~convs'[n].restored
      BY <1>7, <2>1 DEF Ordinary
    <3>2. e \in DOMAIN convs \ {n} /\ Ordinary(e, w) /\ TakesMessages(e)
      BY <1>6, <1>8, <2>1
    <3> QED
      BY <1>7, <3>1, <3>2
  <2>2. CASE c # n /\ d # n
    <3>1. c \in DOMAIN convs \ {n} /\ d \in DOMAIN convs \ {n}
      BY <1>6, <2>2
    <3> QED
      BY <1>8, <3>1 DEF OneThreadInv
  <2> QED
    BY <2>1, <2>2
<1>10. TargetInv => TargetInv'
  <2> SUFFICES ASSUME TargetInv, NEW q \in Procs, Writing(q)'
               PROVE  (LET w == VisitorOf[tx[q].msg]
                       IN  /\ tx[q].conv # NewConversation => convs[tx[q].conv].visitor = w
                           /\ MayOpen(w, tx[q].conv))'
    BY DEF TargetInv
  <2>1. PICK w, conv : w = VisitorOf[tx[q].msg] /\ conv = tx[q].conv
    OBVIOUS
  <2>2. Writing(q) /\ tx'[q] = tx[q] /\ w # v
    BY <1>3, <1>4, <2>1
  <2>3. /\ conv # NewConversation => conv \in DOMAIN convs /\ convs[conv].visitor = w
        /\ MayOpen(w, conv)
    BY <2>1, <2>2 DEF TargetInv, TypeInv, ConvExists, Writing
  <2>4. conv # n
    BY <1>6, <1>7, <2>2, <2>3
  <2>5. conv # NewConversation => conv \in DOMAIN convs \ {n} /\ convs'[conv].visitor = w
    BY <1>6, <2>3, <2>4
  <2>6. ~Ordinary(n, w)'
    BY <1>7, <2>2 DEF Ordinary
  <2>7. MayOpen(w, conv)'
    <3> SUFFICES ASSUME conv = NewConversation \/ Ordinary(conv, w)',
                        NEW d \in DOMAIN convs', Ordinary(d, w)', TakesMessages(d)'
                 PROVE  d = conv
      BY DEF MayOpen
    <3>1. conv = NewConversation \/ Ordinary(conv, w)
      BY <1>8, <2>5
    <3>2. d \in DOMAIN convs \ {n} /\ Ordinary(d, w) /\ TakesMessages(d)
      BY <1>6, <1>8, <2>6
    <3> QED
      BY <2>3, <3>1, <3>2 DEF MayOpen
  <2>8. tx'[q].conv = conv /\ VisitorOf[tx'[q].msg] = w
    BY <2>1, <2>2
  <2> QED
    BY <2>5, <2>7, <2>8 DEF MayOpen
<1> QED
  BY <1>2, <1>5, <1>9, <1>10 DEF ThreadInv

\* An edit that makes a conversation active, or takes it out of spam, puts it
\* outside the claim; every other edit only closes.
LEMMA ThreadEdit ==
    ASSUME TypeInv, ThreadInv, NEW n \in DOMAIN convs,
           (\E s \in Status : SetStatus(n, s)) \/ DeleteConversation(n)
    PROVE  ThreadInv'
<1>1. UNCHANGED <<tx, setting>>
  BY DEF SetStatus, DeleteConversation
<1>2. /\ DOMAIN convs' = DOMAIN convs
      /\ \A d \in DOMAIN convs : d # n => convs'[d] = convs[d]
      /\ convs'[n].visitor = convs[n].visitor
      /\ ~convs'[n].restored => /\ ~convs[n].restored
                                /\ TakesMessages(n)' => TakesMessages(n)
  <2>1. convs[n] \in Conversation
    BY DEF TypeInv, TypeOK
  <2>2. CASE \E s \in Status : SetStatus(n, s)
    <3>1. PICK s \in Status : SetStatus(n, s)
      BY <2>2
    <3>2. /\ DOMAIN convs' = DOMAIN convs
          /\ \A d \in DOMAIN convs : d # n => convs'[d] = convs[d]
          /\ convs'[n].visitor = convs[n].visitor
          /\ convs'[n].status = s
          /\ convs[n].status # "deleted"
      BY <2>1, <3>1 DEF SetStatus, TypeInv, TypeOK, Conversation
    <3>3. ~convs'[n].restored =>
             /\ ~convs[n].restored
             /\ convs[n].status # "spam"
             /\ ~(s \in Active /\ convs[n].status \notin Active)
      BY <2>1, <3>1 DEF SetStatus, TypeInv, TypeOK, Conversation
    <3> QED
      BY <1>1, <3>2, <3>3 DEF TakesMessages
  <2>3. CASE DeleteConversation(n)
    <3>1. convs' = [convs EXCEPT ![n] = [convs[n] EXCEPT !.status = "deleted"]]
      BY <2>3 DEF DeleteConversation
    <3>2. /\ DOMAIN convs' = DOMAIN convs
          /\ \A d \in DOMAIN convs : d # n => convs'[d] = convs[d]
          /\ convs'[n] = [convs[n] EXCEPT !.status = "deleted"]
      BY <3>1 DEF TypeInv, TypeOK
    <3>3. /\ convs'[n].visitor = convs[n].visitor
          /\ convs'[n].restored = convs[n].restored
          /\ convs'[n].status = "deleted"
      BY <2>1, <3>2 DEF Conversation
    <3> QED
      BY <3>2, <3>3 DEF TakesMessages, Active
  <2> QED
    BY <2>2, <2>3
<1>3. RowLockInv'
  BY <1>1 DEF ThreadInv, RowLockInv, Writing
<1>4. \A d \in DOMAIN convs : \A v : Ordinary(d, v)' =>
          /\ Ordinary(d, v)
          /\ TakesMessages(d)' => TakesMessages(d)
  BY <1>1, <1>2 DEF Ordinary, TakesMessages
<1>5. OneThreadInv => OneThreadInv'
  BY <1>2, <1>4 DEF OneThreadInv
<1>6. \A v, conv : /\ conv = NewConversation \/ conv \in DOMAIN convs
                   /\ MayOpen(v, conv)
                   => MayOpen(v, conv)'
  BY <1>2, <1>4 DEF MayOpen
<1>7. TargetInv => TargetInv'
  BY <1>1, <1>2, <1>6 DEF TargetInv, TypeInv, ConvExists, Writing
<1> QED
  BY <1>1, <1>3, <1>5, <1>7 DEF ThreadInv

\* No other step touches a conversation or starts to write.
LEMMA ThreadOther ==
    ASSUME TypeInv, ThreadInv,
           \/ UNCHANGED vars
           \/ \E mode \in HistoryModes : ChangeSetting(mode)
           \/ \E m \in Messages : \/ Enqueue(m) \/ StalledJob(m)
                                  \/ \E p \in Procs : TakeJob(p, m)
           \/ \E p \in Procs :
                  \/ SaveMetadata(p) \/ InsertMessage(p) \/ ForeignKeyError(p) \/ CompleteJob(p)
                  \/ RelayStep(p) \/ StartListener(p)
                  \/ FailJob(p) \/ RelayError(p) \/ Crash(p)
    PROVE  ThreadInv'
<1>1. IdleTx.pc = "idle"
  BY DEF IdleTx
<1>2. CASE UNCHANGED <<tx, convs, setting>>
  BY <1>2, ThreadFrame DEF Writing
<1>3. ASSUME NEW p \in Procs, NEW t, tx' = [tx EXCEPT ![p] = t],
             t.pc \notin {"found", "inserted"}, UNCHANGED <<convs, setting>>
      PROVE  ThreadInv'
  <2>1. \A q \in Procs : Writing(q)' => Writing(q) /\ tx'[q] = tx[q]
    BY <1>3 DEF Writing, TypeInv, TypeOK
  <2> QED
    BY <1>3, <2>1, ThreadFrame
<1>4. ASSUME NEW p \in Procs, NEW m \in Messages, TakeJob(p, m) PROVE ThreadInv'
  <2> DEFINE t == [IdleTx EXCEPT !.pc = "taken", !.msg = m]
  <2>1. t.pc = "taken"
    BY DEF IdleTx
  <2>2. tx' = [tx EXCEPT ![p] = t] /\ UNCHANGED <<convs, setting>>
    BY <1>4 DEF TakeJob, dbVars
  <2> QED
    BY <1>3, <2>1, <2>2
<1>5. ASSUME NEW p \in Procs,
             ForeignKeyError(p) \/ CompleteJob(p) \/ FailJob(p) \/ Crash(p)
      PROVE  ThreadInv'
  <2>1. tx' = [tx EXCEPT ![p] = IdleTx] /\ UNCHANGED <<convs, setting>>
    BY <1>5 DEF ForeignKeyError, CompleteJob, FailJob, Crash, RollBackJob,
                TxAfterError, dbVars
  <2> QED
    BY <1>1, <1>3, <2>1
<1>6. ASSUME NEW p \in Procs, SaveMetadata(p) \/ InsertMessage(p) PROVE ThreadInv'
  <2>1. Writing(p) /\ UNCHANGED <<convs, setting>>
    BY <1>6 DEF SaveMetadata, InsertMessage, Writing, dbVars
  <2>2. /\ tx'[p].msg = tx[p].msg /\ tx'[p].conv = tx[p].conv
        /\ \A q \in Procs \ {p} : tx'[q] = tx[q]
    BY <1>6 DEF SaveMetadata, InsertMessage, TypeInv, TypeOK, Transaction
  <2>3. \A q \in Procs : Writing(q)' => /\ Writing(q)
                                        /\ tx'[q].msg = tx[q].msg
                                        /\ tx'[q].conv = tx[q].conv
    BY <2>1, <2>2 DEF Writing
  <2> QED
    BY <2>1, <2>3, ThreadFrame
<1>7. ASSUME \/ UNCHANGED vars
             \/ \E m \in Messages : Enqueue(m) \/ StalledJob(m)
             \/ \E p \in Procs : RelayStep(p) \/ StartListener(p) \/ RelayError(p)
      PROVE  ThreadInv'
  BY <1>2, <1>7 DEF vars, dbVars, Enqueue, StalledJob, RelayStep, FetchEvents, Publish,
                    DeleteEvents, StartListener, RelayError
<1>8. ASSUME NEW mode \in HistoryModes, ChangeSetting(mode) PROVE ThreadInv'
  BY <1>8 DEF ChangeSetting, ThreadInv, RowLockInv, Writing
<1> QED
  BY <1>4, <1>5, <1>6, <1>7, <1>8

\* Concurrent worker processes never give one visitor two active threads, for any
\* number of processes, visitors and messages and whatever fails or is edited.
THEOREM VisitorHasOneActiveConversation == Spec => []OneActiveConversation
<1>1. Init => ThreadInv
  <2> SUFFICES ASSUME Init PROVE ThreadInv
    OBVIOUS
  <2>1. \A p \in Procs : ~Writing(p)
    BY DEF Init, Writing, IdleTx
  <2> QED
    BY <2>1 DEF Init, ThreadInv, RowLockInv, OneThreadInv, TargetInv
<1>2. TypeInv /\ ThreadInv /\ [Next]_vars => ThreadInv'
  BY ThreadFind, ThreadCommit, ThreadEdit, ThreadOther DEF Next, JobStep, ApiEdit
<1> QED
  BY <1>1, <1>2, ThreadGivesOne, TypeInvariance, PTL DEF Spec

-----------------------------------------------------------------------------
(* What is stored of a message *)

\* The job of p is active, and no other process works on it.
OwnsJob(p) ==
    tx[p].pc # "idle" =>
        /\ job[tx[p].msg] = "active"
        /\ \A q \in Procs \ {p} : tx[q].pc # "idle" => tx[q].msg # tx[p].msg

\* The last try to store m, if there was one, was given up and counted as a stall.
StartsOver(m) ==
    \/ job[m] \in {"unsent", "waiting"}
    \/ \E p \in Procs : tx[p].msg = m /\ tx[p].pc \in {"taken", "found", "inserted"}

\* Every try but the present one was a stall.
CountsStalls(m) == Cardinality(Stored(m)) <= stalls[m] + (IF StartsOver(m) THEN 0 ELSE 1)

CommittedIsStored(p) == tx[p].pc = "committed" => Stored(tx[p].msg) # {}

StoredInv ==
    /\ \A p \in Procs : OwnsJob(p) /\ CommittedIsStored(p)
    /\ CompletedIsStored
    /\ \A m \in Messages : CountsStalls(m)

\* The rows of a message are finitely many, and stalls are counted in Nat.
LEMMA StoredCount ==
    ASSUME TypeOK, NEW m \in Messages
    PROVE  IsFiniteSet(Stored(m)) /\ Cardinality(Stored(m)) \in Nat /\ stalls[m] \in Nat
<1>1. Len(rows) \in Nat /\ DOMAIN rows = 1 .. Len(rows)
  BY DEF TypeOK
<1>2. IsFiniteSet(Stored(m))
  <2>1. IsFiniteSet(1 .. Len(rows)) /\ Stored(m) \in SUBSET (1 .. Len(rows))
    BY <1>1, FS_Interval DEF Stored
  <2> QED
    BY <2>1, FS_Subset
<1>3. stalls[m] \in Nat
  BY ConstantsAssumption DEF TypeOK, ConstantsAssumption
<1> QED
  BY <1>2, <1>3, FS_CardinalityType

\* The bound follows from what is counted.
LEMMA CountsGive == TypeInv /\ StoredInv => CompletedIsStored /\ DuplicateNeedsStall
<1> SUFFICES ASSUME TypeInv, StoredInv, NEW m \in Messages
             PROVE  Cardinality(Stored(m)) <= 1 + stalls[m]
  BY DEF StoredInv, DuplicateNeedsStall
<1>1. CountsStalls(m) /\ Cardinality(Stored(m)) \in Nat /\ stalls[m] \in Nat
  BY StoredCount DEF StoredInv, TypeInv
<1> QED
  BY <1>1 DEF CountsStalls

\* Nothing is stored, given back or completed; a job may be taken by the process that
\* now works on it, move on before its commit, fail, or lose its process.
LEMMA StoredFrame ==
    ASSUME TypeInv, StoredInv, UNCHANGED <<rows, stalls>>,
           \A p \in Procs : OwnsJob(p)',
           \A m \in Messages :
               /\ job'[m] = "done" => job[m] = "done"
               /\ StartsOver(m)' => StartsOver(m),
           \A p \in Procs : tx'[p].pc = "committed" => tx'[p] = tx[p]
    PROVE  StoredInv'
<1>1. \A m : Stored(m)' = Stored(m)
  BY DEF Stored
<1>2. CompletedIsStored' /\ \A p \in Procs : CommittedIsStored(p)'
  BY <1>1 DEF StoredInv, CompletedIsStored, CommittedIsStored
<1>3. ASSUME NEW m \in Messages PROVE CountsStalls(m)'
  <2>1. CountsStalls(m) /\ Cardinality(Stored(m)) \in Nat /\ stalls[m] \in Nat
    BY StoredCount DEF StoredInv, TypeInv
  <2>2. stalls'[m] = stalls[m] /\ Cardinality(Stored(m))' = Cardinality(Stored(m))
    BY <1>1
  <2> QED
    BY <2>1, <2>2 DEF CountsStalls
<1> QED
  BY <1>2, <1>3 DEF StoredInv

\* The steps of a transaction before its commit, its failure, and a crash.
LEMMA StoredWorking ==
    ASSUME TypeInv, StoredInv, NEW p \in Procs,
           \/ FindConversation(p) \/ SaveMetadata(p) \/ InsertMessage(p)
           \/ ForeignKeyError(p) \/ FailJob(p) \/ Crash(p)
    PROVE  StoredInv'
<1>1. UNCHANGED <<rows, stalls>> /\ \A q \in Procs \ {p} : tx'[q] = tx[q]
  BY DEF FindConversation, SaveMetadata, InsertMessage, ForeignKeyError, FailJob, Crash,
         RollBackJob, TypeInv, TypeOK, dbVars, jobVars
<1>2. \A q \in Procs : OwnsJob(q)
  BY DEF StoredInv
<1>3. CASE FindConversation(p) \/ SaveMetadata(p) \/ InsertMessage(p)
  <2>1. /\ UNCHANGED job
        /\ tx[p].pc \in {"taken", "found", "inserted"}
        /\ tx'[p].pc \in {"taken", "found", "inserted"}
        /\ tx'[p].msg = tx[p].msg
    BY <1>3 DEF FindConversation, SaveMetadata, InsertMessage, TypeInv, TypeOK,
                Transaction, jobVars
  <2>2. \A q \in Procs : OwnsJob(q)'
    BY <1>1, <1>2, <2>1 DEF OwnsJob
  <2>3. \A m \in Messages : StartsOver(m)' => StartsOver(m)
    BY <1>1, <2>1 DEF StartsOver
  <2> QED
    BY <1>1, <2>1, <2>2, <2>3, StoredFrame
<1>4. CASE ForeignKeyError(p) \/ FailJob(p) \/ Crash(p)
  <2>1. /\ tx'[p].pc = "idle"
        /\ job' = job \/ /\ tx[p].pc # "idle"
                         /\ tx[p].msg \in Messages
                         /\ job' = [job EXCEPT ![tx[p].msg] = "failed"]
    BY <1>4 DEF ForeignKeyError, FailJob, Crash, RollBackJob, TxAfterError, IdleTx,
                TypeInv, TypeOK, BusyHasMessage, jobVars
  <2>2. \A m \in Messages : job'[m] = job[m] \/ /\ tx[p].pc # "idle"
                                                /\ tx[p].msg = m
                                                /\ job'[m] = "failed"
    BY <2>1 DEF TypeInv, TypeOK
  <2>3. \A q \in Procs : OwnsJob(q)'
    BY <1>1, <1>2, <2>1, <2>2 DEF OwnsJob, TypeInv, BusyHasMessage
  <2>4. \A m \in Messages : /\ job'[m] = "done" => job[m] = "done"
                            /\ StartsOver(m)' => StartsOver(m)
    BY <1>1, <2>1, <2>2 DEF StartsOver
  <2> QED
    BY <1>1, <2>1, <2>3, <2>4, StoredFrame
<1> QED
  BY <1>3, <1>4

\* Enqueueing and taking a job.
LEMMA StoredStarts ==
    ASSUME TypeInv, StoredInv, NEW m \in Messages,
           Enqueue(m) \/ (\E p \in Procs : TakeJob(p, m))
    PROVE  StoredInv'
<1>1. UNCHANGED <<rows, stalls>> /\ \A n \in Messages \ {m} : job'[n] = job[n]
  BY DEF Enqueue, TakeJob, TypeInv, TypeOK, dbVars
<1>2. \A q \in Procs : OwnsJob(q)
  BY DEF StoredInv
<1>3. CASE Enqueue(m)
  <2>1. UNCHANGED tx /\ job[m] = "unsent" /\ job'[m] = "waiting"
    BY <1>3 DEF Enqueue, TypeInv, TypeOK
  <2>2. \A q \in Procs : OwnsJob(q)'
    BY <1>1, <1>2, <2>1 DEF OwnsJob, TypeInv, BusyHasMessage
  <2>3. \A n \in Messages : /\ job'[n] = "done" => job[n] = "done"
                            /\ StartsOver(n)' => StartsOver(n)
    BY <1>1, <2>1 DEF StartsOver
  <2> QED
    BY <1>1, <2>1, <2>2, <2>3, StoredFrame
<1>4. ASSUME NEW p \in Procs, TakeJob(p, m) PROVE StoredInv'
  <2>1. /\ job[m] = "waiting" /\ job'[m] = "active"
        /\ tx'[p].pc = "taken" /\ tx'[p].msg = m
        /\ \A q \in Procs \ {p} : tx'[q] = tx[q]
    BY <1>4 DEF TakeJob, IdleTx, TypeInv, TypeOK
  <2>2. \A q \in Procs \ {p} : tx[q].pc # "idle" => tx[q].msg # m
    BY <1>2, <2>1 DEF OwnsJob
  <2>3. \A q \in Procs : OwnsJob(q)'
    BY <1>1, <1>2, <2>1, <2>2 DEF OwnsJob, TypeInv, BusyHasMessage
  <2>4. \A n \in Messages : /\ job'[n] = "done" => job[n] = "done"
                            /\ StartsOver(n)' => StartsOver(n)
    BY <1>1, <2>1 DEF StartsOver
  <2> QED
    BY <1>1, <2>1, <2>3, <2>4, StoredFrame
<1> QED
  BY <1>3, <1>4

\* Giving back a job: the try it ends is counted.
LEMMA StoredStalls ==
    ASSUME TypeInv, StoredInv, NEW m \in Messages, StalledJob(m)
    PROVE  StoredInv'
<1>1. /\ UNCHANGED <<rows, tx>>
      /\ job[m] = "active" /\ job'[m] \in {"waiting", "failed"}
      /\ \A p \in Procs : tx[p].msg # m
      /\ \A n \in Messages \ {m} : job'[n] = job[n] /\ stalls'[n] = stalls[n]
      /\ IF job'[m] = "waiting" THEN stalls'[m] = stalls[m] + 1 ELSE stalls'[m] = stalls[m]
  BY DEF StalledJob, TypeInv, TypeOK, dbVars
<1>2. \A n : Stored(n)' = Stored(n)
  BY <1>1 DEF Stored
<1>3. ASSUME NEW p \in Procs PROVE OwnsJob(p)' /\ CommittedIsStored(p)'
  <2>1. OwnsJob(p) /\ CommittedIsStored(p)
    BY DEF StoredInv
  <2> QED
    BY <1>1, <1>2, <2>1 DEF OwnsJob, CommittedIsStored, TypeInv, BusyHasMessage
<1>4. CompletedIsStored'
  BY <1>1, <1>2 DEF StoredInv, CompletedIsStored
<1>5. ASSUME NEW n \in Messages PROVE CountsStalls(n)'
  <2>1. CountsStalls(n) /\ Cardinality(Stored(n)) \in Nat /\ stalls[n] \in Nat
    BY StoredCount DEF StoredInv, TypeInv
  <2>2. Cardinality(Stored(n))' = Cardinality(Stored(n))
    BY <1>2
  <2>3. CASE n = m
    <3>1. ~StartsOver(m)
      BY <1>1 DEF StartsOver
    <3>2. job'[m] = "failed" => ~StartsOver(m)'
      BY <1>1 DEF StartsOver
    <3> QED
      BY <1>1, <2>1, <2>2, <2>3, <3>1, <3>2 DEF CountsStalls
  <2>4. CASE n # m
    <3>1. StartsOver(n)' = StartsOver(n) /\ stalls'[n] = stalls[n]
      BY <1>1, <2>4 DEF StartsOver
    <3> QED
      BY <2>1, <2>2, <3>1 DEF CountsStalls
  <2> QED
    BY <2>3, <2>4
<1> QED
  BY <1>3, <1>4, <1>5 DEF StoredInv

\* A commit stores one more row of its message, which no try will start over.
LEMMA StoredCommit ==
    ASSUME TypeInv, StoredInv, NEW p \in Procs, Commit(p)
    PROVE  StoredInv'
<1>0. PICK m \in Messages, id \in Nat : m = tx[p].msg /\ id = Len(rows) + 1
  BY DEF Commit, TypeInv, TypeOK, BusyHasMessage
<1>1. /\ tx[p].pc = "inserted" /\ tx[p].msg = m
      /\ tx'[p].pc = "committed" /\ tx'[p].msg = m
      /\ \A q \in Procs \ {p} : tx'[q] = tx[q]
      /\ UNCHANGED <<job, stalls>>
  BY <1>0 DEF Commit, AfterCommit, IdleTx, TypeInv, TypeOK, jobVars
<1>2. /\ Stored(m)' = Stored(m) \union {id}
      /\ \A n : n # m => Stored(n)' = Stored(n)
  <2>1. PICK c : rows' = Append(rows, [msg |-> m, conv |-> c])
    BY <1>0 DEF Commit
  <2>2. /\ DOMAIN rows' = DOMAIN rows \union {id}
        /\ rows'[id].msg = m
        /\ \A r \in DOMAIN rows : r # id /\ rows'[r] = rows[r]
    BY <1>0, <2>1 DEF TypeInv, TypeOK
  <2>3. \A n : Stored(n)' = {r \in DOMAIN rows \union {id} : rows'[r].msg = n}
    BY <2>2 DEF Stored
  <2>4. \A n : Stored(n) = {r \in DOMAIN rows : rows'[r].msg = n}
    BY <2>2 DEF Stored
  <2> QED
    BY <2>2, <2>3, <2>4
<1>3. \A q \in Procs : OwnsJob(q) /\ CommittedIsStored(q)
  BY DEF StoredInv
<1>4. ASSUME NEW q \in Procs PROVE OwnsJob(q)' /\ CommittedIsStored(q)'
  BY <1>1, <1>2, <1>3 DEF OwnsJob, CommittedIsStored
<1>5. CompletedIsStored'
  <2>1. \A n : Stored(n) # {} => Stored(n)' # {}
    BY <1>2
  <2> QED
    BY <1>1, <2>1 DEF StoredInv, CompletedIsStored
<1>6. ASSUME NEW n \in Messages PROVE CountsStalls(n)'
  <2>1. CountsStalls(n) /\ Cardinality(Stored(n)) \in Nat /\ stalls[n] \in Nat
    BY StoredCount DEF StoredInv, TypeInv
  <2>2. CASE n = m
    <3>1. StartsOver(m)
      BY <1>1 DEF StartsOver
    <3>2. ~StartsOver(m)'
      BY <1>1, <1>3 DEF StartsOver, OwnsJob
    <3>3. IsFiniteSet(Stored(m)) /\ Cardinality(Stored(m)) \in Nat
      BY StoredCount DEF TypeInv
    <3>4. Cardinality(Stored(m) \union {id}) \in {Cardinality(Stored(m)), Cardinality(Stored(m)) + 1}
      BY <3>3, FS_AddElement
    <3>5. Cardinality(Stored(m))' \in {Cardinality(Stored(m)), Cardinality(Stored(m)) + 1}
      BY <1>2, <3>4
    <3>6. Cardinality(Stored(m)) <= stalls[m]
      BY <2>1, <2>2, <3>1, <3>3 DEF CountsStalls
    <3>7. Cardinality(Stored(m))' <= stalls'[m] + 1
      BY <1>1, <2>1, <2>2, <3>3, <3>5, <3>6
    <3> QED
      BY <2>2, <3>2, <3>7 DEF CountsStalls
  <2>3. CASE n # m
    <3>1. StartsOver(n)' = StartsOver(n) /\ stalls'[n] = stalls[n]
      BY <1>1, <2>3 DEF StartsOver
    <3>2. Cardinality(Stored(n))' = Cardinality(Stored(n))
      BY <1>2, <2>3
    <3> QED
      BY <2>1, <3>1, <3>2 DEF CountsStalls
  <2> QED
    BY <2>2, <2>3
<1> QED
  BY <1>4, <1>5, <1>6 DEF StoredInv

\* A job is completed after its commit.
LEMMA StoredComplete ==
    ASSUME TypeInv, StoredInv, NEW p \in Procs, CompleteJob(p)
    PROVE  StoredInv'
<1> DEFINE m == tx[p].msg
<1>1. /\ tx[p].pc = "committed" /\ m \in Messages
      /\ tx'[p].pc = "idle" /\ \A q \in Procs \ {p} : tx'[q] = tx[q]
      /\ job'[m] = "done" /\ \A n \in Messages \ {m} : job'[n] = job[n]
      /\ UNCHANGED <<rows, stalls>>
  BY DEF CompleteJob, ProcessReturned, IdleTx, TypeInv, TypeOK, BusyHasMessage, dbVars
<1>2. \A n : Stored(n)' = Stored(n)
  BY <1>1 DEF Stored
<1>3. \A q \in Procs : OwnsJob(q) /\ CommittedIsStored(q)
  BY DEF StoredInv
<1>4. ASSUME NEW q \in Procs PROVE OwnsJob(q)' /\ CommittedIsStored(q)'
  BY <1>1, <1>2, <1>3 DEF OwnsJob, CommittedIsStored, TypeInv, BusyHasMessage
<1>5. CompletedIsStored'
  BY <1>1, <1>2, <1>3 DEF StoredInv, CompletedIsStored, CommittedIsStored
<1>6. ASSUME NEW n \in Messages PROVE CountsStalls(n)'
  <2>1. CountsStalls(n) /\ Cardinality(Stored(n)) \in Nat /\ stalls[n] \in Nat
    BY StoredCount DEF StoredInv, TypeInv
  <2>2. Cardinality(Stored(n))' = Cardinality(Stored(n)) /\ stalls'[n] = stalls[n]
    BY <1>1, <1>2
  <2>3. StartsOver(n)' => StartsOver(n)
    BY <1>1 DEF StartsOver
  <2> QED
    BY <2>1, <2>2, <2>3 DEF CountsStalls
<1> QED
  BY <1>4, <1>5, <1>6 DEF StoredInv

\* Every other step leaves the jobs, the transactions and the rows alone.
LEMMA StoredOther ==
    ASSUME TypeInv, StoredInv,
           \/ \E p \in Procs : RelayStep(p) \/ StartListener(p) \/ RelayError(p)
           \/ ApiEdit
           \/ UNCHANGED vars
    PROVE  StoredInv'
<1>1. UNCHANGED <<job, tx, rows, stalls>>
  BY DEF RelayStep, FetchEvents, Publish, DeleteEvents, StartListener, RelayError, ApiEdit,
         SetStatus, DeleteConversation, ChangeSetting, vars, jobVars, dbVars
<1>2. \A p \in Procs : OwnsJob(p)'
  BY <1>1 DEF StoredInv, OwnsJob
<1>3. \A m \in Messages : StartsOver(m)' => StartsOver(m)
  BY <1>1 DEF StartsOver
<1> QED
  BY <1>1, <1>2, <1>3, StoredFrame

LEMMA StoredInit == Init => StoredInv
<1> SUFFICES ASSUME Init PROVE StoredInv
  OBVIOUS
<1>1. \A p \in Procs : OwnsJob(p) /\ CommittedIsStored(p)
  BY DEF Init, OwnsJob, CommittedIsStored, IdleTx
<1>2. CompletedIsStored
  BY DEF Init, CompletedIsStored
<1>3. ASSUME NEW m \in Messages PROVE CountsStalls(m)
  <2>1. Stored(m) = {} /\ stalls[m] = 0 /\ StartsOver(m)
    BY DEF Init, Stored, StartsOver
  <2> QED
    BY <2>1, FS_EmptySet DEF CountsStalls
<1> QED
  BY <1>1, <1>2, <1>3 DEF StoredInv

LEMMA StoredStep == TypeInv /\ StoredInv /\ [Next]_vars => StoredInv'
  BY StoredWorking, StoredStarts, StoredStalls, StoredCommit, StoredComplete, StoredOther
     DEF Next, JobStep

LEMMA StoredInvariance == Spec => []StoredInv
  BY StoredInit, StoredStep, TypeInvariance, PTL DEF Spec

\* A job that BullMQ was told is complete has its message in the database, whatever
\* crashes, rollbacks and give-backs came before.
THEOREM CompletedJobsAreStored == Spec => []CompletedIsStored
  BY CountsGive, TypeInvariance, StoredInvariance, PTL

\* A message is stored once, and once more for every time its job stalled: two
\* processes never store the same try of a message twice.
THEOREM StallsBoundDuplicates == Spec => []DuplicateNeedsStall
  BY CountsGive, TypeInvariance, StoredInvariance, PTL

-----------------------------------------------------------------------------
(* The invariant of the relay passes *)

\* A pass holds locks on rows of the outbox, and no two passes on the same row.
HoldInv ==
    /\ \A p \in Procs : relay[p].batch \subseteq outbox
    /\ \A p, q \in Procs : p # q => relay[p].batch \intersect relay[q].batch = {}

\* A row that some pass published and still holds.
InPublished(r) == \E p \in Procs : relay[p].pc = "published" /\ r \in relay[p].batch

Announced(r) == sent[r] > 0 \/ r \in refused

\* What a pass deletes was handed to Redis.
AnnouncedInv ==
    /\ \A r \in DOMAIN rows \ outbox : Announced(r)
    /\ \A r \in DOMAIN rows : InPublished(r) => Announced(r)

\* A row that waits for a pass was published by interrupted passes only.
CountInv == \A r \in DOMAIN rows :
    /\ sent[r] <= 1 + interrupted[r]
    /\ r \in outbox /\ ~InPublished(r) => sent[r] <= interrupted[r]

RelayInv == HoldInv /\ AnnouncedInv /\ CountInv

\* The counters and outbox of a step that only turns on no pass's publication.
LEMMA RelayFrame ==
    ASSUME RelayInv, UNCHANGED <<relay, rows, outbox, sent, interrupted, refused>>
    PROVE  RelayInv'
BY DEF RelayInv, HoldInv, AnnouncedInv, CountInv, InPublished, Announced

\* The commit adds a row that no pass holds and no PUBLISH named.
LEMMA RelayCommit ==
    ASSUME TypeInv, RelayInv, NEW p \in Procs, Commit(p)
    PROVE  RelayInv'
<1> DEFINE id == Len(rows) + 1
<1>1. /\ UNCHANGED <<relay, refused>>
      /\ outbox' = outbox \union {id}
      /\ sent' = ExtendedTo(sent, id) /\ interrupted' = ExtendedTo(interrupted, id)
      /\ \E r : rows' = Append(rows, r)
  BY DEF Commit, CreateEvent
<1>2. DOMAIN rows' = DOMAIN rows \union {id} /\ id \notin DOMAIN rows
  BY <1>1 DEF TypeInv, TypeOK
<1> HIDE DEF id
<1>3. /\ DOMAIN sent = DOMAIN rows /\ DOMAIN interrupted = DOMAIN rows
      /\ \A q \in Procs : id \notin relay[q].batch
  BY <1>2 DEF TypeInv, TypeOK, RelayInv, HoldInv
<1>4. /\ \A r \in DOMAIN rows : sent'[r] = sent[r] /\ interrupted'[r] = interrupted[r]
      /\ sent'[id] = 0 /\ interrupted'[id] = 0
  BY <1>1, <1>2, <1>3 DEF ExtendedTo
<1>5. HoldInv'
  BY <1>1 DEF RelayInv, HoldInv
<1>6. AnnouncedInv'
  BY <1>1, <1>2, <1>3, <1>4 DEF RelayInv, AnnouncedInv, InPublished, Announced
<1>7. CountInv'
  BY <1>1, <1>2, <1>3, <1>4 DEF RelayInv, CountInv, InPublished
<1> QED
  BY <1>5, <1>6, <1>7 DEF RelayInv

\* A pass takes rows that no other pass holds.
LEMMA RelayFetch ==
    ASSUME TypeInv, RelayInv, NEW p \in Procs, FetchEvents(p)
    PROVE  RelayInv'
<1>1. PICK batch \in Batches(Unlocked) :
          relay' = [relay EXCEPT ![p] = [pc |-> "locked", batch |-> batch]]
  BY DEF FetchEvents
<1>2. /\ relay'[p].pc = "locked" /\ relay'[p].batch \subseteq Unlocked
      /\ \A q \in Procs \ {p} : relay'[q] = relay[q]
      /\ relay[p].pc = "idle"
      /\ UNCHANGED <<rows, outbox, sent, interrupted, refused>>
  <2>1. batch \subseteq Unlocked
    BY BatchesType
  <2>2. relay'[p] = [pc |-> "locked", batch |-> batch]
    BY <1>1 DEF TypeInv, TypeOK
  <2>3. \A q \in Procs \ {p} : relay'[q] = relay[q]
    BY <1>1 DEF TypeInv, TypeOK
  <2>4. relay[p].pc = "idle" /\ UNCHANGED <<rows, outbox, sent, interrupted, refused>>
    BY DEF FetchEvents, dbVars, history
  <2>5. relay'[p].pc = "locked" /\ relay'[p].batch = batch
    BY <2>2
  <2> QED
    BY <2>1, <2>3, <2>4, <2>5
<1>3. \A r : InPublished(r)' <=> InPublished(r)
  BY <1>1, <1>2 DEF InPublished
<1>4. HoldInv'
  BY <1>2 DEF RelayInv, HoldInv, Unlocked
<1>5. AnnouncedInv' /\ CountInv'
  BY <1>2, <1>3 DEF RelayInv, AnnouncedInv, CountInv, Announced
<1> QED
  BY <1>4, <1>5 DEF RelayInv

\* Publishing a row that the pass alone holds, and has not published before.
LEMMA RelayPublish ==
    ASSUME TypeInv, RelayInv, NEW p \in Procs, Publish(p)
    PROVE  RelayInv'
<1> DEFINE B == relay[p].batch
<1>1. PICK accepted \in SUBSET B :
          /\ sent' = CountFor(sent, accepted)
          /\ refused' = refused \union (B \ accepted)
  BY DEF Publish
<1>2. /\ UNCHANGED <<rows, outbox, interrupted>>
      /\ relay[p].pc = "locked" /\ relay' = [relay EXCEPT ![p].pc = "published"]
  BY DEF Publish, dbVars
<1>3. /\ relay'[p].pc = "published" /\ \A q \in Procs : relay'[q].batch = relay[q].batch
      /\ \A q \in Procs \ {p} : relay'[q].pc = relay[q].pc
  BY <1>2 DEF TypeInv, TypeOK, Relay
<1>4. \A r : InPublished(r)' <=> InPublished(r) \/ r \in B
  BY <1>2, <1>3 DEF InPublished
<1>5. \A r \in B : ~InPublished(r) /\ r \in outbox
  BY <1>2 DEF RelayInv, HoldInv, InPublished
<1>6. \A r \in DOMAIN rows : /\ sent[r] \in Nat
                             /\ sent'[r] = IF r \in accepted THEN sent[r] + 1 ELSE sent[r]
  BY <1>1 DEF CountFor, TypeInv, TypeOK
<1>7. HoldInv'
  BY <1>2, <1>3 DEF RelayInv, HoldInv
<1>8. AnnouncedInv'
  BY <1>1, <1>2, <1>4, <1>6 DEF RelayInv, AnnouncedInv, Announced
<1>9. CountInv'
  <2> SUFFICES ASSUME NEW r \in DOMAIN rows
               PROVE  /\ sent'[r] <= 1 + interrupted[r]
                      /\ r \in outbox /\ ~InPublished(r)' => sent'[r] <= interrupted[r]
    BY <1>2 DEF CountInv
  <2>1. interrupted[r] \in Nat
    BY DEF TypeInv, TypeOK
  <2>2. CASE r \in B
    BY <1>4, <1>5, <1>6, <2>1, <2>2 DEF RelayInv, CountInv
  <2>3. CASE r \notin B
    BY <1>4, <1>6, <2>1, <2>3 DEF RelayInv, CountInv
  <2> QED
    BY <2>2, <2>3
<1> QED
  BY <1>7, <1>8, <1>9 DEF RelayInv

\* Deleting removes published rows from the outbox, and no others.
LEMMA RelayDelete ==
    ASSUME TypeInv, RelayInv, NEW p \in Procs, DeleteEvents(p)
    PROVE  RelayInv'
<1> DEFINE B == relay[p].batch
<1>1. /\ UNCHANGED <<rows, sent, interrupted, refused>>
      /\ relay[p].pc = "published" /\ outbox' = outbox \ B
      /\ relay' = [relay EXCEPT ![p] = IdleRelay]
  BY DEF DeleteEvents, EventIds, history
<1>2. /\ relay'[p].pc = "idle" /\ relay'[p].batch = {}
      /\ \A q \in Procs \ {p} : relay'[q] = relay[q]
  BY <1>1 DEF TypeInv, TypeOK, IdleRelay
<1>3. \A r : r \in B => InPublished(r)
  BY <1>1 DEF InPublished
<1>4. \A r : r \notin B => (InPublished(r)' <=> InPublished(r))
  BY <1>1, <1>2 DEF InPublished
<1>5. \A r : InPublished(r)' => InPublished(r)
  BY <1>1, <1>2 DEF InPublished
<1>6. HoldInv'
  BY <1>1, <1>2 DEF RelayInv, HoldInv
<1>7. AnnouncedInv'
  BY <1>1, <1>3, <1>5 DEF RelayInv, AnnouncedInv, Announced
<1>8. CountInv'
  BY <1>1, <1>4 DEF RelayInv, CountInv
<1> QED
  BY <1>6, <1>7, <1>8 DEF RelayInv

\* A pass that dies gives its rows back, counted as interrupted if it published.
LEMMA RelayGivesBack ==
    ASSUME TypeInv, RelayInv, NEW p \in Procs, RelayError(p) \/ Crash(p)
    PROVE  RelayInv'
<1> DEFINE G == GivenBack(p)
<1>1. /\ interrupted' = CountFor(interrupted, G)
      /\ relay' = [relay EXCEPT ![p] = IdleRelay]
      /\ UNCHANGED <<rows, outbox, sent, refused>>
  BY DEF RelayError, Crash, RelayAfterError, dbVars
<1>2. /\ relay'[p].pc = "idle" /\ relay'[p].batch = {}
      /\ \A q \in Procs \ {p} : relay'[q] = relay[q]
  BY <1>1 DEF TypeInv, TypeOK, IdleRelay
<1>3. \A r : InPublished(r)' => InPublished(r)
  BY <1>2 DEF InPublished
<1>4. \A r : InPublished(r) => InPublished(r)' \/ r \in G
  BY <1>2 DEF InPublished, GivenBack
<1>5. \A r \in DOMAIN rows :
          /\ interrupted[r] \in Nat /\ sent[r] \in Nat
          /\ interrupted'[r] = IF r \in G THEN interrupted[r] + 1 ELSE interrupted[r]
  BY <1>1 DEF CountFor, TypeInv, TypeOK
<1> HIDE DEF G
<1>6. HoldInv'
  BY <1>1, <1>2 DEF RelayInv, HoldInv
<1>7. AnnouncedInv'
  BY <1>1, <1>3 DEF RelayInv, AnnouncedInv, Announced
<1>8. CountInv'
  BY <1>1, <1>4, <1>5 DEF RelayInv, CountInv
<1> QED
  BY <1>6, <1>7, <1>8 DEF RelayInv

\* Jobs, transactions before their commit, edits and the start of a listener do
\* not touch the relay.
LEMMA RelayOther ==
    ASSUME RelayInv,
           \/ UNCHANGED vars
           \/ ApiEdit
           \/ \E m \in Messages : \/ Enqueue(m) \/ StalledJob(m)
                                  \/ \E p \in Procs : TakeJob(p, m)
           \/ \E p \in Procs : \/ FindConversation(p) \/ SaveMetadata(p) \/ InsertMessage(p)
                               \/ ForeignKeyError(p) \/ CompleteJob(p)
                               \/ StartListener(p) \/ FailJob(p)
    PROVE  RelayInv'
<1>1. UNCHANGED <<relay, rows, outbox, sent, interrupted, refused>>
  BY DEF vars, dbVars, history, ApiEdit, SetStatus, DeleteConversation, ChangeSetting,
         Enqueue, StalledJob, TakeJob, FindConversation, SaveMetadata, InsertMessage, ForeignKeyError,
         CompleteJob, StartListener, FailJob, RollBackJob
<1> QED
  BY <1>1, RelayFrame

\* What holds of the relay passes in every reachable state.
LEMMA RelayInvariance == Spec => []RelayInv
<1>1. Init => RelayInv
  <2> SUFFICES ASSUME Init PROVE RelayInv
    OBVIOUS
  <2>1. \A p \in Procs : relay[p].batch = {}
    BY DEF Init, IdleRelay
  <2> QED
    BY <2>1 DEF Init, RelayInv, HoldInv, AnnouncedInv, CountInv
<1>2. TypeInv /\ RelayInv /\ [Next]_vars => RelayInv'
  BY RelayCommit, RelayFetch, RelayPublish, RelayDelete, RelayGivesBack, RelayOther
     DEF Next, JobStep, RelayStep
<1> QED
  BY <1>1, <1>2, TypeInvariance, PTL DEF Spec

-----------------------------------------------------------------------------
(* What the relay may lose and repeat *)

\* No row leaves the outbox unpublished, unless Redis refused its PUBLISH.
THEOREM NothingLostSilently == Spec => []NoSilentLoss
<1>1. RelayInv => NoSilentLoss
  BY DEF RelayInv, AnnouncedInv, Announced, NoSilentLoss
<1> QED
  BY <1>1, RelayInvariance, PTL

\* No event is published more often than relay passes died after publishing it,
\* plus once, for any number of relaying processes.
THEOREM RepublishedOnlyAfterInterruption == Spec => []RepublishNeedsInterruption
<1>1. RelayInv => RepublishNeedsInterruption
  BY DEF RelayInv, CountInv, RepublishNeedsInterruption
<1> QED
  BY <1>1, RelayInvariance, PTL

-----------------------------------------------------------------------------
(* The pipeline implements the transactional outbox *)

AnnouncedRows == {r \in DOMAIN rows : sent[r] > 0}

\* The commit of a message and its outbox row is the abstract Store.
LEMMA CommitStores ==
    ASSUME TypeInv, NEW p \in Procs, Commit(p)
    PROVE  Outbox!Store
<1> DEFINE id == Len(rows) + 1
<1>1. /\ outbox' = outbox \union {id} /\ sent' = ExtendedTo(sent, id) /\ UNCHANGED refused
      /\ \E r : rows' = Append(rows, r)
  BY DEF Commit, CreateEvent
<1>2. Len(rows') = id /\ DOMAIN rows' = DOMAIN rows \union {id} /\ id \notin DOMAIN rows
  BY <1>1 DEF TypeInv, TypeOK
<1>3. DOMAIN sent = DOMAIN rows
  BY DEF TypeInv, TypeOK
<1> HIDE DEF id
<1>4. sent'[id] = 0 /\ \A r \in DOMAIN rows : sent'[r] = sent[r]
  BY <1>1, <1>2, <1>3 DEF ExtendedTo
<1>5. AnnouncedRows' = AnnouncedRows
  BY <1>2, <1>4 DEF AnnouncedRows
<1> QED
  BY <1>1, <1>2, <1>5 DEF Outbox!Store, AnnouncedRows, id

\* A pipeline announces the rows of the pass or has them refused.
LEMMA PublishAnnounces ==
    ASSUME TypeInv, RelayInv, NEW p \in Procs, Publish(p)
    PROVE  \E accepted, rejected \in SUBSET outbox : Outbox!Announce(accepted, rejected)
<1>1. PICK accepted \in SUBSET relay[p].batch :
          /\ sent' = CountFor(sent, accepted)
          /\ refused' = refused \union (relay[p].batch \ accepted)
  BY DEF Publish
<1>0. PICK rejected : rejected = relay[p].batch \ accepted
  OBVIOUS
<1>2. /\ UNCHANGED <<rows, outbox>>
      /\ accepted \in SUBSET outbox
      /\ rejected \in SUBSET outbox
  BY <1>0 DEF Publish, dbVars, RelayInv, HoldInv
<1>3. accepted \subseteq DOMAIN rows
  BY <1>2 DEF TypeInv, TypeOK
<1>4. \A r \in DOMAIN rows : /\ sent[r] \in Nat
                             /\ sent'[r] = IF r \in accepted THEN sent[r] + 1 ELSE sent[r]
  BY <1>1 DEF CountFor, TypeInv, TypeOK
<1>5. AnnouncedRows' = AnnouncedRows \union accepted
  BY <1>2, <1>3, <1>4 DEF AnnouncedRows
<1>6. Outbox!Announce(accepted, rejected)
  BY <1>0, <1>1, <1>2, <1>5 DEF Outbox!Announce, AnnouncedRows
<1> QED
  BY <1>2, <1>6

\* Deleting the rows of the pass settles announcements that were made or refused.
LEMMA DeleteSettles ==
    ASSUME TypeInv, RelayInv, NEW p \in Procs, DeleteEvents(p)
    PROVE  \E batch \in SUBSET outbox : Outbox!Settle(batch)
<1> DEFINE B == relay[p].batch
<1>1. /\ UNCHANGED <<rows, sent, refused>> /\ outbox' = outbox \ B
      /\ relay[p].pc = "published"
  BY DEF DeleteEvents, EventIds, history
<1>2. B \subseteq outbox /\ B \subseteq DOMAIN rows
  BY DEF RelayInv, HoldInv, TypeInv, BatchExists
<1>3. B \subseteq AnnouncedRows \union refused
  BY <1>1, <1>2 DEF RelayInv, AnnouncedInv, InPublished, Announced,
                    AnnouncedRows
<1>4. Outbox!Settle(B)
  BY <1>1, <1>3 DEF Outbox!Settle, AnnouncedRows
<1> QED
  BY <1>2, <1>4

\* Jobs, worker processes, locks, listeners, conversations and every failure are
\* details of one promise: a stored message is announced at least once or refused by
\* Redis, and its announcement is dropped only after that.
THEOREM PipelineImplementsOutbox == Spec => ImplementsOutbox
<1>1. Init => Outbox!Init
  <2> SUFFICES ASSUME Init PROVE Outbox!Init
    OBVIOUS
  <2> QED
    BY DEF Init, Outbox!Init
<1>2. TypeInv /\ RelayInv /\ [Next]_vars => [Outbox!Next]_(Outbox!vars)
  <2> SUFFICES ASSUME TypeInv, RelayInv, [Next]_vars
               PROVE  Outbox!Next \/ UNCHANGED Outbox!vars
    OBVIOUS
  <2>1. ASSUME NEW p \in Procs, Commit(p) PROVE Outbox!Next
    BY <2>1, CommitStores DEF Outbox!Next
  <2>2. ASSUME NEW p \in Procs, Publish(p) \/ DeleteEvents(p) PROVE Outbox!Next
    BY <2>2, PublishAnnounces, DeleteSettles DEF Outbox!Next
  <2>3. CASE UNCHANGED <<rows, outbox, sent, refused>>
    BY <2>3 DEF Outbox!vars
  <2>4. \/ \E p \in Procs : Commit(p) \/ Publish(p) \/ DeleteEvents(p)
        \/ UNCHANGED <<rows, outbox, sent, refused>>
    BY DEF Next, JobStep, RelayStep, ApiEdit, vars, dbVars, history, Enqueue, StalledJob,
           TakeJob, FindConversation, SaveMetadata, InsertMessage, ForeignKeyError, CompleteJob,
           StartListener, FailJob, RollBackJob, SetStatus, DeleteConversation, ChangeSetting,
           FetchEvents, RelayError, Crash
  <2> QED
    BY <2>1, <2>2, <2>3, <2>4
<1> QED
  BY <1>1, <1>2, TypeInvariance, RelayInvariance, PTL
     DEF Spec, ImplementsOutbox, Outbox!Spec

-----------------------------------------------------------------------------
(* Exactly once, and what it takes *)

\* Without refused commands nothing is ever recorded as refused.
NoRefusal == refused = {}

LEMMA NoRefusalStep ==
    ASSUME MaxRedisErrors = 0, TypeInv, NoRefusal, [Next]_vars
    PROVE  NoRefusal'
<1>1. ASSUME NEW p \in Procs, Publish(p) PROVE NoRefusal'
  <2>1. PICK accepted \in SUBSET relay[p].batch, subscribed \in BOOLEAN :
          /\ faults' = [faults EXCEPT
                !.redisErrors = IF accepted = relay[p].batch THEN @ ELSE @ + 1,
                !.apiOutages = IF subscribed THEN @ ELSE @ + 1]
          /\ faults'.redisErrors <= MaxRedisErrors
          /\ refused' = refused \union (relay[p].batch \ accepted)
    BY <1>1 DEF Publish
  <2>2. faults \in Faults /\ faults.redisErrors \in Nat
    BY DEF TypeInv, TypeOK, Faults
  <2>3. accepted = relay[p].batch
    <3>1. SUFFICES ASSUME accepted # relay[p].batch PROVE FALSE
      OBVIOUS
    <3>2. faults'.redisErrors = faults.redisErrors + 1
      BY <2>1, <2>2, <3>1 DEF Faults
    <3> QED
      BY <2>1, <2>2, <3>2
  <2> QED
    BY <2>1, <2>3 DEF NoRefusal
<1>2. CASE UNCHANGED refused
  BY <1>2 DEF NoRefusal
<1>3. (\E p \in Procs : Publish(p)) \/ UNCHANGED refused
  BY DEF Next, JobStep, RelayStep, ApiEdit, vars, history, Enqueue, StalledJob,
         TakeJob, FindConversation, SaveMetadata, InsertMessage, ForeignKeyError, CompleteJob,
         StartListener, FailJob, RollBackJob, SetStatus, DeleteConversation, ChangeSetting,
         FetchEvents, DeleteEvents, RelayError, Crash, Commit
<1> QED
  BY <1>1, <1>2, <1>3

\* Who hears an event hears a PUBLISH of it.
HeardInv == \A r \in DOMAIN rows : heard[r] <= sent[r]

\* While some API process is always subscribed, every PUBLISH is heard.
AllHeard == heard = sent

NobodyInterrupted == \A r \in DOMAIN rows : interrupted[r] = 0

\* A step counts a PUBLISH as heard, if it does, where it counts it as sent.
LEMMA HeardCases ==
    ASSUME TypeInv, [Next]_vars
    PROVE  \/ UNCHANGED <<rows, sent, heard>>
           \/ \E p \in Procs : Commit(p)
           \/ \E p \in Procs : Publish(p)
  BY DEF Next, JobStep, RelayStep, ApiEdit, vars, dbVars, history, Enqueue, StalledJob,
         TakeJob, FindConversation, SaveMetadata, InsertMessage, ForeignKeyError, CompleteJob,
         StartListener, FailJob, RollBackJob, SetStatus, DeleteConversation, ChangeSetting,
         FetchEvents, DeleteEvents, RelayError, Crash

\* A commit adds one row to every counter, at zero.
LEMMA CommitExtends ==
    ASSUME TypeInv, NEW p \in Procs, Commit(p)
    PROVE  \E id \in Nat : /\ DOMAIN rows' = DOMAIN rows \union {id}
                           /\ sent' = ExtendedTo(sent, id)
                           /\ heard' = ExtendedTo(heard, id)
                           /\ interrupted' = ExtendedTo(interrupted, id)
<1> DEFINE id == Len(rows) + 1
<1>1. /\ sent' = ExtendedTo(sent, id) /\ heard' = ExtendedTo(heard, id)
      /\ interrupted' = ExtendedTo(interrupted, id)
      /\ \E r : rows' = Append(rows, r)
  BY DEF Commit
<1>2. DOMAIN rows' = DOMAIN rows \union {id} /\ id \in Nat
  BY <1>1 DEF TypeInv, TypeOK
<1> HIDE DEF id
<1> QED
  BY <1>1, <1>2

LEMMA HeardStep == TypeInv /\ HeardInv /\ [Next]_vars => HeardInv'
<1> SUFFICES ASSUME TypeInv, HeardInv, [Next]_vars PROVE HeardInv'
  OBVIOUS
<1>1. ASSUME NEW p \in Procs, Commit(p) PROVE HeardInv'
  <2>1. PICK id : /\ sent' = ExtendedTo(sent, id) /\ heard' = ExtendedTo(heard, id)
                  /\ DOMAIN rows' = DOMAIN rows \union {id}
    BY <1>1, CommitExtends
  <2>2. /\ DOMAIN sent = DOMAIN rows /\ DOMAIN heard = DOMAIN rows
        /\ \A r \in DOMAIN rows : sent[r] \in Nat /\ heard[r] \in Nat /\ heard[r] <= sent[r]
    BY DEF HeardInv, TypeInv, TypeOK
  <2>3. \A r \in DOMAIN rows \union {id} : heard'[r] <= sent'[r]
    BY <2>1, <2>2 DEF ExtendedTo
  <2> QED
    BY <2>1, <2>3 DEF HeardInv
<1>2. ASSUME NEW p \in Procs, Publish(p) PROVE HeardInv'
  <2>1. PICK accepted : /\ sent' = CountFor(sent, accepted)
                        /\ heard' = CountFor(heard, accepted) \/ heard' = heard
                        /\ UNCHANGED rows
    BY <1>2 DEF Publish, dbVars
  <2>2. /\ DOMAIN sent = DOMAIN rows /\ DOMAIN heard = DOMAIN rows
        /\ \A r \in DOMAIN rows : sent[r] \in Nat /\ heard[r] \in Nat /\ heard[r] <= sent[r]
    BY DEF HeardInv, TypeInv, TypeOK
  <2>3. \A r \in DOMAIN rows : heard'[r] <= sent'[r]
    <3> SUFFICES ASSUME NEW r \in DOMAIN rows PROVE heard'[r] <= sent'[r]
      OBVIOUS
    <3>1. sent'[r] = IF r \in accepted THEN sent[r] + 1 ELSE sent[r]
      BY <2>1, <2>2 DEF CountFor
    <3>2. CASE heard' = heard
      BY <2>2, <3>1, <3>2
    <3>3. CASE heard' = CountFor(heard, accepted)
      <4>1. heard'[r] = IF r \in accepted THEN heard[r] + 1 ELSE heard[r]
        BY <2>2, <3>3 DEF CountFor
      <4> QED
        BY <2>2, <3>1, <4>1
    <3> QED
      BY <2>1, <3>2, <3>3
  <2> QED
    BY <2>1, <2>3 DEF HeardInv
<1> QED
  BY <1>1, <1>2, HeardCases DEF HeardInv

LEMMA AllHeardStep ==
    ASSUME MaxApiOutages = 0, TypeInv, AllHeard, [Next]_vars
    PROVE  AllHeard'
<1>1. ASSUME NEW p \in Procs, Publish(p) PROVE AllHeard'
  <2>1. PICK accepted \in SUBSET relay[p].batch, subscribed \in BOOLEAN :
          /\ faults' = [faults EXCEPT
                !.redisErrors = IF accepted = relay[p].batch THEN @ ELSE @ + 1,
                !.apiOutages = IF subscribed THEN @ ELSE @ + 1]
          /\ faults'.apiOutages <= MaxApiOutages
          /\ sent' = CountFor(sent, accepted)
          /\ heard' = IF subscribed THEN CountFor(heard, accepted) ELSE heard
    BY <1>1 DEF Publish
  <2>2. faults \in Faults /\ faults.apiOutages \in Nat
    BY DEF TypeInv, TypeOK, Faults
  <2>3. subscribed
    <3>1. SUFFICES ASSUME ~subscribed PROVE FALSE
      OBVIOUS
    <3>2. faults'.apiOutages = faults.apiOutages + 1
      BY <2>1, <2>2, <3>1 DEF Faults
    <3> QED
      BY <2>1, <2>2, <3>2
  <2> QED
    BY <2>1, <2>3 DEF AllHeard
<1>2. ASSUME NEW p \in Procs, Commit(p) PROVE AllHeard'
  BY <1>2 DEF Commit, AllHeard
<1> QED
  BY <1>1, <1>2, HeardCases DEF AllHeard

LEMMA NobodyInterruptedStep ==
    ASSUME MaxCrashes = 0, MaxRelayErrors = 0, TypeInv, NobodyInterrupted, [Next]_vars
    PROVE  NobodyInterrupted'
<1>1. \A p \in Procs : ~Crash(p) /\ ~RelayError(p)
  BY DEF Crash, RelayError, TypeInv, TypeOK, Faults
<1>2. ASSUME NEW p \in Procs, Commit(p) PROVE NobodyInterrupted'
  <2>1. PICK id : /\ DOMAIN rows' = DOMAIN rows \union {id}
                  /\ interrupted' = ExtendedTo(interrupted, id)
    BY <1>2, CommitExtends
  <2>2. DOMAIN interrupted = DOMAIN rows
    BY DEF TypeInv, TypeOK
  <2> QED
    BY <2>1, <2>2 DEF ExtendedTo, NobodyInterrupted
<1>3. (\E p \in Procs : Commit(p)) \/ UNCHANGED <<rows, interrupted>>
  BY <1>1 DEF Next, JobStep, RelayStep, ApiEdit, vars, dbVars, history, Enqueue, StalledJob,
         TakeJob, FindConversation, SaveMetadata, InsertMessage, ForeignKeyError, CompleteJob,
         StartListener, FailJob, RollBackJob, SetStatus, DeleteConversation, ChangeSetting,
         FetchEvents, Publish, DeleteEvents
<1> QED
  BY <1>2, <1>3 DEF NobodyInterrupted

AtLeastOnceDelivery == \A r \in DOMAIN rows \ outbox : heard[r] > 0

AtMostOnceDelivery == \A r \in DOMAIN rows : heard[r] <= 1

\* An event whose row is gone was delivered, with crashes, failing passes and any number
\* of processes, as long as Redis refuses no PUBLISH and an API process is subscribed.
THEOREM DeliveredAtLeastOnce ==
    ASSUME MaxRedisErrors = 0, MaxApiOutages = 0
    PROVE  Spec => []AtLeastOnceDelivery
<1>1. Init => NoRefusal /\ AllHeard
  BY DEF Init, NoRefusal, AllHeard
<1>2. TypeInv /\ NoRefusal /\ AllHeard /\ [Next]_vars => NoRefusal' /\ AllHeard'
  BY NoRefusalStep, AllHeardStep
<1>3. RelayInv /\ NoRefusal /\ AllHeard => AtLeastOnceDelivery
  BY DEF RelayInv, AnnouncedInv, Announced, NoRefusal, AllHeard, AtLeastOnceDelivery
<1> QED
  BY <1>1, <1>2, <1>3, TypeInvariance, RelayInvariance, PTL DEF Spec

\* No event is delivered twice while no process goes down and no relay pass fails, however
\* many processes relay and whatever Redis refuses.
THEOREM DeliveredAtMostOnce ==
    ASSUME MaxCrashes = 0, MaxRelayErrors = 0
    PROVE  Spec => []AtMostOnceDelivery
<1>1. Init => HeardInv /\ NobodyInterrupted
  BY DEF Init, HeardInv, NobodyInterrupted
<1>2. TypeInv /\ HeardInv /\ NobodyInterrupted /\ [Next]_vars => HeardInv' /\ NobodyInterrupted'
  BY HeardStep, NobodyInterruptedStep
<1>3. TypeInv /\ RelayInv /\ HeardInv /\ NobodyInterrupted => AtMostOnceDelivery
  BY DEF TypeInv, TypeOK, RelayInv, CountInv, HeardInv, NobodyInterrupted, AtMostOnceDelivery
<1> QED
  BY <1>1, <1>2, <1>3, TypeInvariance, RelayInvariance, PTL DEF Spec

\* What docs/architecture.md says of the outbox holds where none of the four faults occurs:
\* a worker that goes down, a relay pass that fails, a PUBLISH that Redis refuses, an API
\* nobody of which is subscribed.  With the last alone a run finds it violated.
THEOREM ExactlyOnceWithoutFaults ==
    ASSUME MaxRedisErrors = 0, MaxApiOutages = 0, MaxCrashes = 0, MaxRelayErrors = 0
    PROVE  Spec => []ExactlyOnceDelivery
<1>1. TypeInv /\ AtLeastOnceDelivery /\ AtMostOnceDelivery => ExactlyOnceDelivery
  BY DEF TypeInv, TypeOK, AtLeastOnceDelivery, AtMostOnceDelivery, ExactlyOnceDelivery
<1> QED
  BY <1>1, TypeInvariance, DeliveredAtLeastOnce, DeliveredAtMostOnce, PTL

=============================================================================
