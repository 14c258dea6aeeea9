--------------------------- MODULE ConnectionProofs ---------------------------
(***************************************************************************)
(* Theorems about the connections of a visitor: RealtimeSession, for any       *)
(* sockets, processes, replies and messages, and WidgetMessages, for any       *)
(* messages, connections and identifies.                                       *)
(***************************************************************************)
EXTENDS RealtimeSession, WidgetMessages, TLAPS

-----------------------------------------------------------------------------
(* Types of a visitor's session *)

\* A handler or a message that was used has a socket.
Named ==
    /\ \A c \in Identifies : identify[c].pc # "unused" => identify[c].socket \in Sockets
    /\ \A m \in VisitorMessages : message[m].pc # "unsent" => message[m].sender \in Sockets

\* Only the emission of a reply adds to what a widget shows already.
ShownTwiceIfEmitted ==
    \A s \in Sockets, r \in Replies : reply[r].pc # "done" => shown[s][r] \in 0..1

RealtimeTypeInv == RealtimeTypeOK /\ Named /\ ShownTwiceIfEmitted

LEMMA RealtimeTypeInit ==
    RealtimeInit => RealtimeTypeInv
  <1> SUFFICES ASSUME RealtimeInit PROVE RealtimeTypeInv
    OBVIOUS
  <1>1. /\ [pc |-> "unused", socket |-> NoSocket, history |-> {}, base |-> {}] \in IdentifyCall
        /\ [pc |-> "unsent", target |-> NoSocket] \in ReplyCall
        /\ [pc |-> "unsent", sender |-> NoSocket] \in MessageCall
        /\ NoSession \in Session
    BY DEF IdentifyCall, ReplyCall, MessageCall, NoSession, Session
  <1>2. /\ identify \in [Identifies -> IdentifyCall]
        /\ reply \in [Replies -> ReplyCall]
        /\ message \in [VisitorMessages -> MessageCall]
    BY <1>1 DEF RealtimeInit
  <1>3. shown \in [Sockets -> [Items -> 0..2]] /\ base \in [Sockets -> SUBSET Items]
    BY DEF RealtimeInit
  <1>4. faults \in 0..MaxFaults
    BY RealtimeAssumption DEF RealtimeInit, RealtimeAssumption
  <1>5. db \in [visitor : BOOLEAN, conversation : BOOLEAN]
    BY DEF RealtimeInit
  <1>6. RealtimeTypeOK
    BY <1>1, <1>2, <1>3, <1>4, <1>5 DEF RealtimeInit, RealtimeTypeOK
  <1>7. Named /\ ShownTwiceIfEmitted
    BY DEF RealtimeInit, Named, ShownTwiceIfEmitted, Items
  <1> QED  BY <1>6, <1>7 DEF RealtimeTypeInv

LEMMA StoredItemsType ==
    StoredItems \subseteq Items /\ ItemsUnderWay \subseteq Items
  BY DEF StoredItems, ItemsUnderWay, Items

LEMMA SessionTypes ==
    ASSUME RealtimeTypeOK
    PROVE  /\ NoSession \in Session
           /\ Expired \in Session
           /\ \A s \in Sockets : SetTo(s) \in Session
  BY DEF NoSession, Session, Expired, SetTo, RealtimeTypeOK

LEMMA FaultsType ==
    ASSUME RealtimeTypeOK, Fault \/ UNCHANGED faults
    PROVE  faults' \in 0..MaxFaults
  BY RealtimeAssumption DEF RealtimeAssumption, Fault, RealtimeTypeOK

\* One identify handler goes on.
LEMMA IdentifyGoesOn ==
    ASSUME RealtimeTypeInv, NEW c \in Identifies, NEW x \in IdentifyCall,
           x.pc # "unused" => x.socket \in Sockets,
           identify' = [identify EXCEPT ![c] = x]
    PROVE  /\ identify' \in [Identifies -> IdentifyCall]
           /\ \A d \in Identifies :
                 identify'[d].pc # "unused" => identify'[d].socket \in Sockets
  BY DEF RealtimeTypeInv, RealtimeTypeOK, Named

LEMMA IdentifyReaches ==
    ASSUME RealtimeTypeInv, NEW c \in Identifies,
           NEW pc \in {"looking", "absent", "sending", "sent", "failed"},
           identify' = [identify EXCEPT ![c].pc = pc],
           identify[c].pc # "unused"
    PROVE  /\ identify' \in [Identifies -> IdentifyCall]
           /\ \A d \in Identifies :
                 identify'[d].pc # "unused" => identify'[d].socket \in Sockets
  <1>1. identify[c] \in IdentifyCall /\ identify[c].socket \in Sockets
    BY DEF RealtimeTypeInv, RealtimeTypeOK, Named
  <1>2. identify' = [identify EXCEPT ![c] = [identify[c] EXCEPT !.pc = pc]]
    BY DEF RealtimeTypeInv, RealtimeTypeOK
  <1>3. /\ [identify[c] EXCEPT !.pc = pc] \in IdentifyCall
        /\ [identify[c] EXCEPT !.pc = pc].socket \in Sockets
    BY <1>1 DEF IdentifyCall
  <1> QED  BY <1>2, <1>3, IdentifyGoesOn

LEMMA RealtimeTypeStep ==
    RealtimeTypeInv /\ [RealtimeNext]_realtimeVars => RealtimeTypeInv'
  <1> SUFFICES ASSUME RealtimeTypeInv, [RealtimeNext]_realtimeVars PROVE RealtimeTypeInv'
    OBVIOUS
  <1> USE RealtimeAssumption DEF RealtimeAssumption
  <1> DEFINE Untouched == UNCHANGED <<identify, message, shown, reply>>
  <1>1. CASE UNCHANGED realtimeVars
    BY <1>1 DEF realtimeVars, RealtimeTypeInv, RealtimeTypeOK, Named, ShownTwiceIfEmitted
  <1>2. ASSUME NEW c \in Identifies, NEW s \in Sockets, Identify(c, s) PROVE RealtimeTypeInv'
    <2>1. PICK x \in IdentifyCall : /\ x.socket = s
                                    /\ identify' = [identify EXCEPT ![c] = x]
      BY <1>2, StoredItemsType DEF Identify, IdentifyCall
    <2>2. /\ identify' \in [Identifies -> IdentifyCall]
          /\ \A d \in Identifies :
                identify'[d].pc # "unused" => identify'[d].socket \in Sockets
      BY <2>1, IdentifyGoesOn
    <2>3. overlap' \subseteq Sockets \X Items
      BY <1>2, StoredItemsType DEF Identify, RealtimeTypeInv, RealtimeTypeOK
    <2>4. session' \in Session /\ faults' \in 0..MaxFaults
      BY <1>2, SessionTypes DEF Identify, Fault, RealtimeTypeInv, RealtimeTypeOK
    <2> QED
      BY <1>2, <2>2, <2>3, <2>4
      DEF Identify, RealtimeTypeInv, RealtimeTypeOK, Named, ShownTwiceIfEmitted
  <1>3. ASSUME NEW c \in Identifies, ExpireIdentified(c) PROVE RealtimeTypeInv'
    <2>1. /\ identify' \in [Identifies -> IdentifyCall]
          /\ \A d \in Identifies :
                identify'[d].pc # "unused" => identify'[d].socket \in Sockets
      BY <1>3, IdentifyReaches DEF ExpireIdentified
    <2>2. session' \in Session
      BY <1>3, SessionTypes DEF ExpireIdentified, RealtimeTypeInv, RealtimeTypeOK
    <2>3. unexpiring' \in BOOLEAN
      BY <1>3 DEF ExpireIdentified, RealtimeTypeInv, RealtimeTypeOK
    <2>4. faults' \in 0..MaxFaults
      BY <1>3, FaultsType DEF ExpireIdentified, RealtimeTypeInv
    <2> QED
      BY <1>3, <2>1, <2>2, <2>3, <2>4
      DEF ExpireIdentified, RealtimeTypeInv, RealtimeTypeOK, Named, ShownTwiceIfEmitted
  <1>4. ASSUME NEW c \in Identifies, LookUpVisitor(c) PROVE RealtimeTypeInv'
    <2>1. /\ identify' \in [Identifies -> IdentifyCall]
          /\ \A d \in Identifies :
                identify'[d].pc # "unused" => identify'[d].socket \in Sockets
      <3>1. CASE identify' = [identify EXCEPT ![c].pc = "sending", ![c].history = HistoryRead(c)]
        <4>1. identify' = [identify EXCEPT ![c] =
                 [identify[c] EXCEPT !.pc = "sending", !.history = HistoryRead(c)]]
          BY <3>1 DEF RealtimeTypeInv, RealtimeTypeOK
        <4>2. [identify[c] EXCEPT !.pc = "sending", !.history = HistoryRead(c)] \in IdentifyCall
          <5>1. identify[c] \in IdentifyCall
            BY DEF RealtimeTypeInv, RealtimeTypeOK
          <5> QED  BY <5>1, StoredItemsType DEF HistoryRead, IdentifyCall
        <4>3. identify[c].socket \in Sockets /\ identify[c] \in IdentifyCall
          BY <1>4 DEF LookUpVisitor, RealtimeTypeInv, Named, RealtimeTypeOK
        <4>4. [identify[c] EXCEPT !.pc = "sending", !.history = HistoryRead(c)].socket \in Sockets
          BY <4>3 DEF IdentifyCall
        <4> QED  BY <4>1, <4>2, <4>4, IdentifyGoesOn
      <3> QED  BY <1>4, <3>1, IdentifyReaches DEF LookUpVisitor
    <2>2. faults' \in 0..MaxFaults
      BY <1>4 DEF LookUpVisitor, Fault, RealtimeTypeInv, RealtimeTypeOK
    <2> QED
      BY <1>4, <2>1, <2>2
      DEF LookUpVisitor, RealtimeTypeInv, RealtimeTypeOK, Named, ShownTwiceIfEmitted
  <1>5. ASSUME NEW c \in Identifies, InsertVisitor(c) PROVE RealtimeTypeInv'
    <2>1. /\ identify' \in [Identifies -> IdentifyCall]
          /\ \A d \in Identifies :
                identify'[d].pc # "unused" => identify'[d].socket \in Sockets
      BY <1>5, IdentifyReaches DEF InsertVisitor
    <2> QED
      BY <1>5, <2>1
      DEF InsertVisitor, RealtimeTypeInv, RealtimeTypeOK, Named, ShownTwiceIfEmitted
  <1>6. ASSUME NEW c \in Identifies, PrepareSocket(c) PROVE RealtimeTypeInv'
    <2> DEFINE s == identify[c].socket
    <2>1. /\ identify' \in [Identifies -> IdentifyCall]
          /\ \A d \in Identifies :
                identify'[d].pc # "unused" => identify'[d].socket \in Sockets
      BY <1>6, IdentifyReaches DEF PrepareSocket
    <2>2. s \in Sockets /\ identify[c] \in IdentifyCall
      BY <1>6 DEF PrepareSocket, RealtimeTypeInv, RealtimeTypeOK, Named
    <2>3. History(identify[c].history) \in [Items -> 0..1]
      BY DEF History
    <2>4. identify[c].base \in SUBSET Items
      BY <2>2 DEF IdentifyCall
    <2>5. /\ known' \subseteq Sockets
          /\ base' \in [Sockets -> SUBSET Items]
      BY <1>6, <2>2, <2>4 DEF PrepareSocket, RealtimeTypeInv, RealtimeTypeOK
    <2>6. shown' \in [Sockets -> [Items -> 0..2]]
      <3>1. History(identify[c].history) \in [Items -> 0..2]
        BY DEF History
      <3>2. shown' \in {shown, [shown EXCEPT ![s] = History(identify[c].history)]}
        BY <1>6 DEF PrepareSocket
      <3> QED  BY <2>2, <3>1, <3>2 DEF RealtimeTypeInv, RealtimeTypeOK
    <2>7. ASSUME NEW t \in Sockets, NEW r \in Replies, reply[r].pc # "done"
          PROVE  shown'[t][r] \in 0..1
      <3>1. shown[t][r] \in 0..1 /\ r \in Items
        BY <2>7 DEF RealtimeTypeInv, ShownTwiceIfEmitted, Items
      <3>2. shown'[t] = shown[t] \/ shown'[t] = History(identify[c].history)
        BY <1>6, <2>2 DEF PrepareSocket, RealtimeTypeInv, RealtimeTypeOK
      <3> QED  BY <2>3, <3>1, <3>2
    <2> QED
      BY <1>6, <2>1, <2>5, <2>6, <2>7
      DEF PrepareSocket, RealtimeTypeInv, RealtimeTypeOK, Named, ShownTwiceIfEmitted
  <1>7. ASSUME NEW s \in Sockets, Connect(s) \/ CloseWidget(s) \/ DisconnectStep(s)
        PROVE  RealtimeTypeInv'
    <2>1. Untouched
      BY <1>7 DEF Connect, CloseWidget, DisconnectStep, Disconnect, RemoveSession
    <2>2. RealtimeTypeOK'
      BY <1>7, SessionTypes
      DEF Connect, CloseWidget, DisconnectStep, Disconnect, RemoveSession, StatusAfter,
          RealtimeTypeInv, RealtimeTypeOK
    <2> QED  BY <2>1, <2>2 DEF RealtimeTypeInv, Named, ShownTwiceIfEmitted
  <1>8. ASSUME NEW m \in VisitorMessages, NEW s \in Sockets, SendMessage(m, s)
        PROVE  RealtimeTypeInv'
    <2>1. PICK pc \in {"expiring", "dropped"} :
             message' = [message EXCEPT ![m] = [pc |-> pc, sender |-> s]]
      BY <1>8 DEF SendMessage
    <2>2. /\ message' \in [VisitorMessages -> MessageCall]
          /\ \A n \in VisitorMessages :
                message'[n].pc # "unsent" => message'[n].sender \in Sockets
      BY <2>1 DEF RealtimeTypeInv, RealtimeTypeOK, Named, MessageCall
    <2>3. overlap' \subseteq Sockets \X Items
      BY <1>8 DEF SendMessage, ItemStarts, RealtimeTypeInv, RealtimeTypeOK, Items
    <2>4. session' \in Session /\ faults' \in 0..MaxFaults
      BY <1>8, SessionTypes DEF SendMessage, Fault, RealtimeTypeInv, RealtimeTypeOK
    <2>5. m \in Items
      BY DEF Items
    <2>6. shown' = [shown EXCEPT ![s][m] = 1]
      BY <1>8 DEF SendMessage
    <2>7. shown' \in [Sockets -> [Items -> 0..2]]
      BY <2>5, <2>6 DEF RealtimeTypeInv, RealtimeTypeOK
    <2>8. ASSUME NEW t \in Sockets, NEW r \in Replies, reply[r].pc # "done"
          PROVE  shown'[t][r] \in 0..1
      <3>1. shown[t][r] \in 0..1 /\ r \in Items
        BY <2>8 DEF RealtimeTypeInv, ShownTwiceIfEmitted, Items
      <3>2. shown'[t][r] = shown[t][r] \/ shown'[t][r] = 1
        BY <2>5, <2>6, <3>1 DEF RealtimeTypeInv, RealtimeTypeOK
      <3> QED  BY <3>1, <3>2
    <2> QED
      BY <1>8, <2>2, <2>3, <2>4, <2>7, <2>8
      DEF SendMessage, RealtimeTypeInv, RealtimeTypeOK, Named, ShownTwiceIfEmitted
  <1>9. ASSUME NEW m \in VisitorMessages, MessageStep(m) PROVE RealtimeTypeInv'
    <2>1. PICK pc \in {"queued", "dropped", "stored"} :
             message' = [message EXCEPT ![m].pc = pc]
      BY <1>9 DEF MessageStep, QueueMessage, WorkerStores
    <2>2. message[m].pc # "unsent"
      BY <1>9 DEF MessageStep, QueueMessage, WorkerStores
    <2>3. /\ message' \in [VisitorMessages -> MessageCall]
          /\ \A n \in VisitorMessages :
                message'[n].pc # "unsent" => message'[n].sender \in Sockets
      BY <2>1, <2>2 DEF RealtimeTypeInv, RealtimeTypeOK, Named, MessageCall
    <2>4. session' \in Session
      BY <1>9, SessionTypes
      DEF MessageStep, QueueMessage, WorkerStores, RealtimeTypeInv, RealtimeTypeOK
    <2>5. unexpiring' \in BOOLEAN
      BY <1>9 DEF MessageStep, QueueMessage, WorkerStores, RealtimeTypeInv, RealtimeTypeOK
    <2>7. faults' \in 0..MaxFaults
      BY <1>9, FaultsType DEF MessageStep, QueueMessage, WorkerStores, RealtimeTypeInv
    <2>6. db' \in [visitor : BOOLEAN, conversation : BOOLEAN]
      BY <1>9
      DEF MessageStep, QueueMessage, WorkerStores, RealtimeTypeInv, RealtimeTypeOK
    <2> QED
      BY <1>9, <2>3, <2>4, <2>5, <2>6, <2>7
      DEF MessageStep, QueueMessage, WorkerStores, RealtimeTypeInv, RealtimeTypeOK, Named,
          ShownTwiceIfEmitted
  <1>10. ASSUME NEW r \in Replies, LookUpSession(r) \/ CommitReply(r) PROVE RealtimeTypeInv'
    <2>1. reply' \in [Replies -> ReplyCall]
      <3>1. reply \in [Replies -> ReplyCall] /\ session.socket \in Sockets \union {NoSocket}
        BY DEF RealtimeTypeInv, RealtimeTypeOK, Session
      <3>2. CASE LookUpSession(r)
        BY <3>1, <3>2 DEF LookUpSession, ReplyCall
      <3>3. ASSUME NEW pc \in {"stored", "lost"}, reply' = [reply EXCEPT ![r].pc = pc]
            PROVE  reply' \in [Replies -> ReplyCall]
        BY <3>1, <3>3 DEF ReplyCall
      <3> QED  BY <1>10, <3>2, <3>3 DEF CommitReply
    <2>2. overlap' \subseteq Sockets \X Items /\ faults' \in 0..MaxFaults
      BY <1>10
      DEF LookUpSession, CommitReply, ItemStarts, Fault, RealtimeTypeInv, RealtimeTypeOK, Items
    <2>3. \A q \in Replies : reply'[q].pc # "done" => reply[q].pc # "done"
      BY <1>10 DEF LookUpSession, CommitReply, RealtimeTypeInv, RealtimeTypeOK
    <2> QED
      BY <1>10, <2>1, <2>2, <2>3
      DEF LookUpSession, CommitReply, RealtimeTypeInv, RealtimeTypeOK, Named,
          ShownTwiceIfEmitted
  <1>11. ASSUME NEW r \in Replies, EmitReply(r) PROVE RealtimeTypeInv'
    <2>1. reply' = [reply EXCEPT ![r].pc = "done"] /\ reply[r].pc # "done"
      BY <1>11 DEF EmitReply, Emitted, RealtimeTypeInv, RealtimeTypeOK
    <2>2. reply' \in [Replies -> ReplyCall]
      <3>1. reply[r] \in ReplyCall
        BY DEF RealtimeTypeInv, RealtimeTypeOK
      <3>2. [reply[r] EXCEPT !.pc = "done"] \in ReplyCall
        BY <3>1 DEF ReplyCall
      <3> QED  BY <2>1, <3>2 DEF RealtimeTypeInv, RealtimeTypeOK
    <2>3. r \in Items
      BY DEF Items
    <2>4. shown' \in [Sockets -> [Items -> 0..2]]
      <3>1. CASE UNCHANGED shown
        BY <3>1 DEF RealtimeTypeInv, RealtimeTypeOK
      <3>2. CASE /\ reply[r].target \in Sockets
                 /\ shown' = [shown EXCEPT ![reply[r].target][r] = @ + 1]
        <4>1. shown[reply[r].target][r] \in 0..1
          BY <2>1, <3>2 DEF RealtimeTypeInv, ShownTwiceIfEmitted
        <4> QED  BY <2>3, <3>2, <4>1 DEF RealtimeTypeInv, RealtimeTypeOK
      <3>3. reply[r].target \in Sockets \union {NoSocket}
        BY DEF RealtimeTypeInv, RealtimeTypeOK, ReplyCall
      <3> QED  BY <1>11, <3>1, <3>2, <3>3 DEF EmitReply
    <2>5. ShownTwiceIfEmitted'
      <3> SUFFICES ASSUME NEW s \in Sockets, NEW q \in Replies, reply'[q].pc # "done"
                   PROVE  shown'[s][q] \in 0..1
        BY DEF ShownTwiceIfEmitted
      <3>1. q # r /\ reply'[q] = reply[q]
        BY <2>1 DEF RealtimeTypeInv, RealtimeTypeOK
      <3>2. shown'[s][q] = shown[s][q]
        <4>1. q \in Items /\ shown \in [Sockets -> [Items -> 0..2]]
          BY DEF Items, RealtimeTypeInv, RealtimeTypeOK
        <4> QED  BY <1>11, <2>3, <3>1, <4>1 DEF EmitReply
      <3> QED  BY <3>1, <3>2 DEF RealtimeTypeInv, ShownTwiceIfEmitted
    <2> QED
      BY <1>11, <2>2, <2>4, <2>5 DEF EmitReply, RealtimeTypeInv, RealtimeTypeOK, Named
  <1>12. CASE SessionTimeout
    BY <1>12, SessionTypes
    DEF SessionTimeout, Fault, RealtimeTypeInv, RealtimeTypeOK, Named, ShownTwiceIfEmitted
  <1>13. ASSUME NEW a \in Servers, CrashServer(a) PROVE RealtimeTypeInv'
    <2>1. /\ identify' \in [Identifies -> IdentifyCall]
          /\ \A d \in Identifies :
                identify'[d].pc # "unused" => identify'[d].socket \in Sockets
      <3>1. \A d \in Identifies :
               \/ identify'[d] = identify[d]
               \/ /\ identify[d].socket \in Sockets
                  /\ identify'[d] = [identify[d] EXCEPT !.pc = "failed"]
        BY <1>13 DEF CrashServer
      <3>2. identify' = [d \in Identifies |-> identify'[d]]
        BY <1>13 DEF CrashServer
      <3>3. \A d \in Identifies : identify[d] \in IdentifyCall
        BY DEF RealtimeTypeInv, RealtimeTypeOK
      <3>4. ASSUME NEW d \in Identifies
            PROVE  /\ identify'[d] \in IdentifyCall
                   /\ identify'[d].socket = identify[d].socket
                   /\ identify'[d].pc # "unused" =>
                         identify[d].pc # "unused" \/ identify[d].socket \in Sockets
        <4>1. /\ [identify[d] EXCEPT !.pc = "failed"] \in IdentifyCall
              /\ [identify[d] EXCEPT !.pc = "failed"].socket = identify[d].socket
          BY <3>3 DEF IdentifyCall
        <4> QED  BY <3>1, <3>3, <4>1
      <3> QED  BY <3>2, <3>4 DEF RealtimeTypeInv, Named
    <2>2. /\ message' \in [VisitorMessages -> MessageCall]
          /\ \A n \in VisitorMessages :
                message'[n].pc # "unsent" => message'[n].sender \in Sockets
      <3>1. \A n \in VisitorMessages :
               \/ message'[n] = message[n]
               \/ /\ message[n].pc = "expiring"
                  /\ message'[n] = [message[n] EXCEPT !.pc = "dropped"]
        BY <1>13 DEF CrashServer
      <3>2. message' = [n \in VisitorMessages |-> message'[n]]
        BY <1>13 DEF CrashServer
      <3>3. \A n \in VisitorMessages : message[n] \in MessageCall
        BY DEF RealtimeTypeInv, RealtimeTypeOK
      <3>4. \A n \in VisitorMessages :
               /\ message'[n] \in MessageCall
               /\ message'[n].sender = message[n].sender
               /\ message'[n].pc # "unsent" => message[n].pc # "unsent"
        BY <3>1, <3>3 DEF MessageCall
      <3> QED  BY <3>2, <3>4 DEF RealtimeTypeInv, Named
    <2>3. /\ reply' \in [Replies -> ReplyCall]
          /\ \A r \in Replies : reply'[r].pc # "done" => reply[r].pc # "done"
      <3>1. PICK handled \in SUBSET (ItemsUnderWay \intersect Replies) :
               reply' = [r \in Replies |->
                  IF r \notin handled THEN reply[r]
                  ELSE [reply[r] EXCEPT !.pc = IF @ = "looked" THEN "lost" ELSE "kept"]]
        BY <1>13 DEF CrashServer
      <3>2. \A r \in handled : reply[r].pc # "done"
        BY <3>1 DEF ItemsUnderWay
      <3>3. \A r \in Replies : reply'[r] \in ReplyCall
        BY <3>1 DEF RealtimeTypeInv, RealtimeTypeOK, ReplyCall
      <3> QED  BY <3>1, <3>2, <3>3
    <2>4. /\ socket' \in [Sockets -> {"new", "open", "gone", "closed"}]
          /\ removal' \in [Sockets -> {"none", "matched"}]
          /\ orphans' \subseteq Sockets
          /\ unexpiring' \in BOOLEAN
          /\ faults' \in 0..MaxFaults
      BY <1>13 DEF CrashServer, Fault, RealtimeTypeInv, RealtimeTypeOK
    <2> QED
      BY <1>13, <2>1, <2>2, <2>3, <2>4
      DEF CrashServer, RealtimeTypeInv, RealtimeTypeOK, Named, ShownTwiceIfEmitted
  <1> QED
    BY <1>1, <1>2, <1>3, <1>4, <1>5, <1>6, <1>7, <1>8, <1>9, <1>10, <1>11, <1>12, <1>13
    DEF RealtimeNext, IdentifyStep, ReplyStep

LEMMA RealtimeTypeInvariant == RealtimeSpec => []RealtimeTypeInv
  BY RealtimeTypeInit, RealtimeTypeStep, PTL DEF RealtimeSpec

\* Sockets, handlers, messages and what the widgets show keep their types; in particular
\* no widget shows an item more than twice.
THEOREM RealtimeTypeCorrect == RealtimeSpec => []RealtimeTypeOK
  BY RealtimeTypeInvariant, PTL DEF RealtimeTypeInv

-----------------------------------------------------------------------------
(* The expiry of the session key *)

LEMMA SessionExpiresStep ==
    ASSUME RealtimeTypeInv, SessionExpires, [RealtimeNext]_realtimeVars
    PROVE  SessionExpires'
  <1> DEFINE Kept == /\ UNCHANGED session
                     /\ unexpiring => unexpiring'
                     /\ \A c \in Identifies :
                           identify[c].pc = "expiring" => identify'[c].pc = "expiring"
                     /\ \A m \in VisitorMessages :
                           message[m].pc = "expiring" => message'[m].pc = "expiring"
  <1>1. ASSUME Kept PROVE SessionExpires'
    BY <1>1 DEF SessionExpires
  <1>2. CASE UNCHANGED realtimeVars
    BY <1>1, <1>2 DEF realtimeVars
  <1>3. ASSUME NEW c \in Identifies, NEW s \in Sockets, Identify(c, s) PROVE SessionExpires'
    <2>1. \/ identify'[c].pc = "expiring"
          \/ UNCHANGED session /\ identify[c].pc = "unused" /\
             \A d \in Identifies \ {c} : identify'[d] = identify[d]
      BY <1>3 DEF Identify, RealtimeTypeInv, RealtimeTypeOK
    <2>2. UNCHANGED <<message, unexpiring>>
      BY <1>3 DEF Identify
    <2> QED  BY <1>1, <2>1, <2>2 DEF SessionExpires
  <1>4. ASSUME UNCHANGED unexpiring \/ unexpiring', session' = Expired \/ unexpiring'
        PROVE  SessionExpires'
    BY <1>4 DEF SessionExpires, Expired, NoSession, Session, RealtimeTypeInv, RealtimeTypeOK
  <1>5. ASSUME NEW c \in Identifies, ExpireIdentified(c) PROVE SessionExpires'
    BY <1>4, <1>5 DEF ExpireIdentified
  <1>6. ASSUME NEW m \in VisitorMessages, QueueMessage(m) PROVE SessionExpires'
    BY <1>4, <1>6 DEF QueueMessage
  <1>7. ASSUME NEW c \in Identifies, LookUpVisitor(c) \/ InsertVisitor(c) \/ PrepareSocket(c)
        PROVE  SessionExpires'
    <2>1. /\ identify[c].pc # "expiring"
          /\ \A d \in Identifies \ {c} : identify'[d] = identify[d]
          /\ UNCHANGED <<session, message, unexpiring>>
      BY <1>7
      DEF LookUpVisitor, InsertVisitor, PrepareSocket, RealtimeTypeInv, RealtimeTypeOK
    <2> QED  BY <1>1, <2>1
  <1>8. ASSUME NEW m \in VisitorMessages, NEW s \in Sockets, SendMessage(m, s)
        PROVE  SessionExpires'
    <2>1. \/ message'[m].pc = "expiring"
          \/ UNCHANGED session /\ message[m].pc = "unsent" /\
             \A n \in VisitorMessages \ {m} : message'[n] = message[n]
      BY <1>8 DEF SendMessage, RealtimeTypeInv, RealtimeTypeOK
    <2>2. UNCHANGED <<identify, unexpiring>>
      BY <1>8 DEF SendMessage
    <2> QED  BY <1>1, <2>1, <2>2 DEF SessionExpires
  <1>9. ASSUME NEW m \in VisitorMessages, WorkerStores(m) PROVE SessionExpires'
    <2>1. /\ message[m].pc # "expiring"
          /\ \A n \in VisitorMessages \ {m} : message'[n] = message[n]
          /\ UNCHANGED <<session, identify, unexpiring>>
      BY <1>9 DEF WorkerStores, RealtimeTypeInv, RealtimeTypeOK
    <2> QED  BY <1>1, <2>1
  <1>10. ASSUME NEW s \in Sockets, RemoveSession(s) PROVE SessionExpires'
    BY <1>10 DEF RemoveSession, SessionExpires
  <1>11. CASE SessionTimeout
    BY <1>11 DEF SessionTimeout, SessionExpires
  <1>12. ASSUME NEW a \in Servers, CrashServer(a) PROVE SessionExpires'
    BY <1>12 DEF CrashServer, SessionExpires
  <1>13. ASSUME NEW s \in Sockets, Connect(s) \/ CloseWidget(s) \/ Disconnect(s)
         PROVE  SessionExpires'
    BY <1>1, <1>13 DEF Connect, CloseWidget, Disconnect
  <1>14. ASSUME NEW r \in Replies, LookUpSession(r) \/ ReplyStep(r) PROVE SessionExpires'
    BY <1>1, <1>14 DEF LookUpSession, ReplyStep, CommitReply, EmitReply
  <1> QED
    BY <1>2, <1>3, <1>5, <1>6, <1>7, <1>8, <1>9, <1>10, <1>11, <1>12, <1>13, <1>14
    DEF RealtimeNext, IdentifyStep, MessageStep, DisconnectStep

\* Every session key has an expiry or is about to get it, unless an EXPIRE was lost.
THEOREM SessionKeyExpires == RealtimeSpec => []SessionExpires
  <1>1. RealtimeInit => SessionExpires
    BY DEF RealtimeInit, SessionExpires
  <1>2. RealtimeTypeInv /\ SessionExpires /\ [RealtimeNext]_realtimeVars => SessionExpires'
    BY SessionExpiresStep
  <1> QED  BY <1>1, <1>2, RealtimeTypeInvariant, PTL DEF RealtimeSpec

-----------------------------------------------------------------------------
(* No ghosts *)

\* A session names a socket that is up, or is about to delete it, or never will: the
\* visitor is online as long as some socket is.
GhostInv ==
    /\ presence = "online" =>
          orphans # {} \/ \E s \in Sockets : socket[s] \in {"open", "gone"}
    /\ session # NoSession =>
          LET s == session.socket
          IN  /\ s \in Sockets
              /\ s \in orphans \/ socket[s] \in {"open", "gone"} \/ removal[s] = "matched"

\* The steps of handlers, messages and replies that give the session no other socket.
LEMMA GhostKept ==
    ASSUME RealtimeTypeInv, GhostInv, UNCHANGED <<socket, removal, presence, orphans>>,
           session' \in {session, Expired, NoSession}
    PROVE  GhostInv'
  <1>1. session' # NoSession => session # NoSession /\ session'.socket = session.socket
    BY DEF Expired, NoSession, Session, RealtimeTypeInv, RealtimeTypeOK
  <1> QED  BY <1>1 DEF GhostInv

LEMMA GhostStep ==
    ASSUME RealtimeTypeInv, GhostInv, [RealtimeNext]_realtimeVars
    PROVE  GhostInv'
  <1>1. CASE UNCHANGED realtimeVars
    BY <1>1, GhostKept DEF realtimeVars
  <1>2. ASSUME NEW c \in Identifies, NEW s \in Sockets, Identify(c, s) PROVE GhostInv'
    BY <1>2 DEF Identify, SetTo, GhostInv
  <1>3. ASSUME NEW c \in Identifies, IdentifyStep(c) PROVE GhostInv'
    BY <1>3, GhostKept
    DEF IdentifyStep, ExpireIdentified, LookUpVisitor, InsertVisitor, PrepareSocket
  <1>4. ASSUME NEW s \in Sockets, Connect(s) \/ CloseWidget(s) PROVE GhostInv'
    <2>1. /\ UNCHANGED <<session, removal, presence, orphans>>
          /\ \A t \in Sockets : socket[t] \in {"open", "gone"} => socket'[t] \in {"open", "gone"}
      BY <1>4 DEF Connect, CloseWidget, RealtimeTypeInv, RealtimeTypeOK
    <2> QED  BY <2>1 DEF GhostInv
  <1>5. ASSUME NEW s \in Sockets, Disconnect(s) PROVE GhostInv'
    <2>1. /\ \A t \in Sockets \ {s} : socket'[t] = socket[t] /\ removal'[t] = removal[t]
          /\ s \in known => removal'[s] = (IF Matches(s) THEN "matched" ELSE "none")
          /\ s \in known => presence' = "offline" /\ UNCHANGED orphans
          /\ s \notin known => orphans' = orphans \union {s}
          /\ UNCHANGED session
      BY <1>5 DEF Disconnect, StatusAfter, RealtimeTypeInv, RealtimeTypeOK
    <2>2. CASE s \in known
      BY <2>1, <2>2 DEF GhostInv, Matches
    <2>3. CASE s \notin known
      BY <2>1, <2>3 DEF GhostInv
    <2> QED  BY <2>2, <2>3
  <1>6. ASSUME NEW s \in Sockets, RemoveSession(s) PROVE GhostInv'
    BY <1>6 DEF RemoveSession, GhostInv
  <1>7. ASSUME NEW m \in VisitorMessages, NEW s \in Sockets, SendMessage(m, s)
        PROVE  GhostInv'
    BY <1>7 DEF SendMessage, SetTo, GhostInv
  <1>8. ASSUME NEW m \in VisitorMessages, MessageStep(m) PROVE GhostInv'
    BY <1>8, GhostKept DEF MessageStep, QueueMessage, WorkerStores
  <1>9. ASSUME NEW r \in Replies, LookUpSession(r) \/ ReplyStep(r) PROVE GhostInv'
    BY <1>9, GhostKept DEF LookUpSession, ReplyStep, CommitReply, EmitReply
  <1>10. CASE SessionTimeout
    BY <1>10, GhostKept DEF SessionTimeout
  <1>11. ASSUME NEW a \in Servers, CrashServer(a) PROVE GhostInv'
    <2> DEFINE served == {s \in Sockets : HomeOf[s] = a}
    <2>1. /\ \A s \in served : socket[s] \in {"open", "gone"} \/ removal[s] = "matched"
                                  => s \in orphans'
          /\ \A s \in Sockets \ served : socket'[s] = socket[s] /\ removal'[s] = removal[s]
          /\ orphans \subseteq orphans'
          /\ UNCHANGED <<session, presence>>
      BY <1>11 DEF CrashServer
    <2> HIDE DEF served
    <2> QED  BY <2>1 DEF GhostInv
  <1> QED
    BY <1>1, <1>2, <1>3, <1>4, <1>5, <1>6, <1>7, <1>8, <1>9, <1>10, <1>11
    DEF RealtimeNext, DisconnectStep

\* Once every widget is closed and its handlers are through, the visitor is offline and
\* has no session, unless a socket was closed before its identify was answered or its
\* process went down.
THEOREM NoGhostRemains == RealtimeSpec => []NoGhost
  <1>1. RealtimeInit => GhostInv
    BY DEF RealtimeInit, GhostInv
  <1>2. RealtimeTypeInv /\ GhostInv /\ [RealtimeNext]_realtimeVars => GhostInv'
    BY GhostStep
  <1>3. GhostInv => NoGhost
    BY DEF GhostInv, NoGhost, AllGone
  <1> QED  BY <1>1, <1>2, <1>3, RealtimeTypeInvariant, PTL DEF RealtimeSpec

-----------------------------------------------------------------------------
(* Every item is shown once *)

\* Before the visitor is in the database, nothing is stored and nobody is known.
VisitorInv ==
    /\ db.conversation => db.visitor
    /\ ~db.visitor => /\ known = {}
                      /\ StoredItems = {} /\ ItemsUnderWay = {}
                      /\ \A c \in Identifies : identify[c].pc \notin {"sending", "sent"}

\* What the key or a reply names was connected once.
TargetInv ==
    /\ session # NoSession => session.socket \in Sockets /\ socket[session.socket] # "new"
    /\ \A r \in Replies : reply[r].target # NoSocket => socket[reply[r].target] # "new"

\* What is not under way when an identify begins and does not start before its end is in
\* its history just if it was stored when it began.
HandlerInv(c) ==
    /\ identify[c].pc \in {"expiring", "looking", "absent"} => identify[c].history = {}
    /\ identify[c].pc \in {"expiring", "looking", "absent", "sending"} =>
          \A i \in Items : <<identify[c].socket, i>> \notin overlap =>
              /\ i \notin ItemsUnderWay
              /\ i \in identify[c].base <=> i \in StoredItems
              /\ identify[c].pc = "sending" =>
                    (i \in identify[c].history <=> i \in identify[c].base)

\* A widget shows what was stored before it identified; a reply not before it is emitted
\* to it; a message from when it sends it.
ShownAt(s, i) ==
    /\ i \in base[s] => i \in StoredItems /\ i \notin ItemsUnderWay /\ shown[s][i] = 1
    /\ i \in Replies =>
          /\ reply[i].pc \in {"unsent", "looked", "stored"} => shown[s][i] = 0
          /\ reply[i].pc = "done" /\ reply[i].target = s /\ socket[s] = "open"
                => shown[s][i] = 1
    /\ i \in VisitorMessages =>
          (message[i].sender = s /\ message[i].pc \in {"expiring", "queued", "stored"}
                => shown[s][i] = 1)

OnceInv ==
    /\ VisitorInv
    /\ TargetInv
    /\ \A c \in Identifies : HandlerInv(c)
    /\ \A s \in Sockets, i \in Items : <<s, i>> \notin overlap => ShownAt(s, i)

\* An item is a reply or a message, and is stored or on its way accordingly.
LEMMA ItemFacts ==
    ASSUME NEW i \in Items
    PROVE  /\ i \in Replies => /\ i \notin VisitorMessages
                               /\ i \in StoredItems <=> reply[i].pc \in {"stored", "done", "kept"}
                               /\ i \in ItemsUnderWay <=> reply[i].pc \in {"looked", "stored"}
           /\ i \notin Replies => /\ i \in VisitorMessages
                                  /\ i \in StoredItems <=> message[i].pc = "stored"
                                  /\ i \in ItemsUnderWay <=>
                                        message[i].pc \in {"expiring", "queued"}
  BY RealtimeAssumption DEF RealtimeAssumption, Items, StoredItems, ItemsUnderWay

LEMMA OnceInit ==
    RealtimeInit => OnceInv
  <1> SUFFICES ASSUME RealtimeInit PROVE OnceInv
    OBVIOUS
  <1>1. StoredItems = {} /\ ItemsUnderWay = {}
    BY DEF RealtimeInit, StoredItems, ItemsUnderWay
  <1>2. VisitorInv /\ TargetInv
    BY <1>1 DEF RealtimeInit, VisitorInv, TargetInv
  <1>3. ASSUME NEW s \in Sockets, NEW i \in Items PROVE ShownAt(s, i)
    BY ItemFacts DEF RealtimeInit, ShownAt, Items
  <1>4. ASSUME NEW c \in Identifies PROVE HandlerInv(c)
    BY DEF RealtimeInit, HandlerInv
  <1> QED  BY <1>2, <1>3, <1>4 DEF OnceInv

\* What a step does to an item: nothing, its start, or its next steps.
LEMMA ItemMoves ==
    ASSUME RealtimeTypeInv, [RealtimeNext]_realtimeVars, NEW i \in Items
    PROVE  /\ i \notin ItemsUnderWay =>
                 \/ ItemStarts(i) /\ i \notin StoredItems
                 \/ i \notin ItemsUnderWay' /\ (i \in StoredItems' <=> i \in StoredItems)
           /\ i \in StoredItems => i \in StoredItems'
  <1>1. i \in Replies => /\ i \in StoredItems' <=> reply'[i].pc \in {"stored", "done", "kept"}
                         /\ i \in ItemsUnderWay' <=> reply'[i].pc \in {"looked", "stored"}
    BY RealtimeAssumption DEF RealtimeAssumption, Items, StoredItems, ItemsUnderWay
  <1>2. i \notin Replies => /\ i \in StoredItems' <=> message'[i].pc = "stored"
                            /\ i \in ItemsUnderWay' <=> message'[i].pc \in {"expiring", "queued"}
    BY RealtimeAssumption DEF RealtimeAssumption, Items, StoredItems, ItemsUnderWay
  <1> DEFINE Moves ==
          /\ i \notin ItemsUnderWay =>
                \/ ItemStarts(i) /\ i \notin StoredItems
                \/ i \notin ItemsUnderWay' /\ (i \in StoredItems' <=> i \in StoredItems)
          /\ i \in StoredItems => i \in StoredItems'
  <1> HIDE DEF Moves
  <1>3. ASSUME reply'[i] = reply[i] \/ i \notin Replies,
               message'[i] = message[i] \/ i \in Replies
        PROVE  Moves
    BY <1>1, <1>2, <1>3, ItemFacts DEF Moves
  <1>4. ASSUME UNCHANGED <<reply, message>> PROVE Moves
    BY <1>3, <1>4
  <1>5. ASSUME NEW m \in VisitorMessages, NEW s \in Sockets, SendMessage(m, s) PROVE Moves
    <2>1. /\ \A n \in VisitorMessages \ {m} : message'[n] = message[n]
          /\ UNCHANGED reply
          /\ message[m].pc = "unsent"
          /\ ItemStarts(m)
      BY <1>5 DEF SendMessage, RealtimeTypeInv, RealtimeTypeOK
    <2> QED  BY <1>3, <2>1, ItemFacts DEF Moves
  <1>6. ASSUME NEW m \in VisitorMessages, MessageStep(m) PROVE Moves
    <2>1. /\ \A n \in VisitorMessages \ {m} : message'[n] = message[n]
          /\ UNCHANGED reply
          /\ message[m].pc \in {"expiring", "queued"}
      BY <1>6
      DEF MessageStep, QueueMessage, WorkerStores, RealtimeTypeInv, RealtimeTypeOK
    <2> QED  BY <1>3, <2>1, ItemFacts DEF Moves
  <1>7. ASSUME NEW r \in Replies, LookUpSession(r) PROVE Moves
    <2>1. /\ \A q \in Replies \ {r} : reply'[q] = reply[q]
          /\ UNCHANGED message
          /\ reply[r].pc = "unsent"
          /\ ItemStarts(r)
      BY <1>7 DEF LookUpSession, RealtimeTypeInv, RealtimeTypeOK
    <2> QED  BY <1>3, <2>1, ItemFacts DEF Moves
  <1>8. ASSUME NEW r \in Replies, ReplyStep(r) PROVE Moves
    <2>1. /\ \A q \in Replies \ {r} : reply'[q] = reply[q]
          /\ UNCHANGED message
          /\ reply[r].pc \in {"looked", "stored"}
          /\ reply[r].pc = "stored" => reply'[r].pc = "done"
      BY <1>8
      DEF ReplyStep, CommitReply, EmitReply, Emitted, RealtimeTypeInv, RealtimeTypeOK, ReplyCall
    <2> QED  BY <1>1, <1>3, <2>1, ItemFacts DEF Moves
  <1>9. ASSUME NEW a \in Servers, CrashServer(a) PROVE Moves
    <2>1. CASE i \in Replies
      <3>1. PICK handled \in SUBSET (ItemsUnderWay \intersect Replies) :
               reply' = [r \in Replies |->
                  IF r \notin handled THEN reply[r]
                  ELSE [reply[r] EXCEPT !.pc = IF @ = "looked" THEN "lost" ELSE "kept"]]
        BY <1>9 DEF CrashServer
      <3>2. CASE i \notin handled
        BY <1>3, <2>1, <3>1, <3>2
      <3>3. CASE i \in handled
        <4>1. reply[i].pc \in {"looked", "stored"} /\ reply[i] \in ReplyCall
          BY <2>1, <3>3, ItemFacts DEF RealtimeTypeInv, RealtimeTypeOK
        <4>2. reply'[i].pc = IF reply[i].pc = "looked" THEN "lost" ELSE "kept"
          BY <2>1, <3>1, <3>3, <4>1 DEF ReplyCall
        <4> QED  BY <1>1, <2>1, <4>1, <4>2, ItemFacts DEF Moves
      <3> QED  BY <3>2, <3>3
    <2>2. CASE i \notin Replies
      <3>1. i \in VisitorMessages
        BY <2>2, ItemFacts
      <3>2. message'[i] = message[i] \/ message[i].pc = "expiring"
        BY <1>9, <3>1 DEF CrashServer
      <3> QED  BY <1>3, <2>2, <3>1, <3>2, ItemFacts DEF Moves
    <2> QED  BY <2>1, <2>2
  <1>10. UNCHANGED <<reply, message>> \/ Moves
    BY <1>5, <1>6, <1>7, <1>8, <1>9
    DEF RealtimeNext, realtimeVars, IdentifyStep, ExpireIdentified, LookUpVisitor,
        InsertVisitor, PrepareSocket, Identify, Connect, CloseWidget, DisconnectStep,
        Disconnect, RemoveSession, SessionTimeout
  <1> QED  BY <1>4, <1>10 DEF Moves

\* What a step does to an identify handler that is active after it.
LEMMA HandlerMoves ==
    ASSUME RealtimeTypeInv, [RealtimeNext]_realtimeVars, NEW c \in Identifies,
           identify'[c].pc \in {"expiring", "looking", "absent", "sending"}
    PROVE  \/ /\ identify'[c].pc = "expiring"
              /\ identify'[c].history = {}
              /\ identify'[c].base = StoredItems
              /\ \A i \in ItemsUnderWay : <<identify'[c].socket, i>> \in overlap'
              /\ UNCHANGED <<reply, message>>
           \/ /\ identify[c].pc \in {"expiring", "looking", "absent", "sending"}
              /\ identify'[c].socket = identify[c].socket
              /\ identify'[c].base = identify[c].base
              /\ \/ /\ identify'[c].history = identify[c].history
                    /\ identify'[c].pc = "sending" =>
                          identify[c].pc = "sending" \/ (identify[c].pc = "absent" /\ ~db.visitor)
                    /\ identify'[c].pc # "sending" => identify[c].pc # "sending"
                 \/ /\ identify'[c].history = StoredItems
                    /\ identify'[c].pc = "sending"
                    /\ UNCHANGED <<reply, message>>
  <1> DEFINE Active == {"expiring", "looking", "absent", "sending"}
             New == /\ identify'[c].pc = "expiring"
                    /\ identify'[c].history = {}
                    /\ identify'[c].base = StoredItems
                    /\ \A i \in ItemsUnderWay : <<identify'[c].socket, i>> \in overlap'
                    /\ UNCHANGED <<reply, message>>
             On == /\ identify[c].pc \in Active
                   /\ identify'[c].socket = identify[c].socket
                   /\ identify'[c].base = identify[c].base
                   /\ \/ /\ identify'[c].history = identify[c].history
                         /\ identify'[c].pc = "sending" =>
                               \/ identify[c].pc = "sending"
                               \/ identify[c].pc = "absent" /\ ~db.visitor
                         /\ identify'[c].pc # "sending" => identify[c].pc # "sending"
                      \/ /\ identify'[c].history = StoredItems
                         /\ identify'[c].pc = "sending"
                         /\ UNCHANGED <<reply, message>>
  <1>1. identify[c] \in IdentifyCall /\ identify \in [Identifies -> IdentifyCall]
    BY DEF RealtimeTypeInv, RealtimeTypeOK
  <1>2. ASSUME identify'[c] = identify[c] PROVE On
    BY <1>2
  <1>3. ASSUME NEW d \in Identifies, NEW s \in Sockets, Identify(d, s) PROVE New \/ On
    <2>1. CASE d = c
      BY <1>1, <1>3, <2>1 DEF Identify
    <2>2. CASE d # c
      BY <1>1, <1>2, <1>3, <2>2 DEF Identify
    <2> QED  BY <2>1, <2>2
  <1>4. ASSUME NEW d \in Identifies, ExpireIdentified(d) PROVE On
    <2>1. CASE d = c
      <3>1. identify' \in {[identify EXCEPT ![c].pc = "looking"], [identify EXCEPT ![c].pc = "failed"]}
        BY <1>4, <2>1 DEF ExpireIdentified
      <3>2. identify'[c] = [identify[c] EXCEPT !.pc = "looking"]
        BY <1>1, <3>1 DEF IdentifyCall
      <3> QED  BY <1>1, <1>4, <2>1, <3>2 DEF ExpireIdentified, IdentifyCall
    <2>2. CASE d # c
      BY <1>1, <1>2, <1>4, <2>2 DEF ExpireIdentified
    <2> QED  BY <2>1, <2>2
  <1>5. ASSUME NEW d \in Identifies, LookUpVisitor(d) PROVE On
    <2>1. CASE d = c
      <3>1. CASE identify' = [identify EXCEPT ![c].pc = "sending", ![c].history = HistoryRead(c)]
        <4>1. identify'[c] = [identify[c] EXCEPT !.pc = "sending", !.history = StoredItems]
          BY <1>1, <3>1 DEF HistoryRead
        <4> QED  BY <1>1, <1>5, <2>1, <4>1 DEF LookUpVisitor, IdentifyCall
      <3>2. CASE identify' = [identify EXCEPT ![c].pc = "absent"]
        <4>1. identify'[c] = [identify[c] EXCEPT !.pc = "absent"]
          BY <1>1, <3>2
        <4> QED  BY <1>1, <1>5, <2>1, <4>1 DEF LookUpVisitor, IdentifyCall
      <3>3. CASE identify' = [identify EXCEPT ![c].pc = "failed"]
        BY <1>1, <3>3 DEF IdentifyCall
      <3> QED  BY <1>5, <2>1, <3>1, <3>2, <3>3 DEF LookUpVisitor
    <2>2. CASE d # c
      BY <1>1, <1>2, <1>5, <2>2 DEF LookUpVisitor
    <2> QED  BY <2>1, <2>2
  <1>6. ASSUME NEW d \in Identifies, InsertVisitor(d) PROVE On
    <2>1. CASE d = c
      <3>1. identify'[c] = [identify[c] EXCEPT !.pc = IF db.visitor THEN "failed" ELSE "sending"]
        BY <1>1, <1>6, <2>1 DEF InsertVisitor
      <3>2. ~db.visitor
        BY <1>1, <3>1 DEF IdentifyCall
      <3>3. identify'[c] = [identify[c] EXCEPT !.pc = "sending"]
        BY <3>1, <3>2
      <3> QED  BY <1>1, <1>6, <2>1, <3>2, <3>3 DEF InsertVisitor, IdentifyCall
    <2>2. CASE d # c
      BY <1>1, <1>2, <1>6, <2>2 DEF InsertVisitor
    <2> QED  BY <2>1, <2>2
  <1>7. ASSUME NEW d \in Identifies, PrepareSocket(d) PROVE On
    <2>1. CASE d = c
      BY <1>1, <1>7, <2>1 DEF PrepareSocket, IdentifyCall
    <2>2. CASE d # c
      BY <1>1, <1>2, <1>7, <2>2 DEF PrepareSocket
    <2> QED  BY <2>1, <2>2
  <1>8. ASSUME NEW a \in Servers, CrashServer(a) PROVE On
    <2>1. identify'[c] = identify[c] \/ identify'[c] = [identify[c] EXCEPT !.pc = "failed"]
      BY <1>8 DEF CrashServer
    <2> QED  BY <1>1, <1>2, <2>1 DEF IdentifyCall
  <1>9. UNCHANGED identify \/ New \/ On
    <2> HIDE DEF New, On
    <2> QED
      BY <1>3, <1>4, <1>5, <1>6, <1>7, <1>8
      DEF RealtimeNext, realtimeVars, IdentifyStep, Connect, CloseWidget, DisconnectStep,
          Disconnect, RemoveSession, SessionTimeout, MessageStep, QueueMessage, WorkerStores,
          SendMessage, LookUpSession, ReplyStep, CommitReply, EmitReply
  <1> QED  BY <1>2, <1>9

\* Overlaps are never forgotten.
LEMMA OverlapGrows ==
    ASSUME [RealtimeNext]_realtimeVars
    PROVE  overlap \subseteq overlap'
  BY DEF RealtimeNext, realtimeVars, IdentifyStep, ExpireIdentified, LookUpVisitor,
         InsertVisitor, PrepareSocket, Identify, Connect, CloseWidget, DisconnectStep,
         Disconnect, RemoveSession, SessionTimeout, MessageStep, QueueMessage, WorkerStores,
         SendMessage, ItemStarts, LookUpSession, ReplyStep, CommitReply, EmitReply, CrashServer

LEMMA HandlerStep ==
    ASSUME RealtimeTypeInv, VisitorInv, [RealtimeNext]_realtimeVars,
           NEW c \in Identifies, HandlerInv(c)
    PROVE  HandlerInv(c)'
  <1> DEFINE x == identify[c]
  <1>1. x \in IdentifyCall /\ identify' \in [Identifies -> IdentifyCall]
    BY RealtimeTypeStep DEF RealtimeTypeInv, RealtimeTypeOK
  <1>2. x'.pc \in {"expiring", "looking", "absent"} => x'.history = {}
    BY HandlerMoves DEF HandlerInv
  <1>3. ASSUME x'.pc \in {"expiring", "looking", "absent", "sending"},
               NEW i \in Items, <<x'.socket, i>> \notin overlap'
        PROVE  /\ i \notin ItemsUnderWay'
               /\ i \in x'.base <=> i \in StoredItems'
               /\ x'.pc = "sending" => (i \in x'.history <=> i \in x'.base)
    <2>1. CASE /\ x'.pc = "expiring"
               /\ x'.base = StoredItems
               /\ \A j \in ItemsUnderWay : <<x'.socket, j>> \in overlap'
               /\ UNCHANGED <<reply, message>>
      <3>1. ItemsUnderWay' = ItemsUnderWay /\ StoredItems' = StoredItems
        BY <2>1 DEF ItemsUnderWay, StoredItems
      <3> QED  BY <1>3, <2>1, <3>1
    <2>2. CASE /\ x.pc \in {"expiring", "looking", "absent", "sending"}
               /\ x'.socket = x.socket /\ x'.base = x.base
               /\ \/ /\ x'.history = x.history
                     /\ x'.pc = "sending" => x.pc = "sending" \/ (x.pc = "absent" /\ ~db.visitor)
                  \/ /\ x'.history = StoredItems
                     /\ UNCHANGED <<reply, message>>
      <3>1. <<x.socket, i>> \notin overlap
        BY <1>3, <2>2, OverlapGrows
      <3>2. i \notin ItemsUnderWay /\ (i \in x.base <=> i \in StoredItems)
        BY <2>2, <3>1 DEF HandlerInv
      <3>3. x.socket \in Sockets
        BY <2>2 DEF RealtimeTypeInv, Named
      <3>4. Identifying(x.socket)
        BY <2>2 DEF Identifying
      <3>5. ~ItemStarts(i)
        BY <1>3, <2>2, <3>3, <3>4 DEF ItemStarts
      <3>6. i \notin ItemsUnderWay' /\ (i \in StoredItems' <=> i \in StoredItems)
        BY <3>2, <3>5, ItemMoves
      <3>7. CASE x'.history = x.history /\ x'.pc = "sending"
                 /\ (x.pc = "sending" \/ (x.pc = "absent" /\ ~db.visitor))
        <4>1. x.pc = "absent" /\ ~db.visitor => StoredItems = {} /\ x.history = {}
          BY DEF VisitorInv, HandlerInv
        <4>2. x.pc = "sending" => (i \in x.history <=> i \in x.base)
          BY <3>1 DEF HandlerInv
        <4> QED  BY <2>2, <3>2, <3>6, <3>7, <4>1, <4>2
      <3>8. CASE x'.history = StoredItems
        BY <2>2, <3>2, <3>6, <3>8
      <3> QED  BY <2>2, <3>2, <3>6, <3>7, <3>8
    <2> QED  BY <1>3, <2>1, <2>2, HandlerMoves
  <1> QED  BY <1>2, <1>3 DEF HandlerInv

LEMMA TargetStep ==
    ASSUME RealtimeTypeInv, TargetInv, [RealtimeNext]_realtimeVars
    PROVE  TargetInv'
  <1>1. \A s \in Sockets : socket[s] # "new" => socket'[s] # "new"
    BY DEF RealtimeNext, realtimeVars, IdentifyStep, ExpireIdentified, LookUpVisitor,
           InsertVisitor, PrepareSocket, Identify, Connect, CloseWidget, DisconnectStep,
           Disconnect, RemoveSession, SessionTimeout, MessageStep, QueueMessage, WorkerStores,
           SendMessage, LookUpSession, ReplyStep, CommitReply, EmitReply, CrashServer,
           RealtimeTypeInv, RealtimeTypeOK
  <1>2. /\ session \in Session
        /\ \A r \in Replies : reply[r] \in ReplyCall
        /\ reply \in [Replies -> ReplyCall]
    BY DEF RealtimeTypeInv, RealtimeTypeOK
  <1>3. \/ session' = NoSession
        \/ session # NoSession /\ session'.socket = session.socket
        \/ \E s \in Sockets : session' = SetTo(s) /\ socket[s] = "open"
    <2>1. \/ session' \in {session, Expired, NoSession}
          \/ \E s \in Sockets : session' = SetTo(s) /\ socket[s] = "open"
      BY DEF RealtimeNext, realtimeVars, IdentifyStep, ExpireIdentified, LookUpVisitor,
             InsertVisitor, PrepareSocket, Identify, Connect, CloseWidget, DisconnectStep,
             Disconnect, RemoveSession, SessionTimeout, MessageStep, QueueMessage,
             WorkerStores, SendMessage, LookUpSession, ReplyStep, CommitReply, EmitReply,
             CrashServer
    <2> QED  BY <1>2, <2>1 DEF Expired, Session
  <1>4. ASSUME session' # NoSession
        PROVE  session'.socket \in Sockets /\ socket'[session'.socket] # "new"
    BY <1>1, <1>3, <1>4 DEF SetTo, TargetInv
  <1>5. ASSUME NEW r \in Replies
        PROVE  \/ reply'[r].target = reply[r].target
               \/ reply'[r].target = session.socket /\ session # NoSession
               \/ reply'[r].target = NoSocket
    <2>1. ASSUME NEW q \in Replies, LookUpSession(q)
          PROVE  reply'[r].target \in {reply[r].target, session.socket}
      BY <1>2, <2>1 DEF LookUpSession
    <2>2. session.socket = NoSocket \/ session # NoSession
      BY DEF NoSession
    <2>3. ASSUME NEW q \in Replies, ReplyStep(q) PROVE reply'[r].target = reply[r].target
      <3>1. PICK pc \in {"stored", "lost", "done"} :
               reply' = [reply EXCEPT ![q] = [reply[q] EXCEPT !.pc = pc]]
        BY <1>2, <2>3 DEF ReplyStep, CommitReply, EmitReply, Emitted
      <3> QED  BY <1>2, <3>1 DEF ReplyCall
    <2>4. ASSUME NEW a \in Servers, CrashServer(a) PROVE reply'[r].target = reply[r].target
      <3>1. reply'[r] = reply[r] \/ \E pc : reply'[r] = [reply[r] EXCEPT !.pc = pc]
        BY <2>4 DEF CrashServer
      <3> QED  BY <1>2, <3>1 DEF ReplyCall
    <2>5. UNCHANGED reply \/ reply'[r].target \in {reply[r].target, session.socket}
      BY <2>1, <2>3, <2>4
      DEF RealtimeNext, realtimeVars, IdentifyStep, ExpireIdentified, LookUpVisitor,
          InsertVisitor, PrepareSocket, Identify, Connect, CloseWidget, DisconnectStep,
          Disconnect, RemoveSession, SessionTimeout, MessageStep, QueueMessage, WorkerStores,
          SendMessage
    <2> QED  BY <2>2, <2>5
  <1>6. \A r \in Replies : reply[r].target \in Sockets \union {NoSocket}
    BY <1>2 DEF ReplyCall
  <1> QED  BY <1>1, <1>4, <1>5, <1>6 DEF TargetInv

LEMMA VisitorStep ==
    ASSUME RealtimeTypeInv, VisitorInv, [RealtimeNext]_realtimeVars
    PROVE  VisitorInv'
  <1>1. /\ db \in [visitor : BOOLEAN, conversation : BOOLEAN]
        /\ identify \in [Identifies -> IdentifyCall]
    BY DEF RealtimeTypeInv, RealtimeTypeOK
  <1>2. \/ UNCHANGED db
        \/ db' = [db EXCEPT !.visitor = TRUE]
        \/ db' = [db EXCEPT !.conversation = TRUE] /\ ItemsUnderWay # {}
    BY DEF RealtimeNext, realtimeVars, IdentifyStep, ExpireIdentified, LookUpVisitor,
           InsertVisitor, PrepareSocket, Identify, Connect, CloseWidget, DisconnectStep,
           Disconnect, RemoveSession, SessionTimeout, MessageStep, QueueMessage, WorkerStores,
           SendMessage, LookUpSession, ReplyStep, CommitReply, EmitReply, CrashServer,
           ItemsUnderWay
  <1>3. /\ db'.conversation => db'.visitor
        /\ db.visitor => db'.visitor
    BY <1>1, <1>2 DEF VisitorInv
  <1>4. ASSUME ~db.visitor, ~db'.visitor
        PROVE  /\ known' = {} /\ StoredItems' = {} /\ ItemsUnderWay' = {}
               /\ \A c \in Identifies : identify'[c].pc \notin {"sending", "sent"}
    <2>1. /\ known = {} /\ StoredItems = {} /\ ItemsUnderWay = {} /\ ~db.conversation
          /\ \A c \in Identifies : identify[c].pc \notin {"sending", "sent"}
      BY <1>4 DEF VisitorInv
    <2>2. \A c \in Identifies : ~InsertVisitor(c) /\ ~PrepareSocket(c)
      BY <1>1, <1>4, <2>1 DEF InsertVisitor, PrepareSocket
    <2>3. ASSUME NEW c \in Identifies PROVE identify'[c].pc \notin {"sending", "sent"}
      <3>1. identify[c] \in IdentifyCall
        BY <1>1
      <3>2. ASSUME NEW d \in Identifies, NEW s \in Sockets, Identify(d, s)
            PROVE  identify'[c] = identify[c] \/ identify'[c].pc \in {"expiring", "failed"}
        BY <1>1, <3>2 DEF Identify
      <3>3. ASSUME NEW d \in Identifies, ExpireIdentified(d) \/ LookUpVisitor(d)
            PROVE  identify'[c] = identify[c] \/ identify'[c].pc \in {"looking", "absent", "failed"}
        <4>1. PICK pc \in {"looking", "absent", "failed"} :
                 identify' = [identify EXCEPT ![d] = [identify[d] EXCEPT !.pc = pc]]
          BY <1>1, <1>4, <3>3 DEF ExpireIdentified, LookUpVisitor
        <4> QED  BY <1>1, <4>1 DEF IdentifyCall
      <3>4. ASSUME NEW a \in Servers, CrashServer(a)
            PROVE  identify'[c] = identify[c] \/ identify'[c].pc = "failed"
        <4>1. identify'[c] = identify[c] \/ identify'[c] = [identify[c] EXCEPT !.pc = "failed"]
          BY <3>4 DEF CrashServer
        <4> QED  BY <3>1, <4>1 DEF IdentifyCall
      <3>5. \/ identify'[c] = identify[c]
            \/ identify'[c].pc \in {"expiring", "looking", "absent", "failed"}
        BY <2>2, <3>2, <3>3, <3>4
        DEF RealtimeNext, realtimeVars, IdentifyStep, Connect, CloseWidget, DisconnectStep,
            Disconnect, RemoveSession, SessionTimeout, MessageStep, QueueMessage,
            WorkerStores, SendMessage, LookUpSession, ReplyStep, CommitReply, EmitReply
      <3> QED  BY <2>1, <3>5
    <2>4. UNCHANGED known
      BY <2>2
      DEF RealtimeNext, realtimeVars, IdentifyStep, ExpireIdentified, LookUpVisitor,
          Identify, Connect, CloseWidget, DisconnectStep, Disconnect, RemoveSession,
          SessionTimeout, MessageStep, QueueMessage, WorkerStores, SendMessage,
          LookUpSession, ReplyStep, CommitReply, EmitReply, CrashServer
    <2>5. ASSUME NEW i \in Items PROVE i \notin StoredItems' /\ i \notin ItemsUnderWay'
      <3>1. \A r \in Replies : ~LookUpSession(r) /\ ~ReplyStep(r)
        BY <2>1 DEF LookUpSession, ReplyStep, CommitReply, EmitReply, ItemsUnderWay
      <3>2. \A m \in VisitorMessages : ~MessageStep(m)
        BY <2>1 DEF MessageStep, QueueMessage, WorkerStores, ItemsUnderWay
      <3>3. ASSUME NEW m \in VisitorMessages, NEW s \in Sockets, SendMessage(m, s)
            PROVE  /\ UNCHANGED reply
                   /\ \A n \in VisitorMessages :
                         message'[n] = message[n] \/ message'[n].pc = "dropped"
        <4>1. message' = [message EXCEPT ![m] = [pc |-> "dropped", sender |-> s]]
          BY <2>1, <3>3 DEF SendMessage
        <4> QED  BY <3>3, <4>1 DEF SendMessage, RealtimeTypeInv, RealtimeTypeOK
      <3>4. ASSUME NEW a \in Servers, CrashServer(a) PROVE UNCHANGED <<reply, message>>
        <4>1. /\ \A m \in VisitorMessages : message'[m] = message[m]
              /\ message' = [m \in VisitorMessages |-> message'[m]]
          BY <2>1, <3>4 DEF CrashServer, ItemsUnderWay
        <4>2. reply' = [r \in Replies |-> reply[r]]
          BY <2>1, <3>4 DEF CrashServer
        <4> QED  BY <4>1, <4>2 DEF RealtimeTypeInv, RealtimeTypeOK
      <3>5. /\ UNCHANGED reply
            /\ \A n \in VisitorMessages :
                  message'[n] = message[n] \/ message'[n].pc = "dropped"
        BY <2>2, <3>1, <3>2, <3>3, <3>4
        DEF RealtimeNext, realtimeVars, IdentifyStep, ExpireIdentified, LookUpVisitor,
            Identify, Connect, CloseWidget, DisconnectStep, Disconnect, RemoveSession,
            SessionTimeout
      <3> QED  BY <2>1, <3>5 DEF StoredItems, ItemsUnderWay
    <2>6. StoredItems' \subseteq Items /\ ItemsUnderWay' \subseteq Items
      BY DEF StoredItems, ItemsUnderWay, Items
    <2> QED  BY <2>1, <2>3, <2>4, <2>5, <2>6
  <1> QED  BY <1>3, <1>4 DEF VisitorInv

\* Nothing that concerns s and i changes.
LEMMA ShownKept ==
    ASSUME NEW s \in Sockets, NEW i \in Items, ShownAt(s, i),
           base'[s] = base[s], shown'[s][i] = shown[s][i],
           i \in Replies => reply'[i] = reply[i],
           i \in VisitorMessages => message'[i] = message[i],
           socket'[s] = "open" => socket[s] = "open"
    PROVE  ShownAt(s, i)'
  <1>1. (i \in StoredItems' <=> i \in StoredItems) /\ (i \in ItemsUnderWay' <=> i \in ItemsUnderWay)
    BY RealtimeAssumption DEF RealtimeAssumption, Items, StoredItems, ItemsUnderWay
  <1> QED  BY <1>1 DEF ShownAt

LEMMA ShownStep ==
    ASSUME RealtimeTypeInv, OnceInv, [RealtimeNext]_realtimeVars,
           NEW s \in Sockets, NEW i \in Items, <<s, i>> \notin overlap'
    PROVE  ShownAt(s, i)'
  <1>1. <<s, i>> \notin overlap /\ ShownAt(s, i)
    BY OverlapGrows DEF OnceInv
  <1>2. /\ shown \in [Sockets -> [Items -> 0..2]]
        /\ base \in [Sockets -> SUBSET Items]
        /\ socket \in [Sockets -> {"new", "open", "gone", "closed"}]
        /\ reply \in [Replies -> ReplyCall]
        /\ message \in [VisitorMessages -> MessageCall]
    BY DEF RealtimeTypeInv, RealtimeTypeOK
  <1>3. /\ i \in Replies => i \notin VisitorMessages
        /\ i \in Replies => /\ i \in StoredItems' <=> reply'[i].pc \in {"stored", "done", "kept"}
                            /\ i \in ItemsUnderWay' <=> reply'[i].pc \in {"looked", "stored"}
        /\ i \notin Replies =>
              /\ i \in StoredItems' <=> message'[i].pc = "stored"
              /\ i \in ItemsUnderWay' <=> message'[i].pc \in {"expiring", "queued"}
    BY RealtimeAssumption DEF RealtimeAssumption, Items, StoredItems, ItemsUnderWay
  <1>4. ASSUME UNCHANGED <<shown, base, reply, message>>, socket'[s] = "open" => socket[s] = "open"
        PROVE  ShownAt(s, i)'
    BY <1>1, <1>4, ShownKept
  <1>5. ASSUME NEW c \in Identifies, PrepareSocket(c) PROVE ShownAt(s, i)'
    <2>1. UNCHANGED <<socket, reply, message>> /\ identify[c].socket \in Sockets
      BY <1>5 DEF PrepareSocket, RealtimeTypeInv, Named
    <2>2. CASE UNCHANGED <<shown, base>>
      BY <1>4, <2>1, <2>2
    <2>3. CASE /\ shown' = [shown EXCEPT ![identify[c].socket] = History(identify[c].history)]
               /\ base' = [base EXCEPT ![identify[c].socket] = identify[c].base]
      <3>1. CASE s = identify[c].socket
        <4>1. /\ i \notin ItemsUnderWay
              /\ i \in identify[c].base <=> i \in StoredItems
              /\ i \in identify[c].history <=> i \in identify[c].base
          BY <1>1, <1>5, <3>1 DEF PrepareSocket, OnceInv, HandlerInv
        <4>2. /\ base'[s] = identify[c].base
              /\ shown'[s][i] = IF i \in StoredItems THEN 1 ELSE 0
          BY <1>2, <2>3, <3>1, <4>1 DEF History
        <4>3. (i \in StoredItems' <=> i \in StoredItems) /\ i \notin ItemsUnderWay'
          BY <2>1, <4>1 DEF StoredItems, ItemsUnderWay
        <4> QED  BY <1>3, <2>1, <4>1, <4>2, <4>3, ItemFacts DEF ShownAt
      <3>2. CASE s # identify[c].socket
        BY <1>1, <1>2, <2>1, <2>3, <3>2, ShownKept
      <3> QED  BY <3>1, <3>2
    <2> QED  BY <1>5, <2>2, <2>3 DEF PrepareSocket
  <1>6. ASSUME NEW m \in VisitorMessages, NEW t \in Sockets, SendMessage(m, t)
        PROVE  ShownAt(s, i)'
    <2>1. /\ shown' = [shown EXCEPT ![t][m] = 1]
          /\ UNCHANGED <<base, reply, socket>>
          /\ message[m].pc = "unsent"
          /\ \E pc \in {"expiring", "dropped"} :
                message' = [message EXCEPT ![m] = [pc |-> pc, sender |-> t]]
      BY <1>6 DEF SendMessage
    <2>2. CASE i # m
      <3>1. shown'[s][i] = shown[s][i] /\ (i \in VisitorMessages => message'[i] = message[i])
        BY <1>2, <2>1, <2>2
      <3> QED  BY <1>1, <2>1, <3>1, ShownKept
    <2>3. CASE i = m
      <3>1. i \notin Replies /\ message'[i].sender = t /\ (s = t => shown'[s][i] = 1)
        BY <1>2, <1>3, <2>1, <2>3
      <3>2. i \notin base'[s]
        BY <1>1, <2>1, <2>3, <3>1, ItemFacts DEF ShownAt
      <3> QED  BY <3>1, <3>2 DEF ShownAt
    <2> QED  BY <2>2, <2>3
  <1>7. ASSUME NEW m \in VisitorMessages, MessageStep(m) PROVE ShownAt(s, i)'
    <2>1. /\ UNCHANGED <<shown, base, reply, socket>>
          /\ message[m].pc \in {"expiring", "queued"}
          /\ \E pc \in {"queued", "stored", "dropped"} : message' = [message EXCEPT ![m].pc = pc]
      BY <1>7 DEF MessageStep, QueueMessage, WorkerStores
    <2>2. CASE i # m
      <3>1. i \in VisitorMessages => message'[i] = message[i]
        BY <1>2, <2>1, <2>2
      <3> QED  BY <1>1, <2>1, <3>1, ShownKept
    <2>3. CASE i = m
      <3>1. i \notin Replies /\ message'[i].sender = message[i].sender
        BY <1>2, <1>3, <2>1, <2>3 DEF MessageCall
      <3>2. i \notin base'[s]
        BY <1>1, <2>1, <2>3, <3>1, ItemFacts DEF ShownAt
      <3>3. message[i].sender = s => shown[s][i] = 1
        BY <1>1, <2>1, <2>3 DEF ShownAt
      <3> QED  BY <2>1, <3>1, <3>2, <3>3 DEF ShownAt
    <2> QED  BY <2>2, <2>3
  <1>8. ASSUME NEW r \in Replies, LookUpSession(r) \/ CommitReply(r) PROVE ShownAt(s, i)'
    <2>1. /\ UNCHANGED <<shown, base, message, socket>>
          /\ reply[r].pc \in {"unsent", "looked"}
          /\ reply'[r].pc \in {"looked", "stored", "lost"}
          /\ \A q \in Replies \ {r} : reply'[q] = reply[q]
      BY <1>2, <1>8 DEF LookUpSession, CommitReply, ReplyCall
    <2>2. CASE i # r
      BY <1>1, <2>1, <2>2, ShownKept
    <2>3. CASE i = r
      <3>1. i \notin base'[s]
        BY <1>1, <2>1, <2>3, ItemFacts DEF ShownAt
      <3>2. shown'[s][i] = 0
        BY <1>1, <2>1, <2>3 DEF ShownAt
      <3> QED  BY <1>3, <2>1, <2>3, <3>1, <3>2 DEF ShownAt
    <2> QED  BY <2>2, <2>3
  <1>9. ASSUME NEW r \in Replies, EmitReply(r) PROVE ShownAt(s, i)'
    <2>1. /\ UNCHANGED <<base, message, socket>>
          /\ reply[r].pc = "stored"
          /\ reply'[r].pc = "done" /\ reply'[r].target = reply[r].target
          /\ \A q \in Replies \ {r} : reply'[q] = reply[q]
      BY <1>2, <1>9 DEF EmitReply, Emitted, ReplyCall
    <2>2. /\ \A q \in Items \ {r} : shown'[s][q] = shown[s][q]
          /\ reply[r].target = s /\ socket[s] = "open" => shown'[s][r] = shown[s][r] + 1
      <3>1. r \in Items /\ NoSocket \notin Sockets
        BY RealtimeAssumption DEF RealtimeAssumption, Items
      <3>2. reply[r].target \in Sockets \union {NoSocket}
        BY <1>2 DEF ReplyCall
      <3> QED  BY <1>2, <1>9, <3>1, <3>2 DEF EmitReply
    <2>3. CASE i # r
      BY <1>1, <2>1, <2>2, <2>3, ShownKept
    <2>4. CASE i = r
      <3>1. i \notin base'[s] /\ shown[s][i] = 0
        BY <1>1, <2>1, <2>4, ItemFacts DEF ShownAt
      <3> QED  BY <1>3, <2>1, <2>2, <2>4, <3>1 DEF ShownAt
    <2> QED  BY <2>3, <2>4
  <1>10. ASSUME Connect(s) PROVE ShownAt(s, i)'
    <2>1. UNCHANGED <<shown, base, reply, message>> /\ socket[s] = "new"
      BY <1>10 DEF Connect
    <2>2. s # NoSocket
      BY RealtimeAssumption DEF RealtimeAssumption
    <2>3. i \in Replies => reply[i].target # s
      BY <2>1, <2>2 DEF OnceInv, TargetInv
    <2>4. (i \in StoredItems' <=> i \in StoredItems)
          /\ (i \in ItemsUnderWay' <=> i \in ItemsUnderWay)
      BY <2>1 DEF StoredItems, ItemsUnderWay
    <2> QED  BY <1>1, <2>1, <2>3, <2>4 DEF ShownAt
  <1>11. ASSUME NEW a \in Servers, CrashServer(a) PROVE ShownAt(s, i)'
    <2>1. UNCHANGED <<shown, base>> /\ (socket'[s] = "open" => socket[s] = "open")
      BY <1>11 DEF CrashServer
    <2>2. CASE i \in Replies
      <3>1. PICK handled \in SUBSET (ItemsUnderWay \intersect Replies) :
               reply' = [r \in Replies |->
                  IF r \notin handled THEN reply[r]
                  ELSE [reply[r] EXCEPT !.pc = IF @ = "looked" THEN "lost" ELSE "kept"]]
        BY <1>11 DEF CrashServer
      <3>2. CASE i \notin handled
        <4>1. reply'[i] = reply[i]
          BY <2>2, <3>1, <3>2
        <4> QED  BY <1>1, <1>3, <2>1, <2>2, <4>1, ShownKept
      <3>3. CASE i \in handled
        <4>1. i \in ItemsUnderWay /\ i \notin base'[s]
          BY <1>1, <2>1, <3>3 DEF ShownAt
        <4>2. reply'[i].pc \in {"lost", "kept"}
          BY <1>2, <2>2, <3>1, <3>3 DEF ReplyCall
        <4> QED  BY <1>3, <2>2, <4>1, <4>2 DEF ShownAt
      <3> QED  BY <3>2, <3>3
    <2>3. CASE i \notin Replies
      <3>1. i \in VisitorMessages
        BY <2>3, ItemFacts
      <3>2. CASE message'[i] = message[i]
        BY <1>1, <2>1, <2>3, <3>2, ShownKept
      <3>3. CASE message[i].pc = "expiring" /\ message'[i] = [message[i] EXCEPT !.pc = "dropped"]
        <4>1. message'[i].pc = "dropped"
          BY <1>2, <3>1, <3>3 DEF MessageCall
        <4>2. i \notin base'[s]
          BY <1>1, <2>1, <2>3, <3>3, ItemFacts DEF ShownAt
        <4> QED  BY <2>3, <4>1, <4>2 DEF ShownAt
      <3> QED  BY <1>11, <3>1, <3>2, <3>3 DEF CrashServer
    <2> QED  BY <2>2, <2>3
  <1>12. \/ UNCHANGED <<shown, base, reply, message>> /\ (socket'[s] = "open" => socket[s] = "open")
         \/ ShownAt(s, i)'
    <2>1. \A t \in Sockets : t # s /\ Connect(t) => socket'[s] = socket[s]
      BY <1>2 DEF Connect
    <2>2. \A t \in Sockets : CloseWidget(t) \/ Disconnect(t) => (socket'[s] = "open" => socket[s] = "open")
      BY <1>2 DEF CloseWidget, Disconnect
    <2> QED
      BY <1>5, <1>6, <1>7, <1>8, <1>9, <1>10, <1>11, <2>1, <2>2
      DEF RealtimeNext, realtimeVars, IdentifyStep, ExpireIdentified, LookUpVisitor,
          InsertVisitor, Identify, Connect, CloseWidget, DisconnectStep, Disconnect,
          RemoveSession, SessionTimeout, ReplyStep
  <1> QED  BY <1>4, <1>12

LEMMA OnceStep ==
    RealtimeTypeInv /\ OnceInv /\ [RealtimeNext]_realtimeVars => OnceInv'
  <1> SUFFICES ASSUME RealtimeTypeInv, OnceInv, [RealtimeNext]_realtimeVars PROVE OnceInv'
    OBVIOUS
  <1>1. VisitorInv' /\ TargetInv'
    BY VisitorStep, TargetStep DEF OnceInv
  <1>2. ASSUME NEW c \in Identifies PROVE HandlerInv(c)'
    BY HandlerStep DEF OnceInv
  <1>3. ASSUME NEW s \in Sockets, NEW i \in Items, <<s, i>> \notin overlap' PROVE ShownAt(s, i)'
    BY <1>3, ShownStep
  <1> QED  BY <1>1, <1>2, <1>3 DEF OnceInv

\* A widget shows every item exactly once that was stored before its last identify or was
\* sent to it since, unless it was on its way while the socket identified.
THEOREM ItemsShownOnce == RealtimeSpec => []ShownOnce
  <1>1. RealtimeTypeInv /\ OnceInv => ShownOnce
    <2> SUFFICES ASSUME RealtimeTypeInv, OnceInv, NEW s \in known, NEW i \in Items,
                        socket[s] = "open", <<s, i>> \notin overlap,
                        i \in base[s] \/ (Finished(i) /\ Target(i) = s)
                 PROVE  shown[s][i] = 1
      BY DEF ShownOnce
    <2>1. s \in Sockets /\ ShownAt(s, i)
      BY DEF RealtimeTypeInv, RealtimeTypeOK, OnceInv
    <2> QED  BY <2>1, ItemFacts DEF ShownAt, Finished, Target
  <1> QED
    BY <1>1, OnceInit, OnceStep, RealtimeTypeInvariant, PTL DEF RealtimeSpec

-----------------------------------------------------------------------------
(* Types of a widget's messages *)

\* A handler that runs has a connection, and so has every connection with a name.
LineInv ==
    /\ \A i \in IdentifyEvents : identified[i].pc # "unused" => identified[i].line \in 1 .. line
    /\ uids \subseteq 1 .. line
    /\ \A n \in Lines : reach[n] # "new" => n <= line
    /\ \A n \in removing : reach[n] = "ended"

LEMMA LineFacts ==
    ASSUME WidgetTypeOK
    PROVE  /\ LastLine \in Nat /\ line \in Nat /\ line <= LastLine
           /\ Lines \subseteq Nat /\ IdentifyEvents \subseteq Nat
           /\ line # 0 => line \in Lines
           /\ line < LastLine => line + 1 \in Lines
           /\ \A n \in Lines : n # 0
           /\ \A n \in 0 .. LastLine : n # 0 => n \in Lines
           /\ \A i \in IdentifyEvents : identified[i] \in IdentifyHandler
  <1>1. LastLine \in Nat
    BY WidgetAssumption DEF WidgetAssumption
  <1> QED  BY <1>1, WidgetAssumption DEF WidgetAssumption, WidgetTypeOK, Lines, IdentifyEvents

LEMMA IdentifyFacts ==
    ASSUME WidgetTypeOK, NEW n \in Lines, IdentifyOn(n)
    PROVE  /\ identified' \in [IdentifyEvents -> IdentifyHandler]
           /\ routed' = n
           /\ \A i \in IdentifyEvents :
                 \/ identified'[i] = identified[i]
                 \/ identified'[i].pc = "reading" /\ identified'[i].line = n
  <1>1. PICK i \in IdentifyEvents :
           /\ identified' = [identified EXCEPT ![i].pc = "reading", ![i].line = n]
           /\ routed' = n
    BY DEF IdentifyOn
  <1>2. identified[i] \in IdentifyHandler
    BY LineFacts
  <1>3. n \in 0 .. LastLine
    BY LineFacts DEF Lines
  <1> DEFINE x == [identified[i] EXCEPT !.pc = "reading", !.line = n]
  <1>4. x \in IdentifyHandler /\ x.pc = "reading" /\ x.line = n
    BY <1>2, <1>3 DEF IdentifyHandler
  <1>5. identified' = [identified EXCEPT ![i] = x]
    BY <1>1 DEF WidgetTypeOK
  <1> HIDE DEF x
  <1> QED  BY <1>1, <1>4, <1>5 DEF WidgetTypeOK

LEMMA HandlerFacts ==
    ASSUME WidgetTypeOK, NEW i \in IdentifyEvents, ReadHistory(i) \/ LoadHistory(i)
    PROVE  /\ identified' \in [IdentifyEvents -> IdentifyHandler]
           /\ \A j \in IdentifyEvents : identified'[j].line = identified[j].line
           /\ \A j \in IdentifyEvents : identified'[j].pc # "unused" <=> identified[j].pc # "unused"
  <1> DEFINE h == {m \in Posts : post[m] \in {"stored", "told"}}
             x == [identified[i] EXCEPT !.pc = "read", !.history = h]
             y == [identified[i] EXCEPT !.pc = "done"]
  <1>1. identified[i] \in IdentifyHandler /\ h \subseteq Posts
    BY LineFacts
  <1>2. /\ x \in IdentifyHandler /\ x.pc = "read" /\ x.line = identified[i].line
        /\ y \in IdentifyHandler /\ y.pc = "done" /\ y.line = identified[i].line
    BY <1>1 DEF IdentifyHandler
  <1>3. /\ identified[i].pc # "unused"
        /\ identified' = [identified EXCEPT ![i] = x] \/ identified' = [identified EXCEPT ![i] = y]
    BY DEF ReadHistory, LoadHistory, WidgetTypeOK
  <1> HIDE DEF x, y
  <1> QED  BY <1>2, <1>3 DEF WidgetTypeOK

LEMMA WidgetTypeInit ==
    WidgetInit => WidgetTypeOK /\ LineInv
  <1> SUFFICES ASSUME WidgetInit PROVE WidgetTypeOK /\ LineInv
    OBVIOUS
  <1>1. LastLine \in Nat
    BY WidgetAssumption DEF WidgetAssumption
  <1>2. [pc |-> "unused", line |-> 0, history |-> {}] \in IdentifyHandler
    BY <1>1 DEF IdentifyHandler
  <1>3. WidgetTypeOK
    <2>1. line \in 0 .. LastLine /\ routed \in 0 .. LastLine
      BY <1>1 DEF WidgetInit
    <2>2. identified \in [IdentifyEvents -> IdentifyHandler]
      BY <1>2 DEF WidgetInit
    <2> QED  BY <2>1, <2>2 DEF WidgetInit, WidgetTypeOK
  <1> QED  BY <1>3 DEF WidgetInit, LineInv

LEMMA WidgetTypeStep ==
    WidgetTypeOK /\ LineInv /\ [WidgetNext]_widgetVars => WidgetTypeOK' /\ LineInv'
  <1> SUFFICES ASSUME WidgetTypeOK, LineInv, [WidgetNext]_widgetVars
               PROVE  WidgetTypeOK' /\ LineInv'
    OBVIOUS
  <1>1. CASE UNCHANGED widgetVars
    BY <1>1 DEF widgetVars, WidgetTypeOK, LineInv
  <1>2. CASE ConnectWidget
    <2>1. line + 1 \in Lines /\ line' = line + 1
      BY <1>2, LineFacts DEF ConnectWidget
    <2>2. /\ identified' \in [IdentifyEvents -> IdentifyHandler]
          /\ routed' \in 0 .. LastLine
          /\ \A i \in IdentifyEvents :
                 \/ identified'[i] = identified[i]
                 \/ identified'[i].line = line + 1
      <3>1. CASE isWindowOpen
        <4>1. IdentifyOn(line + 1)
          BY <1>2, <3>1 DEF ConnectWidget
        <4> QED  BY <2>1, <4>1, IdentifyFacts, LineFacts DEF Lines
      <3>2. CASE ~isWindowOpen
        BY <1>2, <3>2 DEF ConnectWidget, WidgetTypeOK
      <3> QED  BY <3>1, <3>2
    <2>3. WidgetTypeOK'
      BY <1>2, <2>1, <2>2 DEF ConnectWidget, WidgetTypeOK, Lines
    <2>4. \A i \in IdentifyEvents : identified'[i].pc # "unused" => identified'[i].line \in 1 .. line'
      BY <2>1, <2>2, LineFacts DEF LineInv
    <2>5. uids' \subseteq 1 .. line'
      BY <1>2, <2>1, LineFacts DEF LineInv, ConnectWidget
    <2>6. \A n \in removing' : reach'[n] = "ended"
      <3>1. ASSUME NEW n \in removing PROVE reach'[n] = "ended"
        <4>1. n \in Lines /\ reach[n] = "ended" /\ n <= line
          BY DEF LineInv, WidgetTypeOK
        <4>2. n # line + 1
          BY <4>1, LineFacts
        <4> QED  BY <1>2, <4>1, <4>2 DEF ConnectWidget, WidgetTypeOK
      <3> QED  BY <1>2, <3>1 DEF ConnectWidget
    <2>7. \A n \in Lines : reach'[n] # "new" => n <= line'
      BY <1>2, <2>1, LineFacts DEF ConnectWidget, LineInv, WidgetTypeOK
    <2> QED  BY <2>3, <2>4, <2>5, <2>6, <2>7 DEF LineInv
  <1>3. CASE ToggleWindow
    <2>1. /\ identified' \in [IdentifyEvents -> IdentifyHandler]
          /\ routed' \in 0 .. LastLine
          /\ \A i \in IdentifyEvents :
                 \/ identified'[i] = identified[i]
                 \/ line # 0 /\ identified'[i].line = line
      <3>1. CASE line # 0 /\ IdentifyOn(line)
        BY <3>1, IdentifyFacts, LineFacts DEF Lines
      <3>2. CASE UNCHANGED <<identified, routed>>
        BY <3>2 DEF WidgetTypeOK
      <3> QED  BY <1>3, <3>1, <3>2 DEF ToggleWindow
    <2>2. isWindowOpen' \in BOOLEAN
      BY <1>3 DEF ToggleWindow, WidgetTypeOK
    <2>3. /\ UNCHANGED <<line, connectionStatus, reach, shownAs, post, uids, removing, telling,
                          erased, missed>>
      BY <1>3 DEF ToggleWindow
    <2>4. WidgetTypeOK'
      BY <2>1, <2>2, <2>3 DEF WidgetTypeOK
    <2> QED  BY <2>1, <2>3, <2>4, LineFacts DEF LineInv
  <1>4. CASE LoseLine
    BY <1>4, LineFacts DEF LoseLine, WidgetTypeOK, LineInv
  <1>5. CASE NoticeLoss
    BY <1>5 DEF NoticeLoss, WidgetTypeOK, LineInv
  <1>6. ASSUME NEW n \in Lines, EndLine(n) PROVE WidgetTypeOK' /\ LineInv'
    BY <1>6 DEF EndLine, WidgetTypeOK, LineInv
  <1>7. ASSUME NEW n \in Lines, DeleteRoute(n) PROVE WidgetTypeOK' /\ LineInv'
    BY <1>7, LineFacts DEF DeleteRoute, WidgetTypeOK, LineInv
  <1>8. ASSUME NEW m \in Posts, AddMessage(m) PROVE WidgetTypeOK' /\ LineInv'
    <2>1. routed' \in 0 .. LastLine
      BY <1>8, LineFacts DEF AddMessage, Rerouted, WidgetTypeOK
    <2> QED  BY <1>8, <2>1 DEF AddMessage, WidgetTypeOK, LineInv
  <1>9. ASSUME NEW m \in Posts, StorePost(m) PROVE WidgetTypeOK' /\ LineInv'
    BY <1>9 DEF StorePost, WidgetTypeOK, LineInv
  <1>10. ASSUME NEW m \in Posts, TellVisitor(m) PROVE WidgetTypeOK' /\ LineInv'
    <2>1. telling' \subseteq Posts \X Lines
      BY <1>10, LineFacts DEF TellVisitor, WidgetTypeOK
    <2> QED  BY <1>10, <2>1 DEF TellVisitor, WidgetTypeOK, LineInv
  <1>11. ASSUME NEW m \in Posts, NEW n \in Lines, FinalizeMessage(m, n)
         PROVE  WidgetTypeOK' /\ LineInv'
    BY <1>11 DEF FinalizeMessage, WidgetTypeOK, LineInv
  <1>12. ASSUME NEW i \in IdentifyEvents, ReadHistory(i) PROVE WidgetTypeOK' /\ LineInv'
    BY <1>12, HandlerFacts DEF ReadHistory, WidgetTypeOK, LineInv
  <1>13. ASSUME NEW i \in IdentifyEvents, LoadHistory(i) PROVE WidgetTypeOK' /\ LineInv'
    <2>1. /\ identified' \in [IdentifyEvents -> IdentifyHandler]
          /\ \A j \in IdentifyEvents :
                identified'[j].pc # "unused" => identified'[j].line \in 1 .. line
      BY <1>13, HandlerFacts DEF LineInv
    <2>2. identified[i].line \in 1 .. line /\ identified[i].line \in Lines
      BY <1>13, LineFacts DEF LoadHistory, LineInv, Lines
    <2>3. uids' \subseteq 1 .. line /\ uids' \subseteq Lines
      BY <1>13, <2>2 DEF LoadHistory, LineInv, WidgetTypeOK
    <2>4. /\ shownAs' \in [Posts -> {"absent", "sending", "sent"}]
          /\ erased' \subseteq Posts /\ missed' \subseteq Posts
      BY <1>13 DEF LoadHistory, WidgetTypeOK
    <2>5. UNCHANGED <<line, connectionStatus, reach, isWindowOpen, post, routed, removing, telling>>
      BY <1>13 DEF LoadHistory
    <2> QED  BY <2>1, <2>3, <2>4, <2>5 DEF WidgetTypeOK, LineInv
  <1> QED
    BY <1>1, <1>2, <1>3, <1>4, <1>5, <1>6, <1>7, <1>8, <1>9, <1>10, <1>11, <1>12, <1>13
    DEF WidgetNext

\* Connections, handlers and messages keep their types.
THEOREM WidgetTypeCorrect == WidgetSpec => []WidgetTypeOK
  BY WidgetTypeInit, WidgetTypeStep, PTL DEF WidgetSpec

-----------------------------------------------------------------------------
(* Stored messages are shown as sent *)

\* The widget shows the message as sent, or it was replaced or missed; or the answer is
\* still to come, on this very connection.
Answered(m) ==
    \/ m \in erased \union missed
    \/ shownAs[m] = "sent"
    \/ /\ shownAs[m] = "sending"
       /\ \/ post[m] \in {"queued", "stored"} /\ routed = line
          \/ post[m] = "told" /\ <<m, line>> \in telling

\* While the visitor is named on the connection the widget hears, every message that got
\* through is answered.
AnswerInv ==
    line \in uids /\ Hears(line) =>
        \A m \in Posts : post[m] \in {"queued", "stored", "told"} => Answered(m)

LEMMA AnswerStep ==
    WidgetTypeOK /\ LineInv /\ AnswerInv /\ [WidgetNext]_widgetVars => AnswerInv'
  <1> SUFFICES ASSUME WidgetTypeOK, LineInv, AnswerInv, [WidgetNext]_widgetVars,
                      line' \in uids', Hears(line)',
                      NEW m \in Posts, post'[m] \in {"queued", "stored", "told"}
               PROVE  Answered(m)'
    BY DEF AnswerInv, Answered
  <1>0. line' \in Lines
    BY WidgetTypeStep DEF WidgetTypeOK
  <1>1. ASSUME line \in uids, Hears(line), post[m] \in {"queued", "stored", "told"}
        PROVE  Answered(m)
    BY <1>1 DEF AnswerInv, Answered
  <1>2. ASSUME UNCHANGED <<line, connectionStatus, reach, uids, routed, post, shownAs, telling,
                           erased, missed>>
        PROVE  Answered(m)'
    BY <1>1, <1>2 DEF Hears, Answered
  <1>3. CASE UNCHANGED widgetVars \/ (\E i \in IdentifyEvents : ReadHistory(i))
    BY <1>2, <1>3 DEF widgetVars, ReadHistory
  <1>4. CASE ConnectWidget
    <2>1. line + 1 \notin uids
      BY LineFacts DEF LineInv
    <2> QED  BY <1>4, <2>1 DEF ConnectWidget
  <1>5. CASE ToggleWindow
    <2>1. UNCHANGED <<line, connectionStatus, reach, uids, post, shownAs, telling, erased, missed>>
      BY <1>5 DEF ToggleWindow
    <2>2. routed' \in {routed, line}
      <3>1. CASE line # 0 /\ IdentifyOn(line)
        BY <3>1, IdentifyFacts, LineFacts
      <3>2. CASE UNCHANGED <<identified, routed>>
        BY <3>2
      <3> QED  BY <1>5, <3>1, <3>2 DEF ToggleWindow
    <2> QED  BY <1>1, <2>1, <2>2 DEF Hears, Answered
  <1>6. CASE LoseLine
    BY <1>6, LineFacts DEF LoseLine, Hears, WidgetTypeOK
  <1>7. CASE NoticeLoss
    BY <1>7 DEF NoticeLoss, Hears
  <1>8. ASSUME NEW n \in Lines, EndLine(n) PROVE Answered(m)'
    <2>1. line # n \/ reach'[line] # "up"
      BY <1>8 DEF EndLine, WidgetTypeOK
    <2> QED  BY <1>1, <1>8, <2>1, <1>0 DEF EndLine, Hears, Answered, WidgetTypeOK
  <1>9. ASSUME NEW n \in Lines, DeleteRoute(n) PROVE Answered(m)'
    <2>1. reach[n] = "ended" /\ UNCHANGED <<line, connectionStatus, reach, uids, post, shownAs,
                                            telling, erased>>
      BY <1>9 DEF DeleteRoute, LineInv
    <2>2. Hears(line) /\ line # n /\ line # 0
      BY <1>0, <2>1, LineFacts DEF Hears
    <2>3. Answered(m)
      BY <1>1, <2>1, <2>2
    <2>4. missed \subseteq missed'
      BY <1>9 DEF DeleteRoute
    <2>5. post[m] \in {"queued", "stored"} /\ routed = line => m \in missed'
      BY <1>9, <2>2 DEF DeleteRoute
    <2> QED  BY <2>1, <2>3, <2>4, <2>5 DEF Answered
  <1>10. ASSUME NEW p \in Posts, AddMessage(p) PROVE Answered(m)'
    <2>1. UNCHANGED <<line, connectionStatus, reach, uids, telling, erased, missed>>
      BY <1>10 DEF AddMessage
    <2>2. Hears(line) /\ line \in uids
      BY <2>1 DEF Hears
    <2>3. /\ routed' = line
          /\ shownAs' = [shownAs EXCEPT ![p] = "sending"] /\ post' = [post EXCEPT ![p] = "queued"]
      BY <1>10, <2>2 DEF AddMessage, Rerouted
    <2> QED  BY <1>1, <2>1, <2>2, <2>3 DEF Answered, WidgetTypeOK
  <1>11. ASSUME NEW p \in Posts, StorePost(p) PROVE Answered(m)'
    <2>1. /\ UNCHANGED <<line, connectionStatus, reach, uids, shownAs, routed, telling, erased, missed>>
          /\ post[p] = "queued" /\ post' = [post EXCEPT ![p] = "stored"]
      BY <1>11 DEF StorePost
    <2> QED  BY <1>1, <2>1 DEF Hears, Answered, WidgetTypeOK
  <1>12. ASSUME NEW p \in Posts, TellVisitor(p) PROVE Answered(m)'
    <2>1. /\ UNCHANGED <<line, connectionStatus, reach, uids, shownAs, routed, erased, missed>>
          /\ post[p] \in {"stored", "told"} /\ post' = [post EXCEPT ![p] = "told"]
          /\ telling \subseteq telling' /\ (routed # 0 => <<p, routed>> \in telling')
      BY <1>12 DEF TellVisitor
    <2>2. line # 0
      BY <1>0, <2>1, LineFacts
    <2> QED  BY <1>1, <2>1, <2>2 DEF Hears, Answered, WidgetTypeOK
  <1>13. ASSUME NEW p \in Posts, NEW n \in Lines, FinalizeMessage(p, n) PROVE Answered(m)'
    <2>1. /\ UNCHANGED <<line, connectionStatus, reach, uids, post, routed, erased, missed>>
          /\ telling' = telling \ {<<p, n>>}
          /\ shownAs' = IF Hears(n) /\ shownAs[p] = "sending"
                        THEN [shownAs EXCEPT ![p] = "sent"] ELSE shownAs
      BY <1>13 DEF FinalizeMessage
    <2>2. Answered(m) /\ Hears(line)
      BY <1>1, <2>1 DEF Hears
    <2>3. CASE p = m /\ n = line
      BY <2>1, <2>2, <2>3 DEF Answered, WidgetTypeOK
    <2>4. CASE ~(p = m /\ n = line)
      <3>1. shownAs'[m] \in {shownAs[m], "sent"}
        BY <2>1 DEF WidgetTypeOK
      <3>2. <<m, line>> \in telling => <<m, line>> \in telling'
        BY <2>1, <2>4
      <3> QED  BY <2>1, <2>2, <3>1, <3>2 DEF Answered
    <2> QED  BY <2>3, <2>4
  <1>14. ASSUME NEW i \in IdentifyEvents, LoadHistory(i) PROVE Answered(m)'
    <2> DEFINE n == identified[i].line
               history == identified[i].history
    <2>1. /\ UNCHANGED <<line, connectionStatus, reach, post, routed, telling>>
          /\ uids' \subseteq uids \union {n}
      BY <1>14 DEF LoadHistory
    <2>2. Hears(line)
      BY <2>1 DEF Hears
    <2>3. CASE Hears(n)
      <3>1. /\ shownAs' = [p \in Posts |-> IF p \in history THEN "sent" ELSE "absent"]
            /\ erased' = (erased \union {p \in Posts : post[p] # "unsent"}) \ history
        BY <1>14, <2>3 DEF LoadHistory
      <3> QED  BY <2>1, <3>1 DEF Answered
    <2>4. CASE ~Hears(n)
      <3>1. UNCHANGED <<shownAs, erased, missed>> /\ n # line
        BY <1>14, <2>2, <2>4 DEF LoadHistory
      <3>2. Answered(m)
        BY <1>1, <2>1, <2>2, <3>1
      <3> QED  BY <2>1, <3>1, <3>2 DEF Answered
    <2> QED  BY <2>3, <2>4
  <1> QED
    BY <1>3, <1>4, <1>5, <1>6, <1>7, <1>8, <1>9, <1>10, <1>11, <1>12, <1>13, <1>14
    DEF WidgetNext

\* At rest every stored message is shown as sent, for any messages, connections and
\* identifies (StoredIsShownAsSent).
THEOREM MessagesShownAsSent == WidgetSpec => []StoredIsShownAsSent
  <1>1. WidgetInit => AnswerInv
    BY DEF WidgetInit, AnswerInv
  <1>2. AnswerInv => StoredIsShownAsSent
    BY DEF AnswerInv, Answered, StoredIsShownAsSent, AtRest
  <1> QED
    BY <1>1, <1>2, AnswerStep, WidgetTypeInit, WidgetTypeStep, PTL DEF WidgetSpec

=============================================================================
