----------------------------- MODULE DeskProofs -----------------------------
(***************************************************************************)
(* What the visitor lock guarantees, for every workflow and any number of   *)
(* messages and pages; what an agent's pane shows, for any number of        *)
(* replies, messages and pages of them; the room of an agent's socket, for  *)
(* any number of projects, tokens and events; and that the parts of MCDesk  *)
(* behave one beside the other as each does alone.                          *)
(***************************************************************************)
EXTENDS MCDesk, FormRequestsProofs, ConnectionProofs, SequenceTheorems, TLAPS

-----------------------------------------------------------------------------
(* The visitor lock *)

\* The first matching edge ends at a node.
LEMMA NextNodeType ==
    ASSUME NEW n, NEW handles
    PROVE  NextNode(n, handles) \in Nodes \union {NoNode}
<1>1. \A i \in DOMAIN Edges : Edges[i].target \in Nodes
  <2> DEFINE ToNode == [source : Nodes, handle : Handles, target : Nodes]
  <2>1. Edges \in Seq(ToNode)
    BY AiAssumption DEF AiAssumption
  <2>2. \A e \in ToNode : e.target \in Nodes
    OBVIOUS
  <2> HIDE DEF ToNode
  <2>3. \A i \in DOMAIN Edges : Edges[i] \in ToNode
    BY <2>1, ElementOfSeq, LenProperties
  <2> QED
    BY <2>2, <2>3
<1> DEFINE found == {i \in DOMAIN Edges : Edges[i].source = n /\ Edges[i].handle \in handles}
           first == {Edges[i].target : i \in {j \in found : \A k \in found : j <= k}}
<1>2. first \subseteq Nodes
  BY <1>1
<1> HIDE DEF first
<1>3. NextNode(n, handles) = IF first = {} THEN NoNode ELSE CHOOSE t \in first : TRUE
  BY DEF NextNode, first
<1>4. first # {} => (CHOOSE t \in first : TRUE) \in first
  OBVIOUS
<1> QED
  BY <1>2, <1>3, <1>4

LEMMA RoutedType ==
    ASSUME NEW n, NEW decision
    PROVE  Routed(n, decision) \in Nodes \union {NoNode}
  BY NextNodeType DEF Routed

LEMMA ResumedType ==
    ASSUME NEW position \in Nodes \union {NoNode}
    PROVE  Resumed(position) \in Nodes \union {NoNode}
  BY NextNodeType DEF Resumed

LEMMA AfterTextType ==
    ASSUME NEW n
    PROVE  AfterText(n) \in Nodes \union {NoNode}
  BY NextNodeType DEF AfterText

LEMMA RunAtType ==
    ASSUME NEW pc \in {"unsent", "received", "locked", "walking", "merging", "writing",
                       "releasing", "skipped", "done"},
           NEW carried \in SUBSET Pages
    PROVE  /\ RunAt(pc, carried) \in Run
           /\ RunAt(pc, carried).pc = pc
  BY DEF RunAt, Run, EmptyMetadata, Metadata

LEMMA AiTypeInit == AiInit => AiTypeOK
  BY RunAtType DEF AiInit, AiTypeOK, Update, Metadata, EmptyMetadata

\* Every step of a run preserves the types.
LEMMA TypeRun ==
    ASSUME AiTypeOK, NEW m \in Messages,
           Receive(m) \/ StoreMessage(m) \/ Process(m) \/ Crash(m)
    PROVE  AiTypeOK'
<1>1. run[m] \in Run /\ run[m].carried \in SUBSET Pages /\ Visited \in SUBSET Pages
  BY DEF AiTypeOK, Run, Visited
<1> USE DEF AiTypeOK
<1>2. CASE Receive(m)
  BY <1>1, <1>2, RunAtType DEF Receive
<1>3. CASE StoreMessage(m)
  BY <1>1, <1>3 DEF StoreMessage, Metadata
<1>4. CASE AcquireLock(m)
  BY <1>1, <1>4 DEF AcquireLock, Run
<1>5. CASE SkipMessage(m)
  BY <1>1, <1>5 DEF SkipMessage, Run
<1>6. CASE ReadConversation(m)
  <2>1. Resumed(metadata.position) \in Nodes \union {NoNode}
    BY ResumedType DEF Metadata
  <2> QED
    BY <1>1, <1>6, <2>1 DEF ReadConversation, Run
<1>7. CASE RunAction(m)
  BY <1>1, <1>7, NextNodeType DEF RunAction, Run
<1>8. CASE Answer(m)
  BY <1>1, <1>8, AfterTextType DEF Answer, Run
<1>9. ASSUME NEW decision \in Handles, Route(m, decision) PROVE AiTypeOK'
  BY <1>1, <1>9, RoutedType DEF Route, Run
<1>10. CASE Refetch(m)
  BY <1>1, <1>10 DEF Refetch, Refetched, Run
<1>11. CASE WriteMetadata(m)
  <2>1. Merged(m) \in Metadata
    BY <1>1 DEF Merged, Metadata, Run
  <2> QED
    BY <1>1, <1>11, <2>1, RunAtType DEF WriteMetadata
<1>12. CASE EndRun(m)
  BY <1>1, <1>12, RunAtType DEF EndRun
<1>13. CASE ReleaseLock(m)
  BY <1>1, <1>13, RunAtType DEF ReleaseLock, LockAfterRelease, Finish
<1>14. CASE Crash(m)
  BY <1>1, <1>14, RunAtType DEF Crash, Finish
<1> QED
  BY <1>2, <1>3, <1>4, <1>5, <1>6, <1>7, <1>8, <1>9, <1>10, <1>11, <1>12, <1>13, <1>14
     DEF Process

\* So do the steps of updateContext, and the expiry of the lock.
LEMMA TypeContext ==
    ASSUME AiTypeOK,
           \/ \E p \in Pages : \/ Navigate(p) \/ ReadContext(p)
                               \/ IgnoreContext(p) \/ SaveContext(p)
           \/ ExpireLock
    PROVE  AiTypeOK'
<1> USE DEF AiTypeOK
<1>1. CASE ExpireLock
  BY <1>1 DEF ExpireLock
<1>2. ASSUME NEW p \in Pages,
             Navigate(p) \/ ReadContext(p) \/ IgnoreContext(p) \/ SaveContext(p)
      PROVE  AiTypeOK'
  <2>1. update[p] \in Update /\ EmptyMetadata \in Metadata
    BY DEF EmptyMetadata, Metadata
  <2>2. CASE Navigate(p)
    BY <2>1, <2>2 DEF Navigate, Update
  <2>3. CASE ReadContext(p)
    BY <2>1, <2>3 DEF ReadContext, Update
  <2>4. CASE IgnoreContext(p)
    BY <2>1, <2>4 DEF IgnoreContext, Update
  <2>5. CASE SaveContext(p)
    <3>1. [update[p].copy EXCEPT !.pages = update[p].copy.pages \union {p}] \in Metadata
      BY <2>1 DEF Update, Metadata
    <3> QED
      BY <2>1, <2>5, <3>1 DEF SaveContext, Update
  <2> QED
    BY <1>2, <2>2, <2>3, <2>4, <2>5
<1> QED
  BY <1>1, <1>2

\* The model's variables always have their types.
THEOREM AiTypeCorrect == AiSpec => []AiTypeOK
<1>1. AiTypeOK /\ [AiNext]_aiVars => AiTypeOK'
  <2> SUFFICES ASSUME AiTypeOK, [AiNext]_aiVars PROVE AiTypeOK'
    OBVIOUS
  <2>1. CASE UNCHANGED aiVars
    BY <2>1 DEF aiVars, AiTypeOK
  <2> QED
    BY <2>1, TypeRun, TypeContext DEF AiNext
<1> QED
  BY <1>1, AiTypeInit, PTL DEF AiSpec

-----------------------------------------------------------------------------
(* Runs beside each other *)

\* A run at work holds the lock, unless the lock expired under it.
LockInv == \A r \in Messages : Active(r) /\ r \notin outlived => lock = r

\* Of two runs at work, each knows that it is not alone.
ContestInv ==
    \A r, s \in Messages : Active(r) /\ Active(s) /\ r # s => r \in disturbed \union outlived

IInv == LockInv /\ ContestInv /\ PositionProtected

LEMMA InvInit == AiInit => IInv
  BY RunAtType DEF AiInit, IInv, LockInv, ContestInv, PositionProtected, Active

\* A step that changes only the run of m, and neither begins nor ends it.
LEMMA InvWorking ==
    ASSUME AiTypeOK, IInv, NEW m \in Messages,
           \/ EndRun(m) \/ RunAction(m) \/ Answer(m) \/ Refetch(m)
           \/ \E decision \in Handles : Route(m, decision)
    PROVE  IInv'
<1>1. run[m] \in Run /\ run[m].carried \in SUBSET Pages
  BY DEF AiTypeOK, Run
<1>2. /\ run' \in [Messages -> Run]
      /\ \A r \in Messages : r # m => run'[r] = run[r]
      /\ UNCHANGED <<lock, metadata, outlived, disturbed>>
  <2>1. AiTypeOK'
    BY TypeRun DEF Process
  <2> QED
    BY <2>1 DEF AiTypeOK, EndRun, RunAction, Answer, Refetch, Route
<1>3. /\ Active(m) /\ Active(m)'
      /\ run'[m].pc \in {"walking", "merging", "writing"} =>
             /\ run[m].pc \in {"walking", "merging", "writing"}
             /\ run'[m].read = run[m].read
  <2>1. CASE EndRun(m)
    BY <1>1, <2>1, RunAtType DEF EndRun, Active, AiTypeOK
  <2>2. CASE RunAction(m)
    BY <1>1, <2>2 DEF RunAction, Active, AiTypeOK, Run
  <2>3. CASE Answer(m)
    BY <1>1, <2>3 DEF Answer, Active, AiTypeOK, Run
  <2>4. CASE Refetch(m)
    BY <1>1, <2>4 DEF Refetch, Active, AiTypeOK, Run
  <2>5. ASSUME NEW decision \in Handles, Route(m, decision)
        PROVE  /\ Active(m) /\ Active(m)'
               /\ run'[m].pc \in {"walking", "merging", "writing"} =>
                      /\ run[m].pc \in {"walking", "merging", "writing"}
                      /\ run'[m].read = run[m].read
    BY <1>1, <2>5 DEF Route, Active, AiTypeOK, Run
  <2> QED
    BY <2>1, <2>2, <2>3, <2>4, <2>5
<1>4. \A r \in Messages : Active(r)' <=> Active(r)
  BY <1>2, <1>3 DEF Active
<1> QED
  BY <1>2, <1>3, <1>4 DEF IInv, LockInv, ContestInv, PositionProtected

\* A run that begins finds the lock free, so every other run at work has outlived
\* its lock.
LEMMA InvAcquire ==
    ASSUME AiTypeOK, IInv, NEW m \in Messages, AcquireLock(m)
    PROVE  IInv'
<1>1. /\ \A r \in Messages : r # m => run'[r] = run[r]
      /\ run'[m].pc = "locked" /\ run[m].pc = "received"
      /\ lock = NoMessage /\ lock' = m
      /\ UNCHANGED <<metadata, outlived>>
      /\ disturbed \subseteq disturbed' /\ disturbed' \subseteq disturbed \union {m}
      /\ Contested(m) => m \in disturbed'
  BY DEF AcquireLock, LockFree, AiTypeOK, Run
<1>2. \A r \in Messages : r # m => (Active(r)' <=> Active(r))
  BY <1>1 DEF Active
<1>3. \A r \in Messages : Active(r) => r \in outlived
  BY <1>1, AiAssumption DEF IInv, LockInv, AiAssumption
<1>4. LockInv'
  BY <1>1, <1>2, <1>3 DEF LockInv
<1>5. ContestInv'
  BY <1>1, <1>2, <1>3 DEF ContestInv, Contested
<1>6. PositionProtected'
  BY <1>1 DEF IInv, PositionProtected
<1> QED
  BY <1>4, <1>5, <1>6 DEF IInv

\* Reading the conversation again clears a run's history only if it is alone.
LEMMA InvRead ==
    ASSUME AiTypeOK, IInv, NEW m \in Messages, ReadConversation(m)
    PROVE  IInv'
<1>1. /\ \A r \in Messages : r # m => run'[r] = run[r]
      /\ run'[m].pc = "walking" /\ run[m].pc = "locked"
      /\ run'[m].read = metadata
      /\ UNCHANGED <<lock, metadata, outlived>>
      /\ disturbed \ {m} \subseteq disturbed'
      /\ Contested(m) => m \in disturbed'
      /\ disturbed' \subseteq disturbed \union {m}
  BY DEF ReadConversation, AiTypeOK, Run
<1>2. \A r \in Messages : Active(r)' <=> Active(r)
  BY <1>1 DEF Active
<1>3. LockInv'
  BY <1>1, <1>2 DEF IInv, LockInv
<1>4. ContestInv'
  BY <1>1, <1>2 DEF IInv, ContestInv, Contested
<1>5. PositionProtected'
  BY <1>1 DEF IInv, PositionProtected
<1> QED
  BY <1>3, <1>4, <1>5 DEF IInv

\* What a run writes touches only runs that know it is at work.
LEMMA InvWrite ==
    ASSUME AiTypeOK, IInv, NEW m \in Messages, WriteMetadata(m)
    PROVE  IInv'
<1>1. /\ \A r \in Messages : r # m => run'[r] = run[r]
      /\ run'[m].pc \in {"locked", "releasing"} /\ run[m].pc = "writing"
      /\ UNCHANGED <<lock, outlived, disturbed>>
  BY RunAtType DEF WriteMetadata, AiTypeOK, Run
<1>2. \A r \in Messages : Active(r)' <=> Active(r)
  BY <1>1 DEF Active
<1>3. PositionProtected'
  BY <1>1 DEF IInv, ContestInv, Active, PositionProtected
<1> QED
  BY <1>1, <1>2, <1>3 DEF IInv, LockInv, ContestInv

\* The end of a run takes away nobody else's lock.
LEMMA InvFinish ==
    ASSUME AiTypeOK, IInv, NEW m \in Messages, ReleaseLock(m) \/ Crash(m)
    PROVE  IInv'
<1>1. /\ \A r \in Messages : r # m => run'[r] = run[r]
      /\ run'[m].pc = "done"
      /\ lock # m => lock' = lock
      /\ outlived' = outlived \ {m} /\ disturbed' = disturbed \ {m}
      /\ UNCHANGED metadata
  BY RunAtType DEF ReleaseLock, Crash, Finish, LockAfterRelease, AiTypeOK, Run
<1>2. \A r \in Messages : Active(r)' => Active(r) /\ r # m
  BY <1>1 DEF Active
<1>3. LockInv'
  BY <1>1, <1>2 DEF IInv, LockInv
<1>4. ContestInv'
  BY <1>1, <1>2 DEF IInv, ContestInv
<1>5. PositionProtected'
  BY <1>1 DEF IInv, PositionProtected
<1> QED
  BY <1>3, <1>4, <1>5 DEF IInv

\* A run whose lock expires joins those that outlived it.
LEMMA InvExpire ==
    ASSUME AiTypeOK, IInv, ExpireLock
    PROVE  IInv'
<1>1. UNCHANGED <<run, metadata, disturbed>> /\ outlived \subseteq outlived'
  BY DEF ExpireLock
<1>2. LockInv'
  BY DEF ExpireLock, IInv, LockInv, Active
<1>3. ContestInv'
  BY <1>1 DEF IInv, ContestInv, Active
<1>4. PositionProtected'
  BY <1>1 DEF IInv, PositionProtected
<1> QED
  BY <1>2, <1>3, <1>4 DEF IInv

\* The worker and updateContext disturb every run at work.
LEMMA InvOthers ==
    ASSUME AiTypeOK, IInv,
           \/ \E m \in Messages : Receive(m) \/ StoreMessage(m) \/ SkipMessage(m)
           \/ \E p \in Pages : \/ Navigate(p) \/ ReadContext(p)
                               \/ IgnoreContext(p) \/ SaveContext(p)
    PROVE  IInv'
<1>1. \A r \in Messages :
          /\ Active(r)' <=> Active(r)
          /\ Active(r) => run'[r] = run[r]
  <2>1. ASSUME NEW m \in Messages, Receive(m) \/ SkipMessage(m)
        PROVE  /\ \A r \in Messages : r # m => run'[r] = run[r]
               /\ ~Active(m) /\ ~Active(m)'
    BY <2>1, RunAtType DEF Receive, SkipMessage, Active, AiTypeOK, Run, RunAt
  <2>2. CASE UNCHANGED run
    BY <2>2 DEF Active
  <2> QED
    BY <2>1, <2>2 DEF Active, StoreMessage, Navigate, ReadContext, IgnoreContext, SaveContext
<1>2. /\ UNCHANGED outlived
      /\ UNCHANGED lock \/ lock = NoMessage
      /\ \/ UNCHANGED <<metadata, disturbed>>
         \/ disturbed' = disturbed \union {r \in Messages : Active(r)}
  BY DEF Receive, StoreMessage, SkipMessage, LockFree, Navigate, ReadContext,
         IgnoreContext, SaveContext
<1>3. LockInv'
  BY <1>1, <1>2, AiAssumption DEF IInv, LockInv, AiAssumption
<1>4. ContestInv'
  BY <1>1, <1>2 DEF IInv, ContestInv
<1>5. PositionProtected'
  <2> SUFFICES ASSUME NEW r \in Messages,
                      run'[r].pc \in {"walking", "merging", "writing"},
                      r \notin disturbed', r \notin outlived'
               PROVE  metadata'.position = run'[r].read.position
    BY DEF PositionProtected
  <2>1. Active(r) /\ run'[r] = run[r]
    BY <1>1 DEF Active
  <2>2. UNCHANGED <<metadata, disturbed>>
    BY <1>2, <2>1
  <2> QED
    BY <1>2, <2>1, <2>2 DEF IInv, PositionProtected
<1> QED
  BY <1>3, <1>4, <1>5 DEF IInv

LEMMA InvStep == AiTypeOK /\ IInv /\ [AiNext]_aiVars => IInv'
<1> SUFFICES ASSUME AiTypeOK, IInv, [AiNext]_aiVars PROVE IInv'
  OBVIOUS
<1>1. CASE UNCHANGED aiVars
  BY <1>1 DEF aiVars, IInv, LockInv, ContestInv, PositionProtected, Active
<1> QED
  BY <1>1, InvWorking, InvAcquire, InvRead, InvWrite, InvFinish, InvExpire, InvOthers
     DEF AiNext, Process

\* Two runs of a visitor are at work together only if a lock expired under one of
\* them.
THEOREM LockExcludesOthers == AiSpec => []OneRunUnlessExpired
<1>1. IInv /\ AiTypeOK => OneRunUnlessExpired
  BY DEF IInv, LockInv, OneRunUnlessExpired
<1> QED
  BY <1>1, InvInit, InvStep, AiTypeCorrect, PTL DEF AiSpec

\* A run that nobody disturbed finds the workflow where it read it.
THEOREM LockProtectsPosition == AiSpec => []PositionProtected
<1>1. IInv => PositionProtected
  BY DEF IInv
<1> QED
  BY <1>1, InvInit, InvStep, AiTypeCorrect, PTL DEF AiSpec

-----------------------------------------------------------------------------
(* Pages are kept *)

\* Whoever is about to write the metadata has page p in what they write.
InEveryCopy(p) ==
    /\ p \in metadata.pages
    /\ \A m \in Messages :
          /\ run[m].pc = "writing" => p \in run[m].fresh.pages
          /\ m \notin stored /\ run[m].pc # "unsent" => p \in run[m].carried
    /\ \A q \in Pages : update[q].pc = "read" => p \in update[q].copy.pages

PagesInv == \A p \in Pages : update[p].pc = "saved" /\ p \notin raced => InEveryCopy(p)

\* A run writes what it just read, and keeps what its message brought along.
LEMMA RunKeeps ==
    ASSUME AiTypeOK, NEW m \in Messages, Receive(m) \/ Process(m) \/ Crash(m), NEW r \in Messages
    PROVE  /\ run'[r].pc = "writing" =>
                 \/ run'[r].fresh = metadata
                 \/ run[r].pc = "writing" /\ run'[r].fresh = run[r].fresh
           /\ run'[r].pc # "unsent" =>
                 \/ run'[r].carried = Visited
                 \/ run[r].pc # "unsent" /\ run'[r].carried = run[r].carried
<1>1. run[m] \in Run /\ run[r] \in Run
  BY DEF AiTypeOK
<1>2. CASE r # m
  <2>1. run'[r] = run[r]
    BY <1>2 DEF AiTypeOK, Receive, Process, Crash, AcquireLock, SkipMessage, ReadConversation,
                RunAction, Answer, Refetch, WriteMetadata, EndRun, ReleaseLock, Finish, Route
  <2> QED  BY <2>1
<1>3. CASE r = m
  <2>1. CASE Receive(m)
    BY <1>3, <2>1 DEF Receive, AiTypeOK, RunAt
  <2>2. CASE Refetch(m)
    BY <1>1, <1>3, <2>2 DEF Refetch, Refetched, AiTypeOK, Run
  <2>3. CASE ReleaseLock(m) \/ Crash(m) \/ EndRun(m) \/ WriteMetadata(m)
    <3>1. PICK pc \in {"done", "releasing", "locked"} :
             run'[m] = RunAt(pc, run[m].carried) /\ run[m].pc # "unsent"
      BY <2>3 DEF ReleaseLock, Crash, Active, EndRun, WriteMetadata, Finish, AiTypeOK
    <3> QED  BY <1>3, <3>1 DEF RunAt
  <2> DEFINE Goes == /\ run'[m].pc # "writing" /\ run[m].pc # "unsent"
                     /\ run'[m].carried = run[m].carried
  <2>4. CASE AcquireLock(m)
    <3>1. Goes
      BY <1>1, <2>4 DEF AcquireLock, AiTypeOK, Run
    <3> QED  BY <1>3, <3>1
  <2>5. CASE SkipMessage(m)
    <3>1. Goes
      BY <1>1, <2>5 DEF SkipMessage, AiTypeOK, Run
    <3> QED  BY <1>3, <3>1
  <2>6. CASE ReadConversation(m)
    <3>1. Goes
      BY <1>1, <2>6 DEF ReadConversation, AiTypeOK, Run
    <3> QED  BY <1>3, <3>1
  <2>7. CASE RunAction(m)
    <3>1. Goes
      BY <1>1, <2>7 DEF RunAction, AiTypeOK, Run
    <3> QED  BY <1>3, <3>1
  <2>8. CASE Answer(m)
    <3>1. Goes
      BY <1>1, <2>8 DEF Answer, AiTypeOK, Run
    <3> QED  BY <1>3, <3>1
  <2>9. ASSUME NEW decision \in Handles, Route(m, decision) PROVE Goes
    BY <1>1, <2>9 DEF Route, AiTypeOK, Run
  <2> QED
    BY <1>3, <2>1, <2>2, <2>3, <2>4, <2>5, <2>6, <2>7, <2>8, <2>9 DEF Process
<1> QED  BY <1>2, <1>3

LEMMA PagesStep == AiTypeOK /\ PagesInv /\ [AiNext]_aiVars => PagesInv'
<1> SUFFICES ASSUME AiTypeOK, PagesInv, [AiNext]_aiVars,
                    NEW p \in Pages, update'[p].pc = "saved", p \notin raced'
             PROVE  InEveryCopy(p)'
  BY DEF PagesInv
<1>1. ASSUME NEW m \in Messages, Receive(m) \/ Process(m) \/ Crash(m)
      PROVE  InEveryCopy(p)'
  <2>1. UNCHANGED <<stored, update, raced>>
    BY <1>1 DEF Receive, Process, Crash, AcquireLock, SkipMessage, ReadConversation,
                RunAction, Answer, Refetch, WriteMetadata, EndRun, ReleaseLock, Finish, Route
  <2>2. InEveryCopy(p) /\ p \in Visited
    BY <2>1 DEF PagesInv, Visited
  <2>3. p \in metadata'.pages
    <3>1. CASE WriteMetadata(m)
      <4>1. run[m] \in Run /\ metadata' = Merged(m) /\ p \in run[m].fresh.pages
        BY <2>2, <3>1 DEF WriteMetadata, InEveryCopy, AiTypeOK
      <4> QED  BY <4>1 DEF Merged, Run, Metadata
    <3>2. CASE ~WriteMetadata(m)
      <4>1. UNCHANGED metadata
        BY <1>1, <3>2 DEF Receive, Process, Crash, AcquireLock, SkipMessage, ReadConversation,
                          RunAction, Answer, Refetch, EndRun, ReleaseLock, Finish, Route
      <4> QED  BY <2>2, <4>1 DEF InEveryCopy
    <3> QED  BY <3>1, <3>2
  <2>4. ASSUME NEW r \in Messages
        PROVE  /\ run'[r].pc = "writing" => p \in run'[r].fresh.pages
               /\ r \notin stored' /\ run'[r].pc # "unsent" => p \in run'[r].carried
    BY <1>1, <2>1, <2>2, RunKeeps DEF InEveryCopy
  <2> QED  BY <2>1, <2>2, <2>3, <2>4 DEF InEveryCopy
<1>2. ASSUME NEW m \in Messages, StoreMessage(m)
      PROVE  InEveryCopy(p)'
  <2>1. InEveryCopy(p)
    BY <1>2 DEF StoreMessage, PagesInv
  <2> QED  BY <1>2, <2>1 DEF StoreMessage, InEveryCopy
<1>3. ASSUME NEW q \in Pages, SaveContext(q)
      PROVE  InEveryCopy(p)'
  <2>1. update[q] \in Update /\ update[q].copy \in Metadata
    BY DEF AiTypeOK, Update
  <2>2. /\ UNCHANGED <<run, stored>> /\ update[q].pc = "read"
        /\ metadata'.pages = update[q].copy.pages \union {q}
        /\ update' = [update EXCEPT ![q] = [pc |-> "saved", copy |-> EmptyMetadata]]
    BY <1>3, <2>1 DEF SaveContext, Metadata
  <2>3. CASE p = q
    <3>1. ~OlderCopy(p)
      BY <1>3, <2>3 DEF SaveContext
    <3> QED  BY <2>2, <2>3, <3>1 DEF OlderCopy, InEveryCopy, AiTypeOK
  <2>4. CASE p # q
    <3>1. update'[p] = update[p] /\ p \notin raced
      BY <1>3, <2>4 DEF SaveContext, AiTypeOK
    <3>2. InEveryCopy(p)
      BY <3>1 DEF PagesInv
    <3> QED  BY <2>2, <3>2 DEF InEveryCopy, AiTypeOK
  <2> QED  BY <2>3, <2>4
<1>4. ASSUME NEW q \in Pages, Navigate(q) \/ ReadContext(q) \/ IgnoreContext(q)
      PROVE  InEveryCopy(p)'
  <2>1. UNCHANGED <<run, stored, metadata, raced>>
    BY <1>4 DEF Navigate, ReadContext, IgnoreContext
  <2>2. ASSUME NEW o \in Pages
        PROVE  \/ update'[o] = update[o]
               \/ update'[o].pc = "read" /\ update'[o].copy = metadata
               \/ update'[o].pc \in {"sent", "ignored"}
    <3>1. update[o] \in Update
      BY DEF AiTypeOK
    <3> QED  BY <1>4, <3>1 DEF Navigate, ReadContext, IgnoreContext, AiTypeOK, Update
  <2>3. InEveryCopy(p)
    BY <2>1, <2>2 DEF PagesInv
  <2> QED  BY <2>1, <2>2, <2>3 DEF InEveryCopy
<1>5. CASE ExpireLock \/ UNCHANGED aiVars
  <2>1. UNCHANGED <<run, stored, metadata, update, raced>>
    BY <1>5 DEF ExpireLock, aiVars
  <2> QED  BY <2>1 DEF PagesInv, InEveryCopy
<1> QED  BY <1>1, <1>2, <1>3, <1>4, <1>5 DEF AiNext

\* A saved page is lost only if it was saved between the read and the write of another,
\* for any number of pages and messages (PagesKept).
THEOREM RefetchKeepsPages == AiSpec => []PagesKept
<1>1. AiInit => PagesInv
  BY DEF AiInit, PagesInv
<1>2. PagesInv => PagesKept
  BY DEF PagesInv, PagesKept, InEveryCopy
<1> QED
  BY <1>1, <1>2, PagesStep, AiTypeCorrect, PTL DEF AiSpec

-----------------------------------------------------------------------------
(* Sequences *)

\* Removing the element at a place.
LEMMA RemovedAt ==
    ASSUME NEW S, NEW w \in Seq(S), NEW i \in DOMAIN w
    PROVE  /\ RemoveAt(w, i) \in Seq(S)
           /\ Len(RemoveAt(w, i)) = Len(w) - 1
           /\ \A k \in 1 .. Len(w) - 1 :
                 RemoveAt(w, i)[k] = IF k < i THEN w[k] ELSE w[k + 1]
<1>1. Len(w) \in Nat /\ i \in 1 .. Len(w)
  BY LenProperties
<1>2. /\ SubSeq(w, 1, i - 1) \in Seq(S) /\ Len(SubSeq(w, 1, i - 1)) = i - 1
      /\ \A k \in 1 .. i - 1 : SubSeq(w, 1, i - 1)[k] = w[k]
  BY <1>1, SubSeqProperties
<1>3. /\ SubSeq(w, i + 1, Len(w)) \in Seq(S)
      /\ Len(SubSeq(w, i + 1, Len(w))) = Len(w) - i
      /\ \A k \in 1 .. Len(w) - i : SubSeq(w, i + 1, Len(w))[k] = w[k + i]
  BY <1>1, SubSeqProperties
<1> DEFINE u == SubSeq(w, 1, i - 1)
           v == SubSeq(w, i + 1, Len(w))
<1> HIDE DEF u, v
<1>4. u \in Seq(S) /\ v \in Seq(S) /\ Len(u) = i - 1 /\ Len(v) = Len(w) - i
  BY <1>2, <1>3 DEF u, v
<1>5. u \o v \in Seq(S) /\ Len(u \o v) = Len(w) - 1
  BY <1>1, <1>4, ConcatProperties
<1>6. ASSUME NEW k \in 1 .. Len(w) - 1
      PROVE  (u \o v)[k] = IF k < i THEN w[k] ELSE w[k + 1]
  <2>1. (u \o v)[k] = IF k <= i - 1 THEN u[k] ELSE v[k - (i - 1)]
    BY <1>1, <1>4, ConcatProperties
  <2>2. CASE k < i
    <3>1. k \in 1 .. i - 1
      BY <1>1, <2>2
    <3>2. u[k] = w[k]
      BY <1>2, <3>1 DEF u
    <3> QED  BY <1>1, <2>1, <2>2, <3>2
  <2>3. CASE ~(k < i)
    <3>1. k - (i - 1) \in 1 .. Len(w) - i /\ k - (i - 1) + i = k + 1
      BY <1>1, <2>3
    <3>2. v[k - (i - 1)] = w[k + 1]
      BY <1>3, <3>1 DEF v
    <3> QED  BY <1>1, <2>1, <2>3, <3>2
  <2> QED  BY <2>2, <2>3
<1> QED  BY <1>5, <1>6 DEF RemoveAt, u, v

-----------------------------------------------------------------------------
(* Events of a project in a sequence of events *)

AtMostOne(w, p) == \A i, j \in DOMAIN w : w[i].project = p /\ w[j].project = p => i = j

NoneOf(w, p) == \A i \in DOMAIN w : w[i].project # p

LEMMA EventsOf ==
    ASSUME NEW w \in Seq(RoomEvent), NEW p
    PROVE  /\ p \in {e.project : e \in ToSet(w)} <=> ~NoneOf(w, p)
           /\ \A i \in DOMAIN w : w[i] \in RoomEvent
           /\ DOMAIN w = 1 .. Len(w) /\ Len(w) \in Nat
<1>1. DOMAIN w = 1 .. Len(w) /\ Len(w) \in Nat
  BY LenProperties
<1>2. \A i \in DOMAIN w : w[i] \in RoomEvent
  BY <1>1, ElementOfSeq
<1> QED  BY <1>1, <1>2 DEF ToSet, NoneOf

\* Handling an event leaves the others.
LEMMA HandledFacts ==
    ASSUME NEW w \in Seq(RoomEvent), NEW i \in DOMAIN w, NEW p
    PROVE  /\ RemoveAt(w, i) \in Seq(RoomEvent)
           /\ AtMostOne(w, p) => AtMostOne(RemoveAt(w, i), p)
           /\ \A k \in DOMAIN RemoveAt(w, i) : \E j \in DOMAIN w : RemoveAt(w, i)[k] = w[j]
           /\ w[i].project = p /\ AtMostOne(w, p) => NoneOf(RemoveAt(w, i), p)
           /\ w[i].project # p => (NoneOf(RemoveAt(w, i), p) <=> NoneOf(w, p))
<1> DEFINE r == RemoveAt(w, i)
<1>1. r \in Seq(RoomEvent) /\ Len(r) = Len(w) - 1
  BY RemovedAt
<1>2. Len(w) \in Nat /\ DOMAIN w = 1 .. Len(w) /\ DOMAIN r = 1 .. Len(w) - 1 /\ i \in 1 .. Len(w)
  BY <1>1, LenProperties
<1>3. \A k \in DOMAIN r : r[k] = IF k < i THEN w[k] ELSE w[k + 1]
  BY <1>2, RemovedAt
<1> HIDE DEF r
<1>4. ASSUME NEW k \in DOMAIN r
      PROVE  \E j \in DOMAIN w : /\ r[k] = w[j] /\ j # i
                                 /\ j = IF k < i THEN k ELSE k + 1
  BY <1>2, <1>3
<1>5. ASSUME NEW j \in DOMAIN w, j # i
      PROVE  \E k \in DOMAIN r : r[k] = w[j]
  <2>1. CASE j < i
    <3>1. j \in DOMAIN r
      BY <1>2, <2>1
    <3> QED  BY <1>3, <2>1, <3>1
  <2>2. CASE ~(j < i)
    <3>1. j - 1 \in DOMAIN r /\ ~(j - 1 < i) /\ j - 1 + 1 = j
      BY <1>2, <1>5, <2>2
    <3> QED  BY <1>3, <3>1
  <2> QED  BY <2>1, <2>2
<1>6. AtMostOne(w, p) => AtMostOne(r, p)
  BY <1>2, <1>4 DEF AtMostOne
<1>7. w[i].project = p /\ AtMostOne(w, p) => NoneOf(r, p)
  BY <1>4 DEF AtMostOne, NoneOf
<1>8. w[i].project # p => (NoneOf(r, p) <=> NoneOf(w, p))
  BY <1>4, <1>5 DEF NoneOf
<1> QED  BY <1>1, <1>4, <1>6, <1>7, <1>8 DEF r

\* Sending more events.
LEMMA SentFacts ==
    ASSUME NEW v \in Seq(RoomEvent), NEW w \in Seq(RoomEvent), NEW p
    PROVE  /\ v \o w \in Seq(RoomEvent)
           /\ NoneOf(v, p) /\ AtMostOne(w, p) => AtMostOne(v \o w, p)
           /\ NoneOf(w, p) /\ AtMostOne(v, p) => AtMostOne(v \o w, p)
           /\ \A k \in DOMAIN (v \o w) : \/ \E i \in DOMAIN v : (v \o w)[k] = v[i]
                                         \/ \E j \in DOMAIN w : (v \o w)[k] = w[j]
           /\ NoneOf(v \o w, p) <=> NoneOf(v, p) /\ NoneOf(w, p)
<1> DEFINE c == v \o w
<1>1. /\ c \in Seq(RoomEvent) /\ Len(c) = Len(v) + Len(w)
      /\ Len(v) \in Nat /\ Len(w) \in Nat
      /\ DOMAIN c = 1 .. Len(v) + Len(w) /\ DOMAIN v = 1 .. Len(v) /\ DOMAIN w = 1 .. Len(w)
  BY ConcatProperties, LenProperties
<1>2. \A k \in DOMAIN c : c[k] = IF k <= Len(v) THEN v[k] ELSE w[k - Len(v)]
  BY <1>1, ConcatProperties
<1> HIDE DEF c
<1>3. ASSUME NEW k \in DOMAIN c
      PROVE  \/ k \in DOMAIN v /\ c[k] = v[k]
             \/ k - Len(v) \in DOMAIN w /\ c[k] = w[k - Len(v)]
  BY <1>1, <1>2
<1>4. \A i \in DOMAIN v : i \in DOMAIN c /\ c[i] = v[i]
  BY <1>1, <1>2
<1>5. ASSUME NEW j \in DOMAIN w PROVE j + Len(v) \in DOMAIN c /\ c[j + Len(v)] = w[j]
  <2>1. j + Len(v) \in DOMAIN c /\ ~(j + Len(v) <= Len(v)) /\ j + Len(v) - Len(v) = j
    BY <1>1
  <2> QED  BY <1>2, <2>1
<1>6. NoneOf(v, p) /\ AtMostOne(w, p) => AtMostOne(c, p)
  BY <1>1, <1>3 DEF NoneOf, AtMostOne
<1>7. NoneOf(w, p) /\ AtMostOne(v, p) => AtMostOne(c, p)
  BY <1>1, <1>3 DEF NoneOf, AtMostOne
<1>8. NoneOf(c, p) <=> NoneOf(v, p) /\ NoneOf(w, p)
  BY <1>3, <1>4, <1>5 DEF NoneOf
<1>9. \A k \in DOMAIN c : (\E i \in DOMAIN v : c[k] = v[i]) \/ (\E j \in DOMAIN w : c[k] = w[j])
  BY <1>3
<1> QED  BY <1>1, <1>6, <1>7, <1>8, <1>9 DEF c

-----------------------------------------------------------------------------
(* Types of an agent's rooms *)

LEMMA RoomsTypeFacts ==
    ASSUME RoomsTypeOK
    PROVE  /\ LastSocket \in Nat /\ sockets \in Nat /\ newSocket \in 0 .. LastSocket
           /\ held \in {0, newSocket}
           /\ buffer \in Seq(RoomEvent) /\ arriving \in Seq(RoomEvent)
           /\ <<>> \in Seq(RoomEvent)
           /\ NoProject \notin Projects
           /\ effect # NoEffect => effect \in Effect /\ effect.project \in Projects
                                  /\ effect.socket # 0 /\ effect.socket \in Nat
<1>1. LastSocket \in Nat /\ NoProject \notin Projects
  BY RoomsAssumption DEF RoomsAssumption
<1>2. <<>> \in Seq(RoomEvent)
  BY EmptySeq
<1> QED  BY <1>1, <1>2 DEF RoomsTypeOK, Effect

\* The events of a run of the effect: a leave of the project it held, and a join of the
\* one that is wanted.
LEMMA RunFacts ==
    ASSUME RoomsTypeOK
    PROVE  /\ Wanted \in Effect \union {NoEffect}
           /\ Leave \in Seq(RoomEvent) /\ Join \in Seq(RoomEvent)
           /\ \A p : AtMostOne(Leave, p) /\ AtMostOne(Join, p)
           /\ \A i \in DOMAIN Leave :
                 /\ Leave[i].kind = "leave" /\ Leave[i].project = effect.project
                 /\ effect # NoEffect /\ effect.socket = newSocket
           /\ \A i \in DOMAIN Join :
                 /\ Join[i].kind = "join" /\ Join[i].project = projectId
                 /\ Wanted # NoEffect /\ Wanted.project = projectId
           /\ \A p : /\ NoneOf(Leave, p) => ~(effect # NoEffect /\ effect.socket = newSocket
                                             /\ effect.project = p)
                     /\ NoneOf(Join, p) => ~(Wanted # NoEffect /\ Wanted.project = p)
<1>1. Wanted \in Effect \union {NoEffect} /\ (Wanted # NoEffect => Wanted.project = projectId)
  BY RoomsTypeFacts DEF Wanted, Effect, RoomsTypeOK
<1>2. /\ effect # NoEffect => [kind |-> "leave", project |-> effect.project] \in RoomEvent
      /\ Wanted # NoEffect => [kind |-> "join", project |-> projectId] \in RoomEvent
  BY RoomsTypeFacts DEF RoomEvent, Wanted, RoomsTypeOK
<1>3. CASE effect # NoEffect /\ effect.socket = newSocket
  <2>1. Leave = << [kind |-> "leave", project |-> effect.project] >>
    BY <1>3 DEF Leave
  <2>2. CASE Wanted = NoEffect
    <3>1. Join = <<>>
      BY <2>2 DEF Join
    <3> QED  BY <1>1, <1>2, <1>3, <2>1, <2>2, <3>1 DEF AtMostOne, NoneOf
  <2>3. CASE Wanted # NoEffect
    <3>1. Join = << [kind |-> "join", project |-> projectId] >>
      BY <2>3 DEF Join
    <3> QED  BY <1>1, <1>2, <1>3, <2>1, <2>3, <3>1 DEF AtMostOne, NoneOf
  <2> QED  BY <2>2, <2>3
<1>4. CASE ~(effect # NoEffect /\ effect.socket = newSocket)
  <2>1. Leave = <<>>
    BY <1>4 DEF Leave
  <2>2. CASE Wanted = NoEffect
    <3>1. Join = <<>>
      BY <2>2 DEF Join
    <3> QED  BY <1>1, <1>2, <1>4, <2>1, <2>2, <3>1 DEF AtMostOne, NoneOf
  <2>3. CASE Wanted # NoEffect
    <3>1. Join = << [kind |-> "join", project |-> projectId] >>
      BY <2>3 DEF Join
    <3> QED  BY <1>1, <1>2, <1>4, <2>1, <2>3, <3>1 DEF AtMostOne, NoneOf
  <2> QED  BY <2>2, <2>3
<1> QED  BY <1>3, <1>4

LEMMA RoomsTypeInit == RoomsInit => RoomsTypeOK
  BY RoomsAssumption, EmptySeq DEF RoomsAssumption, RoomsInit, RoomsTypeOK

LEMMA RoomsTypeStep == RoomsTypeOK /\ [RoomsNext]_roomsVars => RoomsTypeOK'
<1> SUFFICES ASSUME RoomsTypeOK, [RoomsNext]_roomsVars PROVE RoomsTypeOK'
  OBVIOUS
<1> USE RoomsTypeFacts
<1>1. CASE MakeSocket
  BY <1>1 DEF MakeSocket, LoseConnection, RoomsTypeOK
<1>2. CASE LeaveDashboard
  BY <1>2 DEF LeaveDashboard, LoseConnection, RoomsTypeOK
<1>3. CASE ConnectSocket
  BY <1>3 DEF ConnectSocket, RoomsTypeOK
<1>4. CASE DropConnection \/ RejectConnection
  <2>1. spoiled' \in [Projects -> SUBSET Causes]
    <3>1. CASE effect.project \in Projects
      BY <1>4, <3>1 DEF DropConnection, RejectConnection, Unheard, RoomsTypeOK, Causes
    <3>2. CASE effect.project \notin Projects
      BY <1>4, <3>2 DEF DropConnection, RejectConnection, Unheard, RoomsTypeOK
    <3> QED  BY <3>1, <3>2
  <2> QED  BY <1>4, <2>1 DEF DropConnection, RejectConnection, LoseConnection, RoomsTypeOK
<1>5. ASSUME NEW p \in Projects \union {NoProject}, ShowPage(p) PROVE RoomsTypeOK'
  BY <1>5 DEF ShowPage, RoomsTypeOK
<1>6. CASE RunEffect
  <2>1. EndEffect \o Join \in Seq(RoomEvent)
    BY RunFacts, SentFacts DEF EndEffect
  <2>2. /\ buffer \o (EndEffect \o Join) \in Seq(RoomEvent)
        /\ arriving \o (EndEffect \o Join) \in Seq(RoomEvent)
    BY <2>1, SentFacts
  <2>3. spoiled' \in [Projects -> SUBSET Causes]
    BY <1>6 DEF RunEffect, RoomsTypeOK, Causes
  <2>4. /\ effect' = Wanted
        /\ UNCHANGED <<sockets, newSocket, link, held, projectId, rooms>>
        /\ buffer' \in {buffer, buffer \o (EndEffect \o Join)}
        /\ arriving' \in {arriving, arriving \o (EndEffect \o Join)}
    BY <1>6 DEF RunEffect
  <2> QED  BY <2>2, <2>3, <2>4, RunFacts DEF RoomsTypeOK
<1>7. ASSUME NEW i \in DOMAIN arriving, HandleJoin(i) \/ HandleLeave(i) \/ RefuseEvent(i)
      PROVE  RoomsTypeOK'
  <2>1. arriving[i] \in RoomEvent /\ arriving[i].project \in Projects
    BY EventsOf DEF RoomEvent
  <2>2. RemoveAt(arriving, i) \in Seq(RoomEvent)
    BY RemovedAt
  <2>3. spoiled' \in [Projects -> SUBSET Causes] /\ rooms' \subseteq Projects
    BY <1>7, <2>1 DEF HandleJoin, HandleLeave, RefuseEvent, RoomsTypeOK, Causes
  <2> QED  BY <1>7, <2>2, <2>3 DEF HandleJoin, HandleLeave, RefuseEvent, RoomsTypeOK
<1>8. CASE UNCHANGED roomsVars
  BY <1>8 DEF roomsVars, RoomsTypeOK
<1> QED  BY <1>1, <1>2, <1>3, <1>4, <1>5, <1>6, <1>7, <1>8 DEF RoomsNext

\* Sockets, pages, events and rooms keep their types.
THEOREM RoomsTypeCorrect == RoomsSpec => []RoomsTypeOK
  BY RoomsTypeInit, RoomsTypeStep, PTL DEF RoomsSpec

-----------------------------------------------------------------------------
(* The room of the page *)

\* What the connection, or the next one, brings to the server.
Way == IF link = "up" THEN arriving ELSE buffer

\* The effect of the page holds the room of p on the socket of the token.
Joined(p) == effect # NoEffect /\ effect.socket = newSocket /\ effect.project = p

LinkInv ==
    /\ link = "up" => buffer = <<>> /\ held = newSocket
    /\ link # "up" => arriving = <<>>
    /\ link # "none" => newSocket # 0
    /\ effect # NoEffect => effect.socket <= sockets

\* Of an undisturbed room at most one event is on its way, and it, or without one the room
\* itself, agrees with the effect.
RoomInv(p) ==
    /\ AtMostOne(Way, p)
    /\ \A i \in DOMAIN Way : Way[i].project = p => (Way[i].kind = "join" <=> Joined(p))
    /\ NoneOf(Way, p) => (p \in rooms <=> Joined(p))

RoomsInv == LinkInv /\ \A p \in Projects : spoiled[p] = {} => RoomInv(p)

LEMMA RoomsInvInit == RoomsInit => RoomsInv
  BY RoomsAssumption
     DEF RoomsAssumption, RoomsInit, RoomsInv, LinkInv, RoomInv, Joined, Way, AtMostOne, NoneOf

LEMMA LinkStep == RoomsTypeOK /\ RoomsInv /\ [RoomsNext]_roomsVars => LinkInv'
<1> SUFFICES ASSUME RoomsTypeOK, LinkInv, [RoomsNext]_roomsVars PROVE LinkInv'
  BY DEF RoomsInv
<1> USE RoomsTypeFacts DEF LinkInv
<1>1. CASE MakeSocket
  <2>1. effect # NoEffect => effect.socket <= sockets + 1
    <3>1. effect # NoEffect => effect.socket \in Nat /\ effect.socket <= sockets
      OBVIOUS
    <3> QED  BY <3>1
  <2>2. newSocket' # 0
    BY <1>1 DEF MakeSocket
  <2> QED  BY <1>1, <2>1, <2>2 DEF MakeSocket, LoseConnection
<1>2. CASE LeaveDashboard
  BY <1>2 DEF LeaveDashboard, LoseConnection
<1>3. CASE ConnectSocket
  BY <1>3 DEF ConnectSocket
<1>4. CASE DropConnection \/ RejectConnection
  BY <1>4 DEF DropConnection, RejectConnection, LoseConnection
<1>5. ASSUME NEW p \in Projects \union {NoProject}, ShowPage(p) PROVE LinkInv'
  BY <1>5 DEF ShowPage
<1>6. CASE RunEffect
  <2>1. Wanted # NoEffect => Wanted.socket = held /\ held # 0
    BY DEF Wanted
  <2>2. Wanted # NoEffect => Wanted.socket <= sockets
    BY <2>1 DEF RoomsTypeOK
  <2>3. /\ effect' = Wanted
        /\ UNCHANGED <<sockets, newSocket, link, held>>
        /\ link = "up" => buffer' = buffer
        /\ link # "up" => arriving' = arriving
    BY <1>6 DEF RunEffect
  <2> QED  BY <2>2, <2>3
<1>7. ASSUME NEW i \in DOMAIN arriving, HandleJoin(i) \/ HandleLeave(i) \/ RefuseEvent(i)
      PROVE  LinkInv'
  <2>1. arriving # <<>>
    OBVIOUS
  <2> QED  BY <1>7, <2>1 DEF HandleJoin, HandleLeave, RefuseEvent
<1>8. CASE UNCHANGED roomsVars
  BY <1>8 DEF roomsVars
<1> QED  BY <1>1, <1>2, <1>3, <1>4, <1>5, <1>6, <1>7, <1>8 DEF RoomsNext

\* The effect of the page: a project it neither leaves nor joins is not disturbed; one it
\* leaves or joins with nothing of it on the way has just that event.
LEMMA RunRoom ==
    ASSUME RoomsTypeOK, RoomsInv, RunEffect, NEW p \in Projects, spoiled'[p] = {}
    PROVE  RoomInv(p)'
<1> DEFINE events == EndEffect \o Join
<1>1. /\ effect' = Wanted /\ rooms' = rooms /\ newSocket' = newSocket /\ link' = link
      /\ Way' = Way \o events
  BY DEF RunEffect, Way
<1>2. Way \in Seq(RoomEvent) /\ Leave \in Seq(RoomEvent) /\ Join \in Seq(RoomEvent)
  BY RoomsTypeFacts, RunFacts DEF Way
<1>3. events = Leave \o Join
  BY DEF EndEffect
<1>4. events \in Seq(RoomEvent)
  BY <1>2, <1>3, SentFacts
<1>5. Joined(p)' <=> Wanted # NoEffect /\ Wanted.socket = newSocket /\ Wanted.project = p
  BY <1>1 DEF Joined
<1>6. Wanted # NoEffect => Wanted.socket = held /\ held # 0 /\ held = newSocket
  BY RoomsTypeFacts DEF Wanted
<1>7. Joined(p)' <=> Wanted # NoEffect /\ Wanted.project = p
  BY <1>5, <1>6
<1>8. effect # Wanted
  BY DEF RunEffect, EffectDue
<1>9. spoiled'[p] = IF p \notin {e.project : e \in ToSet(events)} THEN spoiled[p]
                    ELSE IF p \in OnTheWay THEN {"crossed"} ELSE {}
  BY DEF RunEffect
<1>10. /\ \A k \in DOMAIN (Way \o events) : \/ \E i \in DOMAIN Way : (Way \o events)[k] = Way[i]
                                            \/ \E j \in DOMAIN events : (Way \o events)[k] = events[j]
       /\ NoneOf(Way \o events, p) <=> NoneOf(Way, p) /\ NoneOf(events, p)
       /\ NoneOf(events, p) <=> NoneOf(Leave, p) /\ NoneOf(Join, p)
  BY <1>2, <1>3, <1>4, SentFacts
<1> HIDE DEF events
<1>11. CASE NoneOf(events, p)
  <2>1. spoiled[p] = {}
    BY <1>4, <1>9, <1>11, EventsOf
  <2>2. RoomInv(p)
    BY <2>1 DEF RoomsInv
  <2>3. ~Joined(p) /\ ~Joined(p)'
    <3>0. NoneOf(Leave, p) /\ NoneOf(Join, p)
      BY <1>10, <1>11
    <3>1. ~(effect # NoEffect /\ effect.socket = newSocket /\ effect.project = p)
      BY <3>0, RunFacts, Zenon
    <3>2. ~(Wanted # NoEffect /\ Wanted.project = p)
      BY <3>0, RunFacts, Zenon
    <3>3. ~Joined(p)
      BY <3>1 DEF Joined
    <3> QED  BY <1>7, <3>2, <3>3
  <2>4. AtMostOne(Way \o events, p)
    BY <1>2, <1>4, <1>11, <2>2, SentFacts DEF RoomInv
  <2>5. \A k \in DOMAIN (Way \o events) :
            (Way \o events)[k].project = p => (Way \o events)[k].kind # "join"
    BY <1>10, <1>11, <2>2, <2>3 DEF RoomInv, NoneOf
  <2>6. NoneOf(Way \o events, p) => p \notin rooms
    BY <1>10, <2>2, <2>3 DEF RoomInv
  <2> QED  BY <1>1, <2>3, <2>4, <2>5, <2>6 DEF RoomInv
<1>12. CASE ~NoneOf(events, p)
  <2>1. p \notin OnTheWay
    BY <1>4, <1>9, <1>12, EventsOf
  <2>2. NoneOf(Way, p)
    <3>1. buffer \in Seq(RoomEvent) /\ arriving \in Seq(RoomEvent)
      BY RoomsTypeFacts
    <3>2. buffer \o arriving \in Seq(RoomEvent)
      BY <3>1, SentFacts
    <3>3. NoneOf(buffer \o arriving, p)
      BY <2>1, <3>2, EventsOf DEF OnTheWay
    <3> QED  BY <3>1, <3>3, SentFacts DEF Way
  <2>3. \A i \in DOMAIN Leave : Leave[i].project = p => ~Joined(p)'
    <3>1. SUFFICES ASSUME NEW i \in DOMAIN Leave, Leave[i].project = p,
                          Wanted # NoEffect, Wanted.project = p
                   PROVE  FALSE
      BY <1>7
    <3>2. effect # NoEffect /\ effect.project = p /\ effect.socket = newSocket
      BY <3>1, RunFacts
    <3>3. effect \in Effect /\ Wanted \in Effect
      BY <3>1, <3>2, RoomsTypeFacts, RunFacts
    <3>4. effect = Wanted
      BY <1>6, <3>1, <3>2, <3>3 DEF Effect
    <3> QED  BY <1>8, <3>4
  <2>4. \A i \in DOMAIN Join : Join[i].project = p => Joined(p)'
    BY <1>7, RunFacts
  <2>5. AtMostOne(events, p)
    <3>1. NoneOf(Leave, p) \/ NoneOf(Join, p)
      BY <2>3, <2>4 DEF NoneOf
    <3> QED  BY <1>2, <1>3, <3>1, RunFacts, SentFacts
  <2>6. AtMostOne(Way \o events, p)
    BY <1>2, <1>4, <2>2, <2>5, SentFacts
  <2>7. \A j \in DOMAIN events : events[j].project = p => (events[j].kind = "join" <=> Joined(p)')
    <3>1. \A j \in DOMAIN events : \/ \E i \in DOMAIN Leave : events[j] = Leave[i]
                                   \/ \E i \in DOMAIN Join : events[j] = Join[i]
      <4>1. \A j \in DOMAIN (Leave \o Join) :
                \/ \E i \in DOMAIN Leave : (Leave \o Join)[j] = Leave[i]
                \/ \E i \in DOMAIN Join : (Leave \o Join)[j] = Join[i]
        BY <1>2, SentFacts
      <4> QED  BY <1>3, <4>1
    <3>2. \A i \in DOMAIN Leave : Leave[i].kind # "join"
      BY RunFacts
    <3>3. \A i \in DOMAIN Join : Join[i].kind = "join"
      BY RunFacts
    <3> QED  BY <2>3, <2>4, <3>1, <3>2, <3>3
  <2>8. \A k \in DOMAIN (Way \o events) :
            (Way \o events)[k].project = p
            => ((Way \o events)[k].kind = "join" <=> Joined(p)')
    BY <1>10, <2>2, <2>7 DEF NoneOf
  <2>9. ~NoneOf(Way \o events, p)
    BY <1>10, <1>12
  <2> QED  BY <1>1, <2>6, <2>8, <2>9 DEF RoomInv
<1> QED  BY <1>11, <1>12

\* The server: an event of another project does not matter; of the room itself it was the
\* only one, and leaves the room as the effect has it.
LEMMA HandleRoom ==
    ASSUME RoomsTypeOK, RoomsInv, NEW p \in Projects, spoiled'[p] = {},
           NEW i \in DOMAIN arriving, HandleJoin(i) \/ HandleLeave(i) \/ RefuseEvent(i)
    PROVE  RoomInv(p)'
<1> DEFINE rest == RemoveAt(arriving, i)
<1>1. arriving \in Seq(RoomEvent) /\ arriving[i] \in RoomEvent
  BY RoomsTypeFacts, EventsOf
<1>2. arriving[i].project \in Projects /\ arriving[i].kind \in {"join", "leave"}
  BY <1>1 DEF RoomEvent
<1>3. link = "up"
  <2>1. arriving # <<>>
    OBVIOUS
  <2> QED  BY <2>1 DEF RoomsInv, LinkInv
<1>4. Way = arriving /\ Way' = rest /\ (Joined(p)' <=> Joined(p))
  BY <1>3 DEF Way, Joined, HandleJoin, HandleLeave, RefuseEvent
<1>5. spoiled[p] = {} /\ (RefuseEvent(i) => arriving[i].project # p)
  BY <1>2 DEF HandleJoin, HandleLeave, RefuseEvent, RoomsTypeOK
<1>6. RoomInv(p)
  BY <1>5 DEF RoomsInv
<1>7. /\ AtMostOne(rest, p)
      /\ \A k \in DOMAIN rest : \E j \in DOMAIN arriving : rest[k] = arriving[j]
      /\ arriving[i].project = p => NoneOf(rest, p)
      /\ arriving[i].project # p => (NoneOf(rest, p) <=> NoneOf(arriving, p))
  BY <1>1, <1>4, <1>6, HandledFacts DEF RoomInv
<1> HIDE DEF rest
<1>8. \A k \in DOMAIN rest : rest[k].project = p => (rest[k].kind = "join" <=> Joined(p))
  BY <1>4, <1>6, <1>7 DEF RoomInv
<1>9. NoneOf(rest, p) => (p \in rooms' <=> Joined(p))
  <2>1. CASE arriving[i].project = p
    <3>1. arriving[i].kind = "join" <=> Joined(p)
      BY <1>4, <1>6, <2>1 DEF RoomInv
    <3>2. CASE HandleJoin(i)
      BY <2>1, <3>1, <3>2 DEF HandleJoin
    <3>3. CASE HandleLeave(i)
      BY <2>1, <3>1, <3>3 DEF HandleLeave
    <3> QED  BY <1>5, <2>1, <3>2, <3>3
  <2>2. CASE arriving[i].project # p
    <3>1. p \in rooms' <=> p \in rooms
      BY <2>2 DEF HandleJoin, HandleLeave, RefuseEvent
    <3> QED  BY <1>4, <1>6, <1>7, <2>2, <3>1 DEF RoomInv
  <2> QED  BY <2>1, <2>2
<1> QED  BY <1>4, <1>7, <1>8, <1>9 DEF RoomInv

LEMMA RoomsInvStep == RoomsTypeOK /\ RoomsInv /\ [RoomsNext]_roomsVars => RoomsInv'
<1> SUFFICES ASSUME RoomsTypeOK, RoomsInv, [RoomsNext]_roomsVars,
                    NEW p \in Projects, spoiled'[p] = {}
             PROVE  RoomInv(p)'
  BY LinkStep DEF RoomsInv
<1>1. spoiled[p] = {} => RoomInv(p)
  BY DEF RoomsInv
<1>2. CASE MakeSocket
  <2>1. effect # NoEffect => effect.socket \in Nat /\ effect.socket <= sockets
    BY RoomsTypeFacts DEF RoomsInv, LinkInv
  <2>2. effect' = effect /\ newSocket' = sockets + 1 /\ sockets \in Nat
    BY <1>2, RoomsTypeFacts DEF MakeSocket
  <2>3. ~Joined(p)'
    BY <2>1, <2>2 DEF Joined
  <2>4. Way' = <<>> /\ rooms' = {}
    BY <1>2 DEF MakeSocket, LoseConnection, Way
  <2> QED  BY <2>3, <2>4 DEF RoomInv, AtMostOne, NoneOf
<1>3. CASE LeaveDashboard
  <2>1. ~Joined(p)'
    BY <1>3, RoomsTypeFacts DEF LeaveDashboard, Joined
  <2>2. Way' = <<>> /\ rooms' = {}
    BY <1>3 DEF LeaveDashboard, LoseConnection, Way
  <2> QED  BY <2>1, <2>2 DEF RoomInv, AtMostOne, NoneOf
<1>4. CASE ConnectSocket
  <2>1. Way' = Way /\ rooms' = rooms /\ (Joined(p)' <=> Joined(p)) /\ spoiled' = spoiled
    BY <1>4 DEF ConnectSocket, Way, Joined
  <2> QED  BY <1>1, <2>1 DEF RoomInv
<1>5. CASE DropConnection \/ RejectConnection
  <2>1. ~Joined(p)'
    <3>1. SUFFICES ASSUME effect # NoEffect, effect.socket = newSocket, effect.project = p
                   PROVE  FALSE
      BY <1>5 DEF DropConnection, RejectConnection, Joined
    <3>2. spoiled'[p] = spoiled[p] \union {"dropped"}
      BY <1>5, <3>1 DEF DropConnection, RejectConnection, Unheard, RoomsTypeOK
    <3> QED  BY <3>2
  <2>2. Way' = <<>> /\ rooms' = {}
    BY <1>5 DEF DropConnection, RejectConnection, LoseConnection, Way, RoomsInv, LinkInv
  <2> QED  BY <2>1, <2>2 DEF RoomInv, AtMostOne, NoneOf
<1>6. ASSUME NEW q \in Projects \union {NoProject}, ShowPage(q) PROVE RoomInv(p)'
  <2>1. Way' = Way /\ rooms' = rooms /\ (Joined(p)' <=> Joined(p)) /\ spoiled' = spoiled
    BY <1>6 DEF ShowPage, Way, Joined
  <2> QED  BY <1>1, <2>1 DEF RoomInv
<1>7. CASE RunEffect
  BY <1>7, RunRoom
<1>8. ASSUME NEW i \in DOMAIN arriving, HandleJoin(i) \/ HandleLeave(i) \/ RefuseEvent(i)
      PROVE  RoomInv(p)'
  BY <1>8, HandleRoom
<1>9. CASE UNCHANGED roomsVars
  <2>1. Way' = Way /\ rooms' = rooms /\ (Joined(p)' <=> Joined(p)) /\ spoiled' = spoiled
    BY <1>9 DEF roomsVars, Way, Joined
  <2> QED  BY <1>1, <2>1 DEF RoomInv
<1> QED  BY <1>2, <1>3, <1>4, <1>5, <1>6, <1>7, <1>8, <1>9 DEF RoomsNext

LEMMA QuietFollows == RoomsTypeOK /\ RoomsInv => RoomsFollowPage
<1> SUFFICES ASSUME RoomsTypeOK, RoomsInv, Quiet, NEW p \in Projects, spoiled[p] = {}
             PROVE  p \in rooms <=> p = projectId
  BY DEF RoomsFollowPage
<1>1. Way = <<>> /\ held = newSocket /\ held # 0 /\ effect = Wanted
  BY DEF Quiet, Way, EffectDue, RoomsInv, LinkInv
<1>2. RoomInv(p)
  BY DEF RoomsInv
<1>3. p \in rooms <=> Joined(p)
  BY <1>1, <1>2 DEF RoomInv, NoneOf
<1>4. NoProject # p
  BY RoomsTypeFacts
<1>5. Joined(p) <=> p = projectId
  <2>1. CASE projectId = NoProject
    BY <1>1, <1>4, <2>1 DEF Wanted, Joined
  <2>2. CASE projectId # NoProject
    <3>1. Wanted = [socket |-> held, project |-> projectId]
      BY <1>1, <2>2 DEF Wanted
    <3>2. Wanted # NoEffect
      BY <1>1, <3>1 DEF NoEffect
    <3> QED  BY <1>1, <3>1, <3>2 DEF Joined
  <2> QED  BY <2>1, <2>2
<1> QED  BY <1>3, <1>5

\* However many tokens, sockets, pages and events there are: once nothing is under way the
\* socket is in the room of the page's project and in no other, the rooms of crossed or
\* refused events and of lost connections left out.
THEOREM SocketFollowsPage == RoomsSpec => []RoomsFollowPage
<1>1. RoomsInit => RoomsTypeOK /\ RoomsInv
  BY RoomsTypeInit, RoomsInvInit
<1>2. RoomsTypeOK /\ RoomsInv /\ [RoomsNext]_roomsVars => (RoomsTypeOK /\ RoomsInv)'
  BY RoomsTypeStep, RoomsInvStep
<1> QED  BY <1>1, <1>2, QuietFollows, PTL DEF RoomsSpec

-----------------------------------------------------------------------------
(* One page of messages *)

\* The optimistic message of a reply is in a page at most once.
OnceIn(w, d) ==
    \A i, j \in DOMAIN w : w[i] = Optimistic(d) /\ w[j] = Optimistic(d) => i = j

LEMMA PageFacts ==
    ASSUME NEW w \in Seq(Entry)
    PROVE  /\ Len(w) \in Nat /\ DOMAIN w = 1 .. Len(w)
           /\ \A i \in DOMAIN w : w[i] \in Entry
<1>1. DOMAIN w = 1 .. Len(w) /\ Len(w) \in Nat
  BY LenProperties
<1>2. \A i \in DOMAIN w : w[i] \in Entry
  BY <1>1, ElementOfSeq
<1> QED  BY <1>1, <1>2

LEMMA EntryFacts ==
    /\ \A n \in {0} \union Ids : Message(n) \in Entry
    /\ \A d \in Drafts : Optimistic(d) \in Entry /\ Failed(d) \in Entry
    /\ \A d \in Drafts : \A n : Optimistic(d) # Message(n)
    /\ \A d, b \in Drafts : /\ Optimistic(d) # Failed(b)
                            /\ d # b => Optimistic(d) # Optimistic(b)
<1>1. NoDraft \notin Drafts
  BY InboxAssumption DEF InboxAssumption
<1>2. \A n \in {0} \union Ids : Message(n) \in Entry
  BY DEF Message, Entry
<1>3. \A d \in Drafts : Optimistic(d) \in Entry /\ Failed(d) \in Entry
  BY DEF Optimistic, Failed, Entry
<1>4. \A d \in Drafts : \A n : Optimistic(d) # Message(n)
  BY <1>1 DEF Optimistic, Message
<1>5. \A d : Optimistic(d).failed = FALSE /\ Optimistic(d).draft = d
  BY DEF Optimistic
<1>6. \A d : Failed(d).failed = TRUE
  BY DEF Optimistic, Failed
<1> QED  BY <1>2, <1>3, <1>4, <1>5, <1>6

\* The filter of a page: nothing but the optimistic message is gone.
LEMMA WithoutFacts ==
    ASSUME NEW w \in Seq(Entry), NEW d \in Drafts, OnceIn(w, d)
    PROVE  /\ Without(w, Optimistic(d)) \in Seq(Entry)
           /\ \A e : Shows(Without(w, Optimistic(d)), e) <=> Shows(w, e) /\ e # Optimistic(d)
           /\ \A b \in Drafts : OnceIn(w, b) => OnceIn(Without(w, Optimistic(d)), b)
<1> DEFINE o == Optimistic(d)
<1>1. CASE ~Shows(w, o)
  BY <1>1 DEF Without, Shows
<1>2. CASE Shows(w, o)
  <2> DEFINE p == CHOOSE i \in DOMAIN w : w[i] = o
             r == RemoveAt(w, p)
  <2>1. p \in DOMAIN w /\ w[p] = o
    BY <1>2 DEF Shows
  <2>2. Without(w, o) = r
    BY <1>2 DEF Without
  <2> HIDE DEF p
  <2>3. r \in Seq(Entry) /\ Len(r) = Len(w) - 1
    BY <2>1, RemovedAt
  <2>4. /\ Len(w) \in Nat /\ DOMAIN w = 1 .. Len(w) /\ p \in 1 .. Len(w)
        /\ DOMAIN r = 1 .. Len(w) - 1
    BY <2>1, <2>3, PageFacts
  <2>5. \A k \in DOMAIN r : r[k] = IF k < p THEN w[k] ELSE w[k + 1]
    BY <2>1, <2>4, RemovedAt
  <2> HIDE DEF r, o
  <2>6. ASSUME NEW k \in DOMAIN r
        PROVE  \E j \in DOMAIN w : r[k] = w[j] /\ j # p /\ j = IF k < p THEN k ELSE k + 1
    BY <2>4, <2>5
  <2>7. ASSUME NEW j \in DOMAIN w, j # p PROVE \E k \in DOMAIN r : r[k] = w[j]
    <3>1. CASE j < p
      <4>1. j \in DOMAIN r
        BY <2>4, <3>1
      <4> QED  BY <2>5, <3>1, <4>1
    <3>2. CASE ~(j < p)
      <4>1. j - 1 \in DOMAIN r /\ ~(j - 1 < p) /\ j - 1 + 1 = j
        BY <2>4, <2>7, <3>2
      <4> QED  BY <2>5, <4>1
    <3> QED  BY <3>1, <3>2
  <2>8. \A j \in DOMAIN w : w[j] = o => j = p
    BY <2>1 DEF OnceIn, o
  <2>9. ASSUME NEW e PROVE Shows(r, e) <=> Shows(w, e) /\ e # o
    <3>1. Shows(r, e) => Shows(w, e) /\ e # o
      BY <2>6, <2>8 DEF Shows
    <3>2. Shows(w, e) /\ e # o => Shows(r, e)
      BY <2>1, <2>7 DEF Shows
    <3> QED  BY <3>1, <3>2
  <2>10. ASSUME NEW b \in Drafts, OnceIn(w, b) PROVE OnceIn(r, b)
    BY <2>4, <2>6, <2>10 DEF OnceIn
  <2> QED  BY <2>2, <2>3, <2>9, <2>10 DEF o
<1> QED  BY <1>1, <1>2

\* The map of a page: the one message becomes the other, and nothing else changes.
LEMMA ReplaceFacts ==
    ASSUME NEW w \in Seq(Entry), NEW d \in Drafts, NEW new \in Entry,
           \A b \in Drafts : new # Optimistic(b)
    PROVE  /\ ReplaceAll(w, Optimistic(d), new) \in Seq(Entry)
           /\ \A e : Shows(w, e) /\ e # Optimistic(d) => Shows(ReplaceAll(w, Optimistic(d), new), e)
           /\ Shows(w, Optimistic(d)) => Shows(ReplaceAll(w, Optimistic(d), new), new)
           /\ \A b \in Drafts : Shows(ReplaceAll(w, Optimistic(d), new), Optimistic(b))
                                => Shows(w, Optimistic(b)) /\ b # d
           /\ \A b \in Drafts : OnceIn(w, b) => OnceIn(ReplaceAll(w, Optimistic(d), new), b)
<1> DEFINE r == ReplaceAll(w, Optimistic(d), new)
<1>1. Len(w) \in Nat /\ DOMAIN w = 1 .. Len(w) /\ \A i \in DOMAIN w : w[i] \in Entry
  BY PageFacts
<1>2. DOMAIN r = DOMAIN w
  BY <1>1 DEF ReplaceAll
<1>3. \A i \in DOMAIN w : r[i] = IF w[i] = Optimistic(d) THEN new ELSE w[i]
  BY <1>1 DEF ReplaceAll
<1>4. r \in [1 .. Len(w) -> Entry]
  BY <1>1 DEF ReplaceAll
<1>5. r \in Seq(Entry)
  BY <1>1, <1>4, SeqDef
<1> HIDE DEF r
<1>6. \A b \in Drafts : Shows(r, Optimistic(b)) => Shows(w, Optimistic(b)) /\ b # d
  BY <1>2, <1>3 DEF Shows
<1>7. ASSUME NEW b \in Drafts, OnceIn(w, b) PROVE OnceIn(r, b)
  BY <1>2, <1>3, <1>7 DEF OnceIn
<1>8. /\ \A e : Shows(w, e) /\ e # Optimistic(d) => Shows(r, e)
      /\ Shows(w, Optimistic(d)) => Shows(r, new)
  BY <1>2, <1>3 DEF Shows
<1> QED  BY <1>5, <1>6, <1>7, <1>8 DEF r

\* A message at the end of a page.
LEMMA AppendFacts ==
    ASSUME NEW w \in Seq(Entry), NEW e \in Entry
    PROVE  /\ Append(w, e) \in Seq(Entry)
           /\ \A x : Shows(Append(w, e), x) <=> Shows(w, x) \/ x = e
           /\ \A b \in Drafts : OnceIn(w, b) /\ (Shows(w, e) => e # Optimistic(b))
                                => OnceIn(Append(w, e), b)
<1> DEFINE r == Append(w, e)
<1>1. Len(w) \in Nat /\ DOMAIN w = 1 .. Len(w)
  BY PageFacts
<1>2. r \in Seq(Entry) /\ Len(r) = Len(w) + 1
  BY AppendProperties
<1>3. DOMAIN r = 1 .. Len(w) + 1
  BY <1>1, <1>2, PageFacts
<1>4. /\ \A i \in 1 .. Len(w) : r[i] = w[i]
      /\ r[Len(w) + 1] = e
  BY AppendProperties
<1> HIDE DEF r
<1>5. \A i \in DOMAIN r : i = Len(w) + 1 \/ i \in DOMAIN w
  BY <1>1, <1>3
<1>6. DOMAIN w \subseteq DOMAIN r /\ Len(w) + 1 \in DOMAIN r
  BY <1>1, <1>3
<1>7. \A x : Shows(r, x) <=> Shows(w, x) \/ x = e
  BY <1>1, <1>4, <1>5, <1>6 DEF Shows
<1>8. ASSUME NEW b \in Drafts, OnceIn(w, b), Shows(w, e) => e # Optimistic(b)
      PROVE  OnceIn(r, b)
  BY <1>1, <1>4, <1>5, <1>8 DEF OnceIn, Shows
<1> QED  BY <1>2, <1>7, <1>8 DEF r

\* A page of the server.
LEMMA ServedFacts ==
    ASSUME NEW newest \in 0 .. LastMessage
    PROVE  /\ PageUpTo(newest) \in Seq(Entry)
           /\ \A d \in Drafts : ~Shows(PageUpTo(newest), Optimistic(d))
           /\ \A d \in Drafts : OnceIn(PageUpTo(newest), d)
<1> DEFINE size == IF newest < PageLimit THEN newest ELSE PageLimit
           w == [i \in 1 .. size |-> Message(newest - size + i)]
<1>1. LastMessage \in Nat /\ PageLimit \in Nat \ {0}
  BY InboxAssumption DEF InboxAssumption
<1>2. size \in Nat /\ size <= newest /\ newest \in Nat /\ newest <= LastMessage
  BY <1>1
<1> HIDE DEF size
<1>3. \A i \in 1 .. size : newest - size + i \in Ids
  BY <1>1, <1>2 DEF Ids
<1>4. w \in [1 .. size -> Entry] /\ \A i \in 1 .. size : w[i] = Message(newest - size + i)
  BY <1>3, EntryFacts
<1>5. w \in Seq(Entry)
  BY <1>2, <1>4, SeqDef
<1>6. PageUpTo(newest) = w
  BY DEF PageUpTo, size
<1>7. \A d \in Drafts : \A i \in DOMAIN w : w[i] # Optimistic(d)
  BY <1>4, EntryFacts
<1> HIDE DEF w
<1> QED  BY <1>5, <1>6, <1>7 DEF Shows, OnceIn

-----------------------------------------------------------------------------
(* The pages of the query *)

In(pages, e) == \E k \in DOMAIN pages : Shows(pages[k], e)

Once(pages) == \A k \in DOMAIN pages : \A d \in Drafts : OnceIn(pages[k], d)

PageLists == Seq(Seq(Entry))

LEMMA PagesFacts ==
    ASSUME NEW pages \in PageLists
    PROVE  /\ Len(pages) \in Nat /\ DOMAIN pages = 1 .. Len(pages)
           /\ \A k \in DOMAIN pages : pages[k] \in Seq(Entry)
           /\ pages # <<>> => 1 \in DOMAIN pages /\ Len(pages) \in DOMAIN pages
<1>1. pages \in Seq(Seq(Entry))
  BY DEF PageLists
<1>2. DOMAIN pages = 1 .. Len(pages) /\ Len(pages) \in Nat
  BY <1>1, LenProperties
<1>3. \A k \in DOMAIN pages : pages[k] \in Seq(Entry)
  BY <1>1, <1>2, ElementOfSeq
<1>4. pages # <<>> => Len(pages) # 0
  BY <1>1, EmptySeq
<1> QED  BY <1>2, <1>3, <1>4

\* The empty cache shows nothing.
LEMMA NoPages ==
    /\ <<>> \in PageLists /\ Once(<<>>)
    /\ \A e : ~In(<<>>, e)
<1>1. <<>> \in PageLists
  BY EmptySeq DEF PageLists
<1> QED  BY <1>1 DEF In, Once

\* A page that is there changes.
LEMMA ChangedPages ==
    ASSUME NEW pages \in PageLists, NEW new,
           DOMAIN new = DOMAIN pages, new = [k \in DOMAIN pages |-> new[k]],
           \A k \in DOMAIN pages : new[k] \in Seq(Entry)
    PROVE  new \in PageLists /\ (pages # <<>> => new # <<>>)
<1>1. Len(pages) \in Nat /\ DOMAIN pages = 1 .. Len(pages)
  BY PagesFacts
<1>2. new \in [1 .. Len(pages) -> Seq(Entry)]
  BY <1>1
<1>3. new \in Seq(Seq(Entry))
  BY <1>1, <1>2, SeqDef
<1>4. pages # <<>> => 1 \in DOMAIN new
  BY PagesFacts
<1> QED  BY <1>3, <1>4 DEF PageLists

\* Another page from the server shows no optimistic message.
LEMMA AnotherPage ==
    ASSUME NEW pages \in PageLists, NEW w \in Seq(Entry),
           \A d \in Drafts : ~Shows(w, Optimistic(d)) /\ OnceIn(w, d)
    PROVE  /\ Append(pages, w) \in PageLists /\ Append(pages, w) # <<>>
           /\ \A d \in Drafts : In(Append(pages, w), Optimistic(d)) => In(pages, Optimistic(d))
           /\ Once(pages) => Once(Append(pages, w))
<1> DEFINE r == Append(pages, w)
<1>1. pages \in Seq(Seq(Entry)) /\ Len(pages) \in Nat /\ DOMAIN pages = 1 .. Len(pages)
  BY PagesFacts DEF PageLists
<1>2. /\ r \in Seq(Seq(Entry)) /\ Len(r) = Len(pages) + 1
      /\ \A k \in 1 .. Len(pages) : r[k] = pages[k]
      /\ r[Len(pages) + 1] = w
  BY <1>1, AppendProperties
<1>3. r # <<>>
  BY <1>1, AppendProperties
<1>4. DOMAIN r = 1 .. Len(pages) + 1
  BY <1>1, <1>2, LenProperties
<1> HIDE DEF r
<1>5. \A k \in DOMAIN r : (k \in DOMAIN pages /\ r[k] = pages[k]) \/ r[k] = w
  BY <1>1, <1>2, <1>4
<1>6. \A d \in Drafts : In(r, Optimistic(d)) => In(pages, Optimistic(d))
  BY <1>5 DEF In
<1>7. Once(pages) => Once(r)
  BY <1>5 DEF Once
<1> QED  BY <1>2, <1>3, <1>6, <1>7 DEF r, PageLists

-----------------------------------------------------------------------------
(* Types of the inbox *)

\* What a fetch needs to go on: the page below its cursor has messages.
CursorInv ==
    /\ fetch.pc = "answered" => fetch.pages # <<>>
    /\ fetch.pc = "asked" /\ fetch.pages # <<>> => HasMore(fetch.pages)

LEMMA InboxTypeFacts ==
    ASSUME InboxTypeOK
    PROVE  /\ cache.shape \in {"none", "pages", "list"} /\ cache.pages \in PageLists
           /\ cache = [shape |-> cache.shape, pages |-> cache.pages]
           /\ fetch.pages \in PageLists /\ fetch.wanted \in Nat
           /\ fetch.pc \in {"idle", "asked", "answered"}
           /\ fetch.known \in SUBSET Drafts /\ fetch.sending \in SUBSET Drafts
           /\ thread \in 0 .. LastMessage /\ LastMessage \in Nat
           /\ \A d \in Drafts : draft[d] \in Draft /\ draft[d].id \in {0} \union Ids
<1>1. cache \in Cache /\ fetch \in Fetch /\ draft \in [Drafts -> Draft] /\ thread \in 0 .. LastMessage
  BY DEF InboxTypeOK
<1>2. LastMessage \in Nat
  BY InboxAssumption DEF InboxAssumption
<1>3. cache.shape \in {"none", "pages", "list"} /\ cache.pages \in PageLists
  BY <1>1 DEF Cache, PageLists
<1>4. cache = [shape |-> cache.shape, pages |-> cache.pages]
  BY <1>1 DEF Cache
<1>5. /\ fetch.pages \in PageLists /\ fetch.wanted \in Nat
      /\ fetch.pc \in {"idle", "asked", "answered"}
      /\ fetch.known \in SUBSET Drafts /\ fetch.sending \in SUBSET Drafts
  BY <1>1 DEF Fetch, PageLists
<1>6. \A d \in Drafts : draft[d] \in Draft /\ draft[d].id \in {0} \union Ids
  BY <1>1 DEF Draft
<1> QED  BY <1>1, <1>2, <1>3, <1>4, <1>5, <1>6

LEMMA DataTypes ==
    /\ \A shape \in {"none", "pages", "list"}, pages \in PageLists :
          [shape |-> shape, pages |-> pages] \in Cache
    /\ \A pc \in {"idle", "asked", "answered"}, pages \in PageLists, wanted \in Nat,
          seen, sending \in SUBSET Drafts :
          [pc |-> pc, pages |-> pages, wanted |-> wanted, known |-> seen, sending |-> sending]
          \in Fetch
    /\ NoData \in Cache /\ NoFetch \in Fetch
<1>1. <<>> \in PageLists
  BY NoPages
<1> QED  BY <1>1 DEF Cache, Fetch, PageLists, NoData, NoFetch

\* The page that was asked for: the newest, or that below the cursor.
LEMMA AnswerFacts ==
    ASSUME InboxTypeOK, CursorInv, ReadPage
    PROVE  \E w \in Seq(Entry) :
              /\ \A d \in Drafts : ~Shows(w, Optimistic(d)) /\ OnceIn(w, d)
              /\ fetch' = [fetch EXCEPT !.pc = "answered", !.pages = Append(fetch.pages, w)]
<1> DEFINE newest == IF fetch.pages = <<>> THEN thread ELSE NextCursor(fetch.pages) - 1
<1>1. fetch' = [fetch EXCEPT !.pc = "answered",
                             !.pages = Append(fetch.pages, PageUpTo(newest))]
  BY DEF ReadPage
<1>2. newest \in 0 .. LastMessage
  <2>1. CASE fetch.pages = <<>>
    BY <2>1, InboxTypeFacts
  <2>2. CASE fetch.pages # <<>>
    <3> DEFINE w == fetch.pages[Len(fetch.pages)]
    <3>1. w \in Seq(Entry)
      BY <2>2, InboxTypeFacts, PagesFacts
    <3>2. HasMore(fetch.pages) /\ NextCursor(fetch.pages) # 0
      BY <2>2 DEF ReadPage, CursorInv
    <3>3. Len(w) >= PageLimit /\ PageLimit \in Nat \ {0}
      BY <3>2, InboxAssumption DEF HasMore, Last, InboxAssumption
    <3>4. Len(w) \in DOMAIN w
      BY <3>1, <3>3, PageFacts
    <3>5. w[Len(w)] \in Entry
      BY <3>1, <3>4, PageFacts
    <3>6. NextCursor(fetch.pages) = w[Len(w)].id
      BY DEF NextCursor, Last
    <3> HIDE DEF w
    <3>7. NextCursor(fetch.pages) \in {0} \union Ids
      BY <3>5, <3>6 DEF Entry
    <3> QED  BY <2>2, <3>2, <3>7, InboxTypeFacts DEF Ids
  <2> QED  BY <2>1, <2>2
<1> HIDE DEF newest
<1> QED  BY <1>1, <1>2, ServedFacts

-----------------------------------------------------------------------------
(* What the steps make of the cache *)

\* A message at the end of the first page.
LEMMA FirstAppended ==
    ASSUME NEW pages \in PageLists, pages # <<>>, NEW e \in Entry
    PROVE  /\ [pages EXCEPT ![1] = Append(@, e)] \in PageLists
           /\ [pages EXCEPT ![1] = Append(@, e)] # <<>>
           /\ \A x : In([pages EXCEPT ![1] = Append(@, e)], x) <=> In(pages, x) \/ x = e
           /\ Once(pages) /\ (\A b \in Drafts : e = Optimistic(b) => ~In(pages, e))
              => Once([pages EXCEPT ![1] = Append(@, e)])
<1> DEFINE new == [pages EXCEPT ![1] = Append(@, e)]
<1>1. 1 \in DOMAIN pages /\ \A k \in DOMAIN pages : pages[k] \in Seq(Entry)
  BY PagesFacts
<1>2. /\ DOMAIN new = DOMAIN pages
      /\ new = [k \in DOMAIN pages |-> new[k]]
      /\ new[1] = Append(pages[1], e)
      /\ \A k \in DOMAIN pages : k # 1 => new[k] = pages[k]
  BY <1>1
<1> HIDE DEF new
<1> DEFINE w == pages[1]
           r == Append(w, e)
<1>3. w \in Seq(Entry)
  BY <1>1
<1> HIDE DEF w
<1>4. /\ r \in Seq(Entry) /\ \A x : Shows(r, x) <=> Shows(w, x) \/ x = e
      /\ \A b \in Drafts : OnceIn(w, b) /\ (Shows(w, e) => e # Optimistic(b)) => OnceIn(r, b)
  BY <1>3, AppendFacts
<1>5. new[1] = r /\ w = pages[1]
  BY <1>2 DEF w
<1> HIDE DEF r
<1>6. new[1] \in Seq(Entry) /\ \A x : Shows(new[1], x) <=> Shows(pages[1], x) \/ x = e
  BY <1>4, <1>5
<1>7. \A k \in DOMAIN pages : new[k] \in Seq(Entry)
  BY <1>1, <1>2, <1>6
<1>8. new \in PageLists /\ new # <<>>
  BY <1>2, <1>7, ChangedPages
<1>9. ASSUME NEW x PROVE In(new, x) <=> In(pages, x) \/ x = e
  BY <1>1, <1>2, <1>6 DEF In
<1>10. ASSUME Once(pages), \A b \in Drafts : e = Optimistic(b) => ~In(pages, e)
      PROVE  Once(new)
  <2>1. \A d \in Drafts : OnceIn(pages[1], d) /\ (Shows(pages[1], e) => e # Optimistic(d))
    BY <1>1, <1>10 DEF Once, In
  <2>2. \A d \in Drafts : OnceIn(new[1], d)
    BY <1>4, <1>5, <2>1
  <2> QED  BY <1>1, <1>2, <1>10, <2>2 DEF Once
<1> QED  BY <1>8, <1>9, <1>10 DEF new

\* A page at the end of a request: the optimistic message has become what it became.
LEMMA EndedPage ==
    ASSUME InboxTypeOK, NEW w \in Seq(Entry), NEW d \in Drafts, OnceIn(w, d),
           NEW new, NEW after,
           \/ new = Message(draft[d].id) /\ after = Settled(d, w)
           \/ new = Failed(d) /\ after = MarkFailed(d, w)
    PROVE  /\ after \in Seq(Entry)
           /\ \A e : Shows(w, e) /\ e # Optimistic(d) => Shows(after, e)
           /\ Shows(w, Optimistic(d)) => Shows(after, new)
           /\ \A b \in Drafts : Shows(after, Optimistic(b)) => Shows(w, Optimistic(b)) /\ b # d
           /\ \A b \in Drafts : OnceIn(w, b) => OnceIn(after, b)
<1>1. draft[d].id \in {0} \union Ids
  BY InboxTypeFacts
<1>2. new \in Entry /\ \A b \in Drafts : new # Optimistic(b)
  BY <1>1, EntryFacts
<1>3. CASE after = ReplaceAll(w, Optimistic(d), new)
  BY <1>2, <1>3, ReplaceFacts
<1>4. CASE after = Without(w, Optimistic(d)) /\ Shows(w, new)
  <2>1. /\ after \in Seq(Entry)
        /\ \A e : Shows(after, e) <=> Shows(w, e) /\ e # Optimistic(d)
        /\ \A b \in Drafts : OnceIn(w, b) => OnceIn(after, b)
    BY <1>4, WithoutFacts
  <2> QED  BY <1>2, <1>4, <2>1
<1> QED  BY <1>3, <1>4 DEF Settled, MarkFailed

\* The whole cache at the end of a request.
LEMMA EndedCache ==
    ASSUME InboxTypeOK, Once(cache.pages), NEW d \in Drafts, NEW new,
           \/ new = Message(draft[d].id) /\ AnswerReply(d)
           \/ new = Failed(d) /\ FailReply(d)
    PROVE  /\ cache'.shape = cache.shape /\ cache'.pages \in PageLists /\ cache' \in Cache
           /\ cache.pages # <<>> => cache'.pages # <<>>
           /\ cache.shape # "pages" => cache' = cache
           /\ Once(cache'.pages)
           /\ cache.shape = "pages" =>
                 /\ \A e : In(cache.pages, e) /\ e # Optimistic(d) => In(cache'.pages, e)
                 /\ In(cache.pages, Optimistic(d)) => In(cache'.pages, new)
                 /\ \A b \in Drafts : In(cache'.pages, Optimistic(b))
                                      => In(cache.pages, Optimistic(b)) /\ b # d
<1>1. CASE cache.shape # "pages"
  <2>1. cache' = cache
    BY <1>1 DEF AnswerReply, FailReply, InPages
  <2> QED  BY <1>1, <2>1, InboxTypeFacts DEF InboxTypeOK
<1>2. CASE cache.shape = "pages"
  <2> DEFINE f == cache'.pages
  <2>1. cache' = [cache EXCEPT !.pages = f] /\ DOMAIN f = DOMAIN cache.pages
        /\ f = [k \in DOMAIN cache.pages |-> f[k]]
    <3>1. CASE AnswerReply(d)
      <4>1. cache' = [cache EXCEPT !.pages = [k \in DOMAIN cache.pages |->
                                                 Settled(d, cache.pages[k])]]
        BY <1>2, <3>1 DEF AnswerReply, InPages
      <4> QED  BY <4>1, InboxTypeFacts
    <3>2. CASE FailReply(d)
      <4>1. cache' = [cache EXCEPT !.pages = [k \in DOMAIN cache.pages |->
                                                 MarkFailed(d, cache.pages[k])]]
        BY <1>2, <3>2 DEF FailReply, InPages
      <4> QED  BY <4>1, InboxTypeFacts
    <3> QED  BY <3>1, <3>2
  <2>2. \A k \in DOMAIN cache.pages :
           \/ new = Message(draft[d].id) /\ f[k] = Settled(d, cache.pages[k])
           \/ new = Failed(d) /\ f[k] = MarkFailed(d, cache.pages[k])
    <3>1. CASE new = Message(draft[d].id) /\ AnswerReply(d)
      <4>1. cache' = [cache EXCEPT !.pages = [k \in DOMAIN cache.pages |->
                                                 Settled(d, cache.pages[k])]]
        BY <1>2, <3>1 DEF AnswerReply, InPages
      <4> QED  BY <3>1, <4>1, InboxTypeFacts
    <3>2. CASE new = Failed(d) /\ FailReply(d)
      <4>1. cache' = [cache EXCEPT !.pages = [k \in DOMAIN cache.pages |->
                                                 MarkFailed(d, cache.pages[k])]]
        BY <1>2, <3>2 DEF FailReply, InPages
      <4> QED  BY <3>2, <4>1, InboxTypeFacts
    <3> QED  BY <3>1, <3>2
  <2> DEFINE old == cache.pages
  <2>3. old \in PageLists /\ \A k \in DOMAIN old : old[k] \in Seq(Entry) /\ OnceIn(old[k], d)
    BY InboxTypeFacts, PagesFacts DEF Once
  <2> HIDE DEF f, old
  <2>4. ASSUME NEW k \in DOMAIN old
        PROVE  /\ f[k] \in Seq(Entry)
               /\ \A e : Shows(old[k], e) /\ e # Optimistic(d) => Shows(f[k], e)
               /\ Shows(old[k], Optimistic(d)) => Shows(f[k], new)
               /\ \A b \in Drafts : Shows(f[k], Optimistic(b)) => Shows(old[k], Optimistic(b)) /\ b # d
               /\ \A b \in Drafts : OnceIn(old[k], b) => OnceIn(f[k], b)
    <3> DEFINE w == old[k]
               after == f[k]
    <3>1. w \in Seq(Entry) /\ OnceIn(w, d)
      BY <2>3
    <3>2. \/ new = Message(draft[d].id) /\ after = Settled(d, w)
          \/ new = Failed(d) /\ after = MarkFailed(d, w)
      BY <2>2 DEF old
    <3> HIDE DEF w, after
    <3>3. /\ after \in Seq(Entry)
          /\ \A e : Shows(w, e) /\ e # Optimistic(d) => Shows(after, e)
          /\ Shows(w, Optimistic(d)) => Shows(after, new)
          /\ \A b \in Drafts : Shows(after, Optimistic(b)) => Shows(w, Optimistic(b)) /\ b # d
          /\ \A b \in Drafts : OnceIn(w, b) => OnceIn(after, b)
      BY <3>1, <3>2, EndedPage
    <3> QED  BY <3>3 DEF w, after
  <2>5. DOMAIN f = DOMAIN old /\ f = [k \in DOMAIN old |-> f[k]]
    BY <2>1 DEF old
  <2>6. f \in PageLists /\ (old # <<>> => f # <<>>)
    BY <2>3, <2>4, <2>5, ChangedPages
  <2>7. Once(f)
    BY <2>4, <2>5 DEF Once, old
  <2>8. /\ \A e : In(old, e) /\ e # Optimistic(d) => In(f, e)
        /\ In(old, Optimistic(d)) => In(f, new)
        /\ \A b \in Drafts : In(f, Optimistic(b)) => In(old, Optimistic(b)) /\ b # d
    BY <2>4, <2>5 DEF In
  <2>9. cache' = [shape |-> "pages", pages |-> f]
    BY <1>2, <2>1, InboxTypeFacts
  <2>10. cache' \in Cache
    BY <2>6, <2>9, DataTypes
  <2> QED  BY <1>2, <2>6, <2>7, <2>8, <2>9, <2>10 DEF f, old
<1> QED  BY <1>1, <1>2

\* The optimistic update of a reply that is not shown yet.
LEMMA SentCache ==
    ASSUME InboxTypeOK, Once(cache.pages), NEW d \in Drafts, SendReply(d),
           ~In(cache.pages, Optimistic(d)),
           cache.shape = "none" => cache.pages = <<>>,
           cache.shape # "none" => cache.pages # <<>>
    PROVE  /\ cache' \in Cache /\ cache'.shape = "pages" /\ cache'.pages # <<>>
           /\ \A x : In(cache'.pages, x) <=> In(cache.pages, x) \/ x = Optimistic(d)
           /\ Once(cache'.pages)
<1> DEFINE o == Optimistic(d)
           new == InFirstPage(o)
<1>1. o \in Entry /\ \A b \in Drafts : o = Optimistic(b) => ~In(cache.pages, o)
  BY EntryFacts
<1>2. cache' = [shape |-> "pages", pages |-> new]
  BY DEF SendReply
<1>3. new \in PageLists /\ new # <<>>
      /\ (\A x : In(new, x) <=> In(cache.pages, x) \/ x = o) /\ Once(new)
  <2>1. CASE cache.shape = "none"
    <3>1. new = << <<o>> >>
      BY <2>1 DEF InFirstPage
    <3> HIDE DEF new, o
    <3>2. DOMAIN new = {1} /\ new[1] = <<o>> /\ new # <<>>
      BY <3>1
    <3>3. DOMAIN <<o>> = {1} /\ <<o>>[1] = o /\ <<o>> \in Seq(Entry)
      BY <1>1
    <3>4. new \in PageLists
      BY <3>1, <3>3 DEF PageLists
    <3>5. \A x : In(new, x) <=> x = o
      BY <3>2, <3>3 DEF In, Shows
    <3>6. \A x : ~In(cache.pages, x)
      BY <2>1, NoPages
    <3>7. Once(new)
      BY <3>2, <3>3 DEF Once, OnceIn
    <3> QED  BY <3>2, <3>4, <3>5, <3>6, <3>7
  <2>2. CASE cache.shape # "none"
    <3>1. cache.pages \in PageLists /\ cache.pages # <<>>
      BY <2>2, InboxTypeFacts
    <3>2. new = [cache.pages EXCEPT ![1] = Append(@, o)]
      BY <2>2 DEF InFirstPage
    <3> HIDE DEF new, o
    <3> QED  BY <1>1, <3>1, <3>2, FirstAppended
  <2> QED  BY <2>1, <2>2
<1> HIDE DEF new
<1>4. cache' \in Cache
  BY <1>2, <1>3, DataTypes
<1> QED  BY <1>2, <1>3, <1>4

\* An event changes only a list, or makes one.
LEMMA HeardCache ==
    ASSUME InboxTypeOK, Once(cache.pages), NEW n \in Ids, HearMessage(n),
           cache.shape = "none" => cache.pages = <<>>,
           cache.shape # "none" => cache.pages # <<>>
    PROVE  /\ cache' \in Cache
           /\ cache' # cache => cache.shape # "pages" /\ cache'.shape = "list" /\ cache'.pages # <<>>
           /\ \A b \in Drafts : In(cache'.pages, Optimistic(b)) => In(cache.pages, Optimistic(b))
           /\ Once(cache'.pages)
<1> DEFINE m == Message(n)
<1>1. m \in Entry /\ \A b \in Drafts : m # Optimistic(b)
  BY EntryFacts
<1>2. CASE cache' = cache
  BY <1>2 DEF InboxTypeOK
<1>3. CASE cache.shape = "none" /\ cache' = [shape |-> "list", pages |-> << <<m>> >>]
  <2> HIDE DEF m
  <2> DEFINE new == << <<m>> >>
  <2>1. DOMAIN new = {1} /\ new[1] = <<m>> /\ new # <<>>
    OBVIOUS
  <2>2. DOMAIN <<m>> = {1} /\ <<m>>[1] = m /\ <<m>> \in Seq(Entry)
    BY <1>1
  <2>3. new \in PageLists
    BY <2>2 DEF PageLists
  <2>4. cache' = [shape |-> "list", pages |-> new]
    BY <1>3
  <2> HIDE DEF new
  <2>5. \A b \in Drafts : ~In(new, Optimistic(b))
    BY <1>1, <2>1, <2>2 DEF In, Shows
  <2>6. Once(new)
    BY <1>1, <2>1, <2>2 DEF Once, OnceIn
  <2>7. cache' \in Cache
    BY <2>3, <2>4, DataTypes
  <2> QED  BY <1>3, <2>1, <2>4, <2>5, <2>6, <2>7
<1>4. CASE cache.shape = "list" /\ cache' = [cache EXCEPT !.pages[1] = Append(@, m)]
  <2> DEFINE new == [cache.pages EXCEPT ![1] = Append(@, m)]
  <2>1. cache' = [shape |-> "list", pages |-> new]
    BY <1>4, InboxTypeFacts
  <2>2. cache.pages \in PageLists /\ cache.pages # <<>>
    BY <1>4, InboxTypeFacts
  <2>3. /\ new \in PageLists /\ new # <<>>
        /\ \A x : In(new, x) <=> In(cache.pages, x) \/ x = m
        /\ Once(cache.pages) /\ (\A b \in Drafts : m = Optimistic(b) => ~In(cache.pages, m))
           => Once(new)
    BY <1>1, <2>2, FirstAppended
  <2> HIDE DEF new, m
  <2>4. cache' \in Cache
    BY <2>1, <2>3, DataTypes
  <2>5. cache'.pages = new /\ cache'.shape = "list"
    BY <2>1
  <2>6. Once(new)
    BY <1>1, <2>3
  <2>7. \A b \in Drafts : In(new, Optimistic(b)) => In(cache.pages, Optimistic(b))
    BY <1>1, <2>3
  <2> QED  BY <1>4, <2>3, <2>4, <2>5, <2>6, <2>7
<1> QED  BY <1>2, <1>3, <1>4 DEF HearMessage

-----------------------------------------------------------------------------
(* The invariant of the inbox *)

\* An optimistic message is shown while its reply is under way, or was when the agent
\* scrolled up.
CacheInv ==
    /\ cache.shape = "none" => cache.pages = <<>>
    /\ cache.shape # "none" => cache.pages # <<>>
    /\ Once(cache.pages)
    /\ \A d \in Drafts : In(cache.pages, Optimistic(d)) =>
          /\ cache.shape = "pages"
          /\ draft[d].pc # "unsent"
          /\ draft[d].pc \in {"sending", "stored"} \/ d \in scrolled

\* No reply has begun since a fetch began, and what it carries over was under way then.
FetchInv ==
    /\ CursorInv
    /\ Once(fetch.pages)
    /\ fetch.pc # "idle" => Begun \subseteq fetch.known
    /\ \A d \in Drafts : In(fetch.pages, Optimistic(d)) =>
          /\ draft[d].pc # "unsent"
          /\ d \in fetch.sending \union scrolled

Follows(d) ==
    /\ draft[d].pc \in {"sending", "stored"} => cache.shape = "pages" /\ In(cache.pages, Optimistic(d))
    /\ draft[d].pc = "sent" => cache.shape = "pages" /\ In(cache.pages, Message(draft[d].id))
    /\ draft[d].pc = "failed" => cache.shape = "pages" /\ In(cache.pages, Failed(d))

RequestInv == \A d \in Drafts \ replaced : Follows(d)

InboxInv == InboxTypeOK /\ CacheInv /\ FetchInv /\ RequestInv

LEMMA InboxInvInit == InboxInit => InboxInv
<1> SUFFICES ASSUME InboxInit PROVE InboxInv
  OBVIOUS
<1>1. \A d \in Drafts : draft[d] = [pc |-> "unsent", id |-> 0]
  BY DEF InboxInit
<1>2. InboxTypeOK
  <2>1. draft \in [Drafts -> Draft]
    BY DEF InboxInit, Draft
  <2>2. thread \in 0 .. LastMessage
    BY InboxAssumption DEF InboxInit, InboxAssumption
  <2> QED  BY <2>1, <2>2, DataTypes DEF InboxInit, InboxTypeOK
<1>3. CacheInv
  BY NoPages DEF InboxInit, NoData, CacheInv
<1>4. FetchInv
  BY NoPages DEF InboxInit, NoFetch, FetchInv, CursorInv
<1>5. RequestInv
  BY <1>1 DEF RequestInv, Follows
<1> QED  BY <1>2, <1>3, <1>4, <1>5 DEF InboxInv

LEMMA BecomeFacts ==
    ASSUME InboxTypeOK, NEW d \in Drafts, Become(d, "sending") \/ Become(d, "sent") \/ Become(d, "failed")
    PROVE  /\ draft' \in [Drafts -> Draft]
           /\ draft'[d].id = draft[d].id
           /\ Become(d, "sending") => draft'[d].pc = "sending"
           /\ Become(d, "sent") => draft'[d].pc = "sent"
           /\ Become(d, "failed") => draft'[d].pc = "failed"
           /\ \A b \in Drafts : b # d => draft'[b] = draft[b]
<1>1. draft \in [Drafts -> Draft] /\ draft[d] \in Draft
  BY DEF InboxTypeOK
<1>2. PICK pc \in {"sending", "sent", "failed"} : draft' = [draft EXCEPT ![d].pc = pc]
  BY DEF Become
<1>3. [draft[d] EXCEPT !.pc = pc] \in Draft
  BY <1>1 DEF Draft
<1>4. draft'[d] = [draft[d] EXCEPT !.pc = pc] /\ \A b \in Drafts : b # d => draft'[b] = draft[b]
  BY <1>1, <1>2
<1>5. draft' \in [Drafts -> Draft]
  BY <1>1, <1>2, <1>3
<1>6. draft'[d].id = draft[d].id /\ draft'[d].pc = pc
  BY <1>1, <1>4 DEF Draft
<1>7. ASSUME NEW c \in {"sending", "sent", "failed"}, draft' = [draft EXCEPT ![d].pc = c]
      PROVE  draft'[d].pc = c
  BY <1>1, <1>7 DEF Draft
<1> QED  BY <1>4, <1>5, <1>6, <1>7 DEF Become

\* Steps of the pane, its fetches and the messages that are not this agent's.
Fetching == ReadPage \/ AskNextPage \/ FailFetch \/ OpenPane \/ ScrollUp \/ UpdateStatus

Moving ==
    \/ CrashOnRender \/ ClosePane \/ LeaveProject \/ EnterProject \/ StoreOther
    \/ \E n \in Ids : MissMessage(n)

LEMMA StepsOfInbox ==
    ASSUME InboxNext
    PROVE  \/ Fetching \/ Moving \/ FinishFetch \/ Forget \/ Reload
           \/ \E d \in Drafts : SendReply(d) \/ StoreReply(d) \/ AnswerReply(d) \/ FailReply(d)
           \/ \E n \in Ids : HearMessage(n)
  BY DEF InboxNext, Fetching, Moving

LEMMA FetchingKeeps ==
    ASSUME Fetching PROVE UNCHANGED <<thread, news, cache, draft, replaced, scrolled>>
  BY DEF Fetching, ReadPage, AskNextPage, FailFetch, OpenPane, ScrollUp, UpdateStatus

LEMMA MovingKeeps ==
    ASSUME Moving PROVE UNCHANGED <<cache, fetch, draft, replaced, scrolled>>
  BY DEF Moving, CrashOnRender, ClosePane, LeaveProject, EnterProject, Go, StoreOther, MissMessage

\* A fetch that begins: of nothing, or of the pages that are there.
LEMMA StartFacts ==
    ASSUME InboxTypeOK, OpenPane \/ ScrollUp \/ UpdateStatus
    PROVE  \/ fetch' = fetch
           \/ /\ fetch' \in Fetch /\ fetch'.pc = "asked" /\ fetch'.known = Begun
              /\ \/ fetch'.pages = <<>>
                 \/ /\ fetch'.pages = cache.pages /\ fetch'.sending = UnderWay
                    /\ cache.shape = "pages" /\ HasMore(cache.pages)
<1> DEFINE start(pages, wanted, sending) ==
              [pc |-> "asked", pages |-> pages, wanted |-> wanted, known |-> Begun,
               sending |-> sending]
<1>1. Begun \in SUBSET Drafts /\ UnderWay \in SUBSET Drafts /\ {} \in SUBSET Drafts
  BY DEF Begun, UnderWay
<1>2. cache.pages \in PageLists /\ Len(cache.pages) \in Nat /\ <<>> \in PageLists
  BY InboxTypeFacts, PagesFacts, NoPages
<1>3. CASE RefetchPages
  <2>1. PICK wanted \in Nat : fetch' = start(<<>>, wanted, {})
    BY <1>2, <1>3 DEF RefetchPages, StartFetch
  <2>2. start(<<>>, wanted, {}) \in Fetch
    BY <1>1, <1>2, DataTypes
  <2> QED  BY <2>1, <2>2
<1>4. CASE ScrollUp
  <2>1. fetch' = start(cache.pages, Len(cache.pages) + 1, UnderWay)
    BY <1>4 DEF ScrollUp, StartFetch
  <2>2. Len(cache.pages) + 1 \in Nat
    BY <1>2
  <2>3. start(cache.pages, Len(cache.pages) + 1, UnderWay) \in Fetch
    BY <1>1, <1>2, <2>2, DataTypes
  <2> QED  BY <1>4, <2>1, <2>3 DEF ScrollUp
<1> QED  BY <1>3, <1>4 DEF OpenPane, UpdateStatus

LEMMA InboxTypeStep ==
    ASSUME InboxTypeOK, CacheInv, FetchInv, [InboxNext]_inboxVars
    PROVE  InboxTypeOK'
<1>1. CASE UNCHANGED inboxVars
  BY <1>1 DEF inboxVars, InboxTypeOK
<1>2. CASE Fetching
  <2>1. fetch' \in Fetch
    <3>1. CASE ReadPage
      <4>1. PICK w \in Seq(Entry) :
               /\ \A d \in Drafts : ~Shows(w, Optimistic(d)) /\ OnceIn(w, d)
               /\ fetch' = [fetch EXCEPT !.pc = "answered", !.pages = Append(fetch.pages, w)]
        BY <3>1, AnswerFacts DEF FetchInv
      <4>2. Append(fetch.pages, w) \in PageLists
        BY <4>1, AnotherPage, InboxTypeFacts
      <4>3. fetch \in Fetch
        BY DEF InboxTypeOK
      <4> QED  BY <4>1, <4>2, <4>3 DEF Fetch, PageLists
    <3>2. CASE AskNextPage \/ FailFetch
      <4>1. fetch \in Fetch
        BY DEF InboxTypeOK
      <4>2. [fetch EXCEPT !.pc = "asked"] \in Fetch
        BY <4>1 DEF Fetch
      <4> QED  BY <3>2, <4>2, DataTypes DEF AskNextPage, FailFetch
    <3>3. CASE OpenPane \/ ScrollUp \/ UpdateStatus
      BY <3>3, StartFacts DEF InboxTypeOK
    <3> QED  BY <1>2, <3>1, <3>2, <3>3 DEF Fetching
  <2>2. page' \in {"settings", "project", "pane", "crashed"}
    BY <1>2 DEF Fetching, ReadPage, AskNextPage, FailFetch, OpenPane, ScrollUp, UpdateStatus,
                InboxTypeOK
  <2> QED  BY <1>2, <2>1, <2>2, FetchingKeeps DEF InboxTypeOK
<1>3. CASE Moving
  <2>1. page' \in {"settings", "project", "pane", "crashed"}
    BY <1>3 DEF Moving, CrashOnRender, ClosePane, LeaveProject, EnterProject, Go, StoreOther,
                MissMessage, InboxTypeOK
  <2>2. thread' \in 0 .. LastMessage /\ news' \subseteq Ids
    <3>1. CASE StoreOther
      BY <3>1, InboxTypeFacts DEF StoreOther, InboxTypeOK, Ids
    <3>2. CASE ~StoreOther
      BY <1>3, <3>2 DEF Moving, CrashOnRender, ClosePane, LeaveProject, EnterProject, Go,
                        MissMessage, InboxTypeOK
    <3> QED  BY <3>1, <3>2
  <2> QED  BY <1>3, <2>1, <2>2, MovingKeeps DEF InboxTypeOK
<1>4. CASE FinishFetch
  <2>1. cache' \in Cache
    BY <1>4, InboxTypeFacts, DataTypes DEF FinishFetch
  <2>2. replaced' \subseteq Drafts /\ scrolled' \subseteq Drafts
    BY <1>4, InboxTypeFacts DEF FinishFetch, InboxTypeOK
  <2> QED  BY <1>4, <2>1, <2>2, DataTypes DEF FinishFetch, InboxTypeOK
<1>5. CASE Forget
  BY <1>5, DataTypes DEF Forget, Begun, InboxTypeOK
<1>6. CASE Reload
  <2>1. ASSUME NEW d \in Drafts PROVE [draft[d] EXCEPT !.pc = "gone"] \in Draft
    BY InboxTypeFacts DEF Draft
  <2>2. draft' \in [Drafts -> Draft]
    BY <1>6, <2>1 DEF Reload, InboxTypeOK
  <2> QED  BY <1>6, <2>2, DataTypes DEF Reload, InboxTypeOK
<1>7. ASSUME NEW d \in Drafts, SendReply(d) PROVE InboxTypeOK'
  <2>1. ~In(cache.pages, Optimistic(d))
    BY <1>7 DEF SendReply, CacheInv
  <2>2. cache' \in Cache
    BY <1>7, <2>1, SentCache DEF CacheInv
  <2>3. draft' \in [Drafts -> Draft]
    BY <1>7, BecomeFacts DEF SendReply
  <2> QED  BY <1>7, <2>2, <2>3, DataTypes DEF SendReply, CancelFetch, InboxTypeOK
<1>8. ASSUME NEW d \in Drafts, StoreReply(d) PROVE InboxTypeOK'
  <2>1. thread + 1 \in Ids /\ thread' = thread + 1 /\ thread' \in 0 .. LastMessage
    BY <1>8, InboxTypeFacts DEF StoreReply, Ids
  <2>2. [pc |-> "stored", id |-> thread'] \in Draft
    BY <2>1 DEF Draft
  <2>3. draft' \in [Drafts -> Draft]
    BY <1>8, <2>2 DEF StoreReply, InboxTypeOK
  <2> QED  BY <1>8, <2>1, <2>3 DEF StoreReply, InboxTypeOK
<1>9. ASSUME NEW d \in Drafts, AnswerReply(d) \/ FailReply(d) PROVE InboxTypeOK'
  <2>1. cache' \in Cache
    BY <1>9, EndedCache DEF CacheInv
  <2>2. draft' \in [Drafts -> Draft]
    BY <1>9, BecomeFacts DEF AnswerReply, FailReply
  <2> QED  BY <1>9, <2>1, <2>2 DEF AnswerReply, FailReply, InboxTypeOK
<1>10. ASSUME NEW n \in Ids, HearMessage(n) PROVE InboxTypeOK'
  <2>1. cache' \in Cache
    BY <1>10, HeardCache DEF CacheInv
  <2> QED  BY <1>10, <2>1 DEF HearMessage, InboxTypeOK
<1> QED
  BY <1>1, <1>2, <1>3, <1>4, <1>5, <1>6, <1>7, <1>8, <1>9, <1>10, StepsOfInbox

LEMMA CacheStep ==
    ASSUME InboxTypeOK, CacheInv, FetchInv, [InboxNext]_inboxVars
    PROVE  CacheInv'
<1>1. CASE UNCHANGED inboxVars \/ Fetching \/ Moving
  <2>1. UNCHANGED <<cache, draft, scrolled>>
    BY <1>1, FetchingKeeps, MovingKeeps DEF inboxVars
  <2> QED  BY <2>1 DEF CacheInv
<1>2. CASE FinishFetch
  <2>1. /\ cache'.shape = "pages" /\ cache'.pages = fetch.pages /\ draft' = draft
        /\ scrolled' = scrolled \union fetch.sending /\ fetch.pages # <<>>
    BY <1>2 DEF FinishFetch, FetchInv, CursorInv
  <2> QED  BY <2>1 DEF CacheInv, FetchInv
<1>3. CASE Forget \/ Reload
  <2>1. cache'.shape = "none" /\ cache'.pages = <<>>
    BY <1>3 DEF Forget, Reload, NoData
  <2> QED  BY <2>1, NoPages DEF CacheInv
<1>4. ASSUME NEW d \in Drafts, SendReply(d) PROVE CacheInv'
  <2>1. ~In(cache.pages, Optimistic(d))
    BY <1>4 DEF SendReply, CacheInv
  <2>2. /\ cache'.shape = "pages" /\ cache'.pages # <<>>
        /\ \A x : In(cache'.pages, x) <=> In(cache.pages, x) \/ x = Optimistic(d)
        /\ Once(cache'.pages)
    BY <1>4, <2>1, SentCache DEF CacheInv
  <2>3. draft'[d].pc = "sending" /\ \A b \in Drafts : b # d => draft'[b] = draft[b]
    BY <1>4, BecomeFacts DEF SendReply
  <2>4. scrolled' = scrolled
    BY <1>4 DEF SendReply
  <2>5. ASSUME NEW b \in Drafts, In(cache'.pages, Optimistic(b))
        PROVE  draft'[b].pc # "unsent" /\ (draft'[b].pc \in {"sending", "stored"} \/ b \in scrolled')
    <3>1. CASE b = d
      BY <2>3, <3>1
    <3>2. CASE b # d
      <4>1. In(cache.pages, Optimistic(b))
        BY <2>2, <2>5, <3>2, EntryFacts
      <4> QED  BY <2>3, <2>4, <3>2, <4>1 DEF CacheInv
    <3> QED  BY <3>1, <3>2
  <2> QED  BY <2>2, <2>5 DEF CacheInv
<1>5. ASSUME NEW d \in Drafts, StoreReply(d) PROVE CacheInv'
  <2>1. cache' = cache /\ scrolled' = scrolled
    BY <1>5 DEF StoreReply
  <2>2. ASSUME NEW b \in Drafts
        PROVE  \/ draft'[b] = draft[b]
               \/ draft'[b].pc = "stored" /\ draft[b].pc = "sending"
    BY <1>5 DEF StoreReply, InboxTypeOK
  <2> QED  BY <2>1, <2>2 DEF CacheInv
<1>6. ASSUME NEW d \in Drafts, AnswerReply(d) \/ FailReply(d) PROVE CacheInv'
  <2>1. PICK new : \/ new = Message(draft[d].id) /\ AnswerReply(d)
                   \/ new = Failed(d) /\ FailReply(d)
    BY <1>6
  <2>2. /\ cache'.shape = cache.shape
        /\ cache.pages # <<>> => cache'.pages # <<>>
        /\ cache.shape # "pages" => cache' = cache
        /\ Once(cache'.pages)
        /\ cache.shape = "pages" =>
              \A b \in Drafts : In(cache'.pages, Optimistic(b))
                                => In(cache.pages, Optimistic(b)) /\ b # d
    BY <2>1, EndedCache DEF CacheInv
  <2>3. \A b \in Drafts : b # d => draft'[b] = draft[b]
    BY <1>6, BecomeFacts DEF AnswerReply, FailReply
  <2>4. scrolled' = scrolled
    BY <1>6 DEF AnswerReply, FailReply
  <2>5. \A b \in Drafts : In(cache'.pages, Optimistic(b))
                          => In(cache.pages, Optimistic(b)) /\ b # d
    BY <2>2 DEF CacheInv
  <2>6. cache'.shape = "none" => cache'.pages = <<>>
    BY <2>2 DEF CacheInv
  <2>7. cache'.shape # "none" => cache'.pages # <<>>
    BY <2>2 DEF CacheInv
  <2> QED  BY <2>2, <2>3, <2>4, <2>5, <2>6, <2>7 DEF CacheInv
<1>7. ASSUME NEW n \in Ids, HearMessage(n) PROVE CacheInv'
  <2>1. /\ cache' # cache => cache.shape # "pages" /\ cache'.shape = "list" /\ cache'.pages # <<>>
        /\ \A b \in Drafts : In(cache'.pages, Optimistic(b)) => In(cache.pages, Optimistic(b))
        /\ Once(cache'.pages)
    BY <1>7, HeardCache DEF CacheInv
  <2>2. UNCHANGED <<draft, scrolled>>
    BY <1>7 DEF HearMessage
  <2>3. ASSUME NEW b \in Drafts, In(cache'.pages, Optimistic(b)) PROVE cache' = cache
    BY <2>1, <2>3 DEF CacheInv
  <2> QED  BY <2>1, <2>2, <2>3 DEF CacheInv
<1> QED
  BY <1>1, <1>2, <1>3, <1>4, <1>5, <1>6, <1>7, StepsOfInbox

LEMMA FetchStep ==
    ASSUME InboxTypeOK, CacheInv, FetchInv, [InboxNext]_inboxVars
    PROVE  FetchInv'
<1>1. CASE UNCHANGED inboxVars \/ Moving
  <2>1. UNCHANGED <<fetch, draft, scrolled>>
    BY <1>1, MovingKeeps DEF inboxVars
  <2> QED  BY <2>1 DEF FetchInv, CursorInv, Begun
<1>2. CASE FinishFetch \/ FailFetch \/ Reload
  <2>1. fetch'.pc = "idle" /\ fetch'.pages = <<>>
    BY <1>2 DEF FinishFetch, FailFetch, Reload, NoFetch
  <2> QED  BY <2>1, NoPages DEF FetchInv, CursorInv
<1>3. CASE ReadPage
  <2>1. PICK w \in Seq(Entry) :
           /\ \A d \in Drafts : ~Shows(w, Optimistic(d)) /\ OnceIn(w, d)
           /\ fetch' = [fetch EXCEPT !.pc = "answered", !.pages = Append(fetch.pages, w)]
    BY <1>3, AnswerFacts DEF FetchInv
  <2>2. /\ fetch'.pc = "answered" /\ fetch'.pages = Append(fetch.pages, w)
        /\ fetch'.known = fetch.known /\ fetch'.sending = fetch.sending
    BY <2>1 DEF InboxTypeOK, Fetch
  <2>3. /\ Append(fetch.pages, w) # <<>>
        /\ \A d \in Drafts : In(Append(fetch.pages, w), Optimistic(d)) => In(fetch.pages, Optimistic(d))
        /\ Once(fetch.pages) => Once(Append(fetch.pages, w))
    BY <2>1, AnotherPage, InboxTypeFacts
  <2>4. UNCHANGED <<draft, scrolled>> /\ fetch.pc = "asked"
    BY <1>3 DEF ReadPage
  <2> QED  BY <2>2, <2>3, <2>4 DEF FetchInv, CursorInv, Begun
<1>4. CASE AskNextPage
  <2>1. /\ fetch'.pc = "asked" /\ fetch'.pages = fetch.pages /\ fetch'.known = fetch.known
        /\ fetch'.sending = fetch.sending /\ fetch.pc = "answered" /\ HasMore(fetch.pages)
        /\ UNCHANGED <<draft, scrolled>>
    BY <1>4 DEF AskNextPage, InboxTypeOK, Fetch
  <2>2. CursorInv'
    BY <2>1 DEF CursorInv, HasMore
  <2> QED  BY <2>1, <2>2 DEF FetchInv, Begun
<1>5. CASE OpenPane \/ ScrollUp \/ UpdateStatus
  <2>1. UNCHANGED <<draft, scrolled>>
    BY <1>5, FetchingKeeps DEF Fetching
  <2>2. CASE fetch' = fetch
    BY <2>1, <2>2 DEF FetchInv, CursorInv, Begun
  <2>3. CASE fetch'.pc = "asked" /\ fetch'.known = Begun /\ fetch'.pages = <<>>
    BY <2>1, <2>3, NoPages DEF FetchInv, CursorInv, Begun
  <2>4. CASE /\ fetch'.pc = "asked" /\ fetch'.known = Begun
             /\ fetch'.pages = cache.pages /\ fetch'.sending = UnderWay
             /\ HasMore(cache.pages)
    <3>1. CursorInv'
      BY <2>4 DEF CursorInv, HasMore
    <3>2. \A d \in Drafts : In(cache.pages, Optimistic(d)) =>
             draft[d].pc # "unsent" /\ d \in UnderWay \union scrolled
      BY DEF CacheInv, UnderWay
    <3>3. Once(fetch.pages)'
      BY <2>4 DEF CacheInv
    <3>4. (fetch.pc # "idle" => Begun \subseteq fetch.known)'
      BY <2>1, <2>4 DEF Begun
    <3> QED  BY <2>1, <2>4, <3>1, <3>2, <3>3, <3>4 DEF FetchInv
  <2> QED  BY <1>5, <2>2, <2>3, <2>4, StartFacts
<1>6. CASE Forget
  <2>1. UNCHANGED <<fetch, draft, scrolled>>
    BY <1>6 DEF Forget
  <2> QED  BY <2>1 DEF FetchInv, CursorInv, Begun
<1>7. ASSUME NEW d \in Drafts, SendReply(d) PROVE FetchInv'
  <2>1. fetch'.pc = "idle" /\ fetch'.pages = <<>>
    BY <1>7 DEF SendReply, CancelFetch, NoFetch
  <2> QED  BY <2>1, NoPages DEF FetchInv, CursorInv
<1>8. ASSUME NEW d \in Drafts, StoreReply(d) \/ AnswerReply(d) \/ FailReply(d) PROVE FetchInv'
  <2>1. UNCHANGED <<fetch, scrolled>>
    BY <1>8 DEF StoreReply, AnswerReply, FailReply
  <2>2. /\ \A b \in Drafts : b # d => draft'[b] = draft[b]
        /\ draft[d].pc # "unsent" /\ draft'[d].pc # "unsent"
    <3>1. CASE StoreReply(d)
      BY <3>1 DEF StoreReply, InboxTypeOK
    <3>2. CASE AnswerReply(d) \/ FailReply(d)
      BY <3>2, BecomeFacts DEF AnswerReply, FailReply
    <3> QED  BY <1>8, <3>1, <3>2
  <2>3. \A b \in Drafts : draft'[b].pc # "unsent" <=> draft[b].pc # "unsent"
    BY <2>2
  <2>4. Begun' = Begun
    BY <2>3 DEF Begun
  <2>5. CursorInv'
    BY <2>1 DEF FetchInv, CursorInv
  <2> QED  BY <2>1, <2>3, <2>4, <2>5 DEF FetchInv
<1>9. ASSUME NEW n \in Ids, HearMessage(n) PROVE FetchInv'
  <2>1. UNCHANGED <<fetch, draft, scrolled>>
    BY <1>9 DEF HearMessage
  <2> QED  BY <2>1 DEF FetchInv, CursorInv, Begun
<1> QED
  BY <1>1, <1>2, <1>3, <1>4, <1>5, <1>6, <1>7, <1>8, <1>9, StepsOfInbox DEF Fetching

LEMMA RequestStep ==
    ASSUME InboxInv, [InboxNext]_inboxVars
    PROVE  RequestInv'
<1> USE DEF InboxInv
<1>1. CASE UNCHANGED inboxVars \/ Fetching \/ Moving
  <2>1. UNCHANGED <<cache, draft, replaced>>
    BY <1>1, FetchingKeeps, MovingKeeps DEF inboxVars
  <2> QED  BY <2>1 DEF RequestInv, Follows
<1>2. CASE FinishFetch
  <2>1. draft' = draft /\ replaced' = replaced \union fetch.known /\ Begun \subseteq fetch.known
    BY <1>2 DEF FinishFetch, FetchInv
  <2>2. \A d \in Drafts \ replaced' : draft'[d].pc = "unsent"
    BY <2>1 DEF Begun
  <2> QED  BY <2>2 DEF RequestInv, Follows
<1>3. CASE Forget
  <2>1. \A d \in Drafts \ replaced' : draft'[d].pc = "unsent"
    BY <1>3 DEF Forget, Begun
  <2> QED  BY <2>1 DEF RequestInv, Follows
<1>4. CASE Reload
  <2>1. \A d \in Drafts : draft'[d].pc \in {"unsent", "gone"}
    <3>1. ASSUME NEW d \in Drafts, draft[d].pc # "unsent" PROVE draft'[d].pc = "gone"
      <4>1. draft[d] \in Draft
        BY DEF InboxTypeOK
      <4>2. draft'[d] = [draft[d] EXCEPT !.pc = "gone"]
        BY <1>4, <3>1 DEF Reload, Begun
      <4> QED  BY <4>1, <4>2 DEF Draft
    <3>2. ASSUME NEW d \in Drafts, draft[d].pc = "unsent" PROVE draft'[d].pc = "unsent"
      BY <1>4, <3>2 DEF Reload, Begun
    <3> QED  BY <3>1, <3>2
  <2> QED  BY <2>1 DEF RequestInv, Follows
<1>5. ASSUME NEW d \in Drafts, SendReply(d), NEW b \in Drafts \ replaced' PROVE Follows(b)'
  <2>1. ~In(cache.pages, Optimistic(d))
    BY <1>5 DEF SendReply, CacheInv
  <2>2. /\ cache'.shape = "pages"
        /\ \A x : In(cache'.pages, x) <=> In(cache.pages, x) \/ x = Optimistic(d)
    BY <1>5, <2>1, SentCache DEF CacheInv
  <2>3. draft'[d].pc = "sending" /\ \A c \in Drafts : c # d => draft'[c] = draft[c]
    BY <1>5, BecomeFacts DEF SendReply
  <2>4. CASE b = d
    BY <2>2, <2>3, <2>4 DEF Follows
  <2>5. CASE b # d
    <3>1. Follows(b)
      BY <1>5 DEF SendReply, RequestInv
    <3> QED  BY <2>2, <2>3, <2>5, <3>1 DEF Follows
  <2> QED  BY <2>4, <2>5
<1>6. ASSUME NEW d \in Drafts, StoreReply(d), NEW b \in Drafts \ replaced' PROVE Follows(b)'
  <2>1. Follows(b) /\ cache' = cache
    BY <1>6 DEF StoreReply, RequestInv
  <2>2. CASE b = d
    <3>1. draft'[b].pc = "stored" /\ draft[b].pc = "sending"
      BY <1>6, <2>2 DEF StoreReply, InboxTypeOK
    <3> QED  BY <2>1, <3>1 DEF Follows
  <2>3. CASE b # d
    <3>1. draft'[b] = draft[b]
      BY <1>6, <2>3 DEF StoreReply, InboxTypeOK
    <3> QED  BY <2>1, <3>1 DEF Follows
  <2> QED  BY <2>2, <2>3
<1>7. ASSUME NEW d \in Drafts, AnswerReply(d) \/ FailReply(d), NEW b \in Drafts \ replaced'
      PROVE  Follows(b)'
  <2>1. PICK new : \/ new = Message(draft[d].id) /\ AnswerReply(d)
                   \/ new = Failed(d) /\ FailReply(d)
    BY <1>7
  <2>2. /\ cache'.shape = cache.shape
        /\ cache.shape = "pages" =>
              /\ \A e : In(cache.pages, e) /\ e # Optimistic(d) => In(cache'.pages, e)
              /\ In(cache.pages, Optimistic(d)) => In(cache'.pages, new)
    BY <2>1, EndedCache DEF CacheInv
  <2>3. Follows(b)
    BY <1>7 DEF AnswerReply, FailReply, RequestInv
  <2>4. CASE b = d
    <3>1. draft[d].pc \in {"sending", "stored"} /\ draft'[d].id = draft[d].id
      BY <1>7, BecomeFacts DEF AnswerReply, FailReply
    <3>2. In(cache.pages, Optimistic(d)) /\ cache.shape = "pages"
      BY <2>3, <2>4, <3>1 DEF Follows
    <3>3. \/ draft'[d].pc = "sent" /\ new = Message(draft'[d].id)
          \/ draft'[d].pc = "failed" /\ new = Failed(d)
      BY <2>1, <3>1, BecomeFacts DEF AnswerReply, FailReply
    <3> QED  BY <2>2, <2>4, <3>2, <3>3 DEF Follows
  <2>5. CASE b # d
    <3>1. draft'[b] = draft[b]
      BY <1>7, <2>5, BecomeFacts DEF AnswerReply, FailReply
    <3>2. /\ Optimistic(b) # Optimistic(d) /\ Failed(b) # Optimistic(d)
          /\ Message(draft[b].id) # Optimistic(d)
      BY <2>5, EntryFacts
    <3> QED  BY <2>2, <2>3, <3>1, <3>2 DEF Follows
  <2> QED  BY <2>4, <2>5
<1>8. ASSUME NEW n \in Ids, HearMessage(n) PROVE RequestInv'
  <2>1. cache' # cache => cache.shape # "pages" /\ cache'.shape = "list"
    BY <1>8, HeardCache DEF CacheInv
  <2>2. UNCHANGED <<draft, replaced>>
    BY <1>8 DEF HearMessage
  <2> QED  BY <2>1, <2>2 DEF RequestInv, Follows
<1>9. \A d \in Drafts : SendReply(d) \/ StoreReply(d) \/ AnswerReply(d) \/ FailReply(d)
                       => RequestInv'
  BY <1>5, <1>6, <1>7 DEF RequestInv
<1> QED
  BY <1>1, <1>2, <1>3, <1>4, <1>8, <1>9, StepsOfInbox

LEMMA InboxInvStep == InboxInv /\ [InboxNext]_inboxVars => InboxInv'
  BY InboxTypeStep, CacheStep, FetchStep, RequestStep DEF InboxInv

LEMMA InboxInvHolds == InboxSpec => []InboxInv
  BY InboxInvInit, InboxInvStep, PTL DEF InboxSpec

\* The cache, its fetch and the replies keep their types.
THEOREM InboxTypeCorrect == InboxSpec => []InboxTypeOK
<1>1. InboxInv => InboxTypeOK
  BY DEF InboxInv
<1> QED  BY <1>1, InboxInvHolds, PTL

\* However many replies and fetches overlap, the pane shows each as its request stands,
\* until a fetched list takes its place.
THEOREM RepliesAreShown == InboxSpec => []RepliesFollowRequests
<1>1. \A e : Showing(e) <=> In(cache.pages, e)
  BY DEF Showing, In
<1>2. InboxInv => RepliesFollowRequests
  BY <1>1 DEF InboxInv, RequestInv, Follows, RepliesFollowRequests
<1> QED  BY <1>2, InboxInvHolds, PTL

\* A reply whose request has ended is shown as under way only after a scroll while it was.
THEOREM RepliesSettle == InboxSpec => []SettledUnlessScrolled
<1>1. \A e : Showing(e) <=> In(cache.pages, e)
  BY DEF Showing, In
<1>2. InboxInv => SettledUnlessScrolled
  BY <1>1 DEF InboxInv, CacheInv, SettledUnlessScrolled
<1> QED  BY <1>2, InboxInvHolds, PTL

-----------------------------------------------------------------------------
(* The parts of the desk, one beside the other *)

\* The initial states of the composition are initial for every part.
LEMMA DeskInit ==
    Init => /\ AiInit /\ FormsInit /\ InboxInit
            /\ RoomsInit /\ RealtimeInit /\ WidgetInit
  BY DEF Init

\* A step of the composition is a step of one part and leaves the others alone.
LEMMA DeskStep ==
    [Next]_deskVars =>
        /\ [AiNext]_aiVars /\ [FormsNext]_formVars /\ [InboxNext]_inboxVars
        /\ [RoomsNext]_roomsVars /\ [RealtimeNext]_realtimeVars /\ [WidgetNext]_widgetVars
<1> SUFFICES ASSUME [Next]_deskVars
             PROVE  /\ [AiNext]_aiVars /\ [FormsNext]_formVars /\ [InboxNext]_inboxVars
                    /\ [RoomsNext]_roomsVars /\ [RealtimeNext]_realtimeVars
                    /\ [WidgetNext]_widgetVars
  OBVIOUS
<1>1. CASE AiStep
  BY <1>1 DEF AiStep
<1>2. CASE FormsStep
  BY <1>2 DEF FormsStep
<1>3. CASE InboxStep
  BY <1>3 DEF InboxStep
<1>4. CASE RoomsStep
  BY <1>4 DEF RoomsStep
<1>5. CASE RealtimeStep
  BY <1>5 DEF RealtimeStep
<1>6. CASE WidgetStep
  BY <1>6 DEF WidgetStep
<1>7. CASE UNCHANGED deskVars
  BY <1>7 DEF deskVars
<1> QED
  BY <1>1, <1>2, <1>3, <1>4, <1>5, <1>6, <1>7 DEF Next

\* The composition implements the specification of every part.
THEOREM DeskComposes ==
    Spec => /\ AiSpec /\ FormsSpec /\ InboxSpec
            /\ RoomsSpec /\ RealtimeSpec /\ WidgetSpec
  BY DeskInit, DeskStep, PTL
     DEF Spec, AiSpec, FormsSpec, InboxSpec, RoomsSpec, RealtimeSpec, WidgetSpec

\* All of the state keeps its types.
THEOREM DeskTypeCorrect == Spec => []TypeOK
<1>1. Spec => [](AiTypeOK /\ FormsTypeOK /\ InboxTypeOK)
  BY DeskComposes, AiTypeCorrect, FormsTypeCorrect, InboxTypeCorrect, PTL
<1>2. Spec => [](RoomsTypeOK /\ RealtimeTypeOK /\ WidgetTypeOK)
  BY DeskComposes, RoomsTypeCorrect, RealtimeTypeCorrect, WidgetTypeCorrect, PTL
<1>3. AiTypeOK /\ FormsTypeOK /\ InboxTypeOK
        /\ RoomsTypeOK /\ RealtimeTypeOK /\ WidgetTypeOK => TypeOK
  BY DEF TypeOK
<1> QED
  BY <1>1, <1>2, <1>3, PTL

\* Every safety property of the desk run holds of the run's own specification.
THEOREM DeskIsSafe ==
    Spec => /\ [](OneRunUnlessExpired /\ PositionProtected /\ PagesKept)
            /\ [](SubmittedOnce /\ OneActiveUnlessRaced)
            /\ [](RepliesFollowRequests /\ SettledUnlessScrolled /\ RoomsFollowPage)
            /\ [](NoGhost /\ SessionExpires /\ ShownOnce /\ StoredIsShownAsSent)
            /\ ImplementsFormAnswers
<1>1. Spec => [](OneRunUnlessExpired /\ PositionProtected /\ PagesKept)
  BY DeskComposes, LockExcludesOthers, LockProtectsPosition, RefetchKeepsPages, PTL
<1>2. Spec => [](SubmittedOnce /\ OneActiveUnlessRaced)
  BY DeskComposes, AnsweredOnce, OneActiveRequest, PTL
<1>3. Spec => [](RepliesFollowRequests /\ SettledUnlessScrolled /\ RoomsFollowPage)
  BY DeskComposes, RepliesAreShown, RepliesSettle, SocketFollowsPage, PTL
<1>4. Spec => [](NoGhost /\ SessionExpires /\ ShownOnce /\ StoredIsShownAsSent)
  BY DeskComposes, NoGhostRemains, SessionKeyExpires, ItemsShownOnce, MessagesShownAsSent, PTL
<1>5. Spec => ImplementsFormAnswers
  BY DeskComposes, FormsImplementAnswers, PTL
<1> QED
  BY <1>1, <1>2, <1>3, <1>4, <1>5, PTL

=============================================================================
