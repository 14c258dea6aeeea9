------------------------ MODULE ConversationRowProofs ------------------------
(***************************************************************************)
(* The row of a conversation for any number of calls, edits and agents.     *)
(***************************************************************************)
EXTENDS ConversationRow, SequenceTheorems, FiniteSetTheorems, TLAPS

-----------------------------------------------------------------------------
(* The edits keep the row well-formed *)

\* A visit and a truncation keep a sequence of visits.
LEMMA HistoryType ==
    ASSUME NEW h \in Seq(Requests), NEW r \in Requests
    PROVE  /\ Visited(h, r) \in Seq(Requests)
           /\ Truncated(h) \in Seq(Requests)
<1>1. Visited(h, r) \in Seq(Requests)
  <2>1. CASE Len(h) < MaxHistory
    BY <2>1, AppendProperties DEF Visited
  <2>2. CASE ~(Len(h) < MaxHistory)
    <3>1. h # << >>
      BY <2>2, RowAssumption, LenProperties, EmptySeq DEF RowAssumption
    <3>2. Tail(h) \in Seq(Requests)
      BY <3>1, HeadTailProperties
    <3> QED
      BY <2>2, <3>2, AppendProperties DEF Visited
  <2> QED
    BY <2>1, <2>2
<1>2. Truncated(h) \in Seq(Requests)
  <2>1. CASE Len(h) > KeptHistory
    <3>1. /\ Len(h) \in Nat
          /\ KeptHistory \in Nat
          /\ Len(h) - KeptHistory + 1 \in 1 .. Len(h) + 1
      BY <2>1, RowAssumption, LenProperties DEF RowAssumption
    <3>2. SubSeq(h, Len(h) - KeptHistory + 1, Len(h)) \in Seq(Requests)
      BY <3>1, SubSeqProperties
    <3> QED
      BY <2>1, <3>2 DEF Truncated
  <2>2. CASE ~(Len(h) > KeptHistory)
    BY <2>2 DEF Truncated
  <2> QED
    BY <2>1, <2>2
<1> QED
  BY <1>1, <1>2

\* A message changes status, last message and unread count.
LEMMA MessageType ==
    ASSUME NEW c \in Row, NEW r \in Requests, NEW n \in Nat
    PROVE  /\ WithMessage(c, r, n) \in Row
           /\ WithMessage(c, r, n).assignee = c.assignee
<1>1. c.unread + n \in Nat
  BY DEF Row
<1> QED
  BY <1>1 DEF Row, WithMessage, Statuses

\* Every call makes a row of a row.
LEMMA EditedType ==
    ASSUME NEW c \in Row, NEW e \in Edit, NEW r \in Requests
    PROVE  /\ Edited(c, e, r) \in Row
           /\ Finished(c, e, r) \in Row
<1> USE DEF Edited
<1>1. CASE e.kind = "status"
  BY <1>1 DEF Edit, Row, Finished
<1>2. CASE e.kind = "assign"
  BY <1>2 DEF Edit, Row, Finished
<1>3. CASE e.kind = "read"
  BY <1>3 DEF Row, Finished
<1>4. CASE e.kind = "visit"
  BY <1>4, HistoryType DEF Row, Finished
<1>5. CASE e.kind = "truncate"
  BY <1>5, HistoryType DEF Row, Finished
<1>6. CASE e.kind = "greeting"
  <2>1. <<r>> \in Seq(Requests)
    OBVIOUS
  <2> QED
    BY <1>6, <2>1, MessageType DEF Row, Finished
<1>7. CASE e.kind = "message"
  BY <1>7, MessageType DEF Finished
<1>8. CASE e.kind = "reply"
  BY <1>8, MessageType DEF Finished
<1> QED
  BY <1>1, <1>2, <1>3, <1>4, <1>5, <1>6, <1>7, <1>8 DEF Edit

\* Only assign changes the assignee.
LEMMA ServedAssignee ==
    ASSUME NEW c \in Row, NEW e \in Edit, NEW r \in Requests
    PROVE  Served(c, e, r).assignee = IF e.kind = "assign" THEN e.to ELSE c.assignee
<1> USE DEF Edited, Served, Finished
<1>1. CASE e.kind = "status"
  BY <1>1 DEF Row
<1>2. CASE e.kind = "assign"
  BY <1>2 DEF Row
<1>3. CASE e.kind = "read"
  BY <1>3 DEF Row
<1>4. CASE e.kind = "visit"
  BY <1>4 DEF Row
<1>5. CASE e.kind = "truncate"
  BY <1>5 DEF Row
<1>6. CASE e.kind = "greeting"
  BY <1>6 DEF Row, WithMessage
<1>7. CASE e.kind = "message"
  BY <1>7 DEF Row, WithMessage
<1>8. CASE e.kind = "reply"
  BY <1>8 DEF Row, WithMessage
<1> QED
  BY <1>1, <1>2, <1>3, <1>4, <1>5, <1>6, <1>7, <1>8 DEF Edit

\* Replacing what a call has in memory.
LEMMA RequestChanged ==
    ASSUME RowTypeOK, NEW r \in Requests, NEW value \in Request, Replace(r, value)
    PROVE  /\ request' \in [Requests -> Request]
           /\ request'[r] = value
           /\ \A q \in Requests : q # r => request'[q] = request[q]
  BY DEF RowTypeOK, Replace

LEMMA RequestType ==
    ASSUME RowTypeOK, NEW r \in Requests
    PROVE  /\ request[r].pc \in {"idle", "found", "compared", "written", "missed", "committed",
                              "done", "failed"}
           /\ request[r].edit \in Edit
           /\ request[r].entity \in Row
           /\ request[r].seen \in Nat
           /\ request[r].dirty \in Columns
           /\ request[r].insert \in BOOLEAN
  BY DEF RowTypeOK, Request

LEMMA OutsideType ==
    ASSUME NEW e \in Edit, NEW pc \in {"idle", "committed", "done", "failed"}
    PROVE  Outside(pc, e) \in Request
<1>1. NewRow \in Row
  BY EmptySeq DEF NewRow, Row, Statuses
<1>2. NoColumn \in Columns
  BY DEF NoColumn, Columns
<1> QED
  BY <1>1, <1>2 DEF Outside, Request

LEMMA OverwrittenType ==
    ASSUME NEW c \in Row, NEW d \in Row, NEW b \in Columns
    PROVE  Overwritten(c, d, b) \in Row
  BY DEF Overwritten, Row, Columns

LEMMA StoreType ==
    ASSUME RowTypeOK, NEW exists \in BOOLEAN, NEW c \in Row, Store(exists, c)
    PROVE  stored' \in BOOLEAN /\ row' \in Row /\ version' \in Nat
  BY DEF RowTypeOK, Store

-----------------------------------------------------------------------------
(* Types *)

LEMMA RowTypeInit == RowInit => RowTypeOK
<1>1. NewRow \in Row
  BY EmptySeq DEF NewRow, Row, Statuses
<1>2. Reading \in Edit
  BY DEF Reading, Edit
<1>3. Outside("idle", Reading) \in Request
  BY <1>2, OutsideType
<1>4. RowInit => request \in [Requests -> Request]
  <2> DEFINE outside == Outside("idle", Reading)
  <2>1. outside \in Request
    BY <1>3
  <2>2. RowInit => request = [r \in Requests |-> outside]
    BY DEF RowInit
  <2> HIDE DEF outside
  <2> QED
    BY <2>1, <2>2
<1>5. RowInit => job \in [Requests -> {"none", "waiting", "done"}]
  BY DEF RowInit
<1>6. RowInit => row \in Row /\ serialRow \in Row
  BY <1>1 DEF RowInit
<1>7. RowInit => stored \in BOOLEAN /\ raced \in BOOLEAN /\ serialStored \in BOOLEAN
  BY DEF RowInit
<1>8. RowInit => /\ announced \in Requests \union {Nobody}
                 /\ newest \in Requests \union {Nobody}
                 /\ version \in Nat
  BY DEF RowInit
<1> QED
  BY <1>4, <1>5, <1>6, <1>7, <1>8 DEF RowTypeOK

LEMMA RowTypeNext == RowTypeOK /\ [RowNext]_rowVars => RowTypeOK'
<1> SUFFICES ASSUME RowTypeOK, [RowNext]_rowVars PROVE RowTypeOK'
  OBVIOUS
<1>1. ASSUME NEW r \in Requests, NEW e \in Edits[r], Find(r, e) PROVE RowTypeOK'
  <2>1. e \in Edit
    BY RowAssumption DEF RowAssumption
  <2>2. row \in Row /\ version \in Nat
    BY DEF RowTypeOK
  <2>3. Edited(row, e, r) \in Row
    BY <2>1, <2>2, EditedType
  <2>4. [request[r] EXCEPT !.pc = "found", !.edit = e, !.seen = version,
                           !.entity = Edited(row, e, r)] \in Request
    BY <2>1, <2>2, <2>3 DEF RowTypeOK, Request
  <2> QED
    BY <1>1, <2>4, RequestChanged DEF Find, RowTypeOK
<1>2. ASSUME NEW r \in Requests, NEW e \in Edits[r], FindNothing(r, e) PROVE RowTypeOK'
  <2>1. Outside("failed", e) \in Request
    BY OutsideType, RowAssumption DEF RowAssumption
  <2> QED
    BY <1>2, <2>1, RequestChanged DEF FindNothing, RowTypeOK
<1>3. ASSUME NEW r \in Requests, Refuse(r) PROVE RowTypeOK'
  <2>1. Outside("failed", request[r].edit) \in Request
    BY OutsideType, RequestType
  <2> QED
    BY <1>3, <2>1, RequestChanged DEF Refuse, RowTypeOK
<1>4. ASSUME NEW r \in Requests, Compare(r) PROVE RowTypeOK'
  <2>1. Differences(request[r].entity, row) \in Columns
    BY DEF Differences, Columns
  <2>2. [request[r] EXCEPT !.pc = "compared", !.insert = ~stored,
                           !.dirty = Differences(request[r].entity, row)] \in Request
    BY <2>1 DEF RowTypeOK, Request
  <2> QED
    BY <1>4, <2>2, RequestChanged DEF Compare, RowTypeOK
<1>5. ASSUME NEW r \in Requests, Commit(r) PROVE RowTypeOK'
  <2> DEFINE q == request[r]
  <2>1. /\ q.edit \in Edit
        /\ q.entity \in Row
        /\ q.dirty \in Columns
    BY RequestType
  <2>2. row \in Row /\ serialRow \in Row
    BY DEF RowTypeOK
  <2>3. request' \in [Requests -> Request]
    <3>1. Outside(IF q.edit.kind = "reply" THEN "committed" ELSE "done", q.edit) \in Request
      BY <2>1, OutsideType
    <3> QED
      BY <1>5, <3>1, RequestChanged DEF Commit
  <2>4. /\ stored' \in BOOLEAN
        /\ row' \in Row
        /\ version' \in Nat
    <3>1. Saved(r) \in Row
      BY <2>1, <2>2, OverwrittenType, EditedType DEF Saved
    <3>2. \/ Store(TRUE, Saved(r))
          \/ UNCHANGED <<stored, row, version>>
      BY <1>5 DEF Commit
    <3> QED
      BY <3>1, <3>2, StoreType DEF RowTypeOK
  <2>5. announced' \in Requests \union {Nobody}
    BY <1>5 DEF Commit, RowTypeOK
  <2>6. newest' \in Requests \union {Nobody}
    BY <1>5 DEF Commit, RowTypeOK
  <2>7. serialStored' \in BOOLEAN /\ serialRow' \in Row
    <3>1. Served(serialRow, q.edit, r) \in Row
      BY <2>1, <2>2, EditedType DEF Served
    <3> QED
      BY <1>5, <2>2, <3>1 DEF Commit, ServeSerially, RowTypeOK
  <2>8. raced' \in BOOLEAN /\ job' = job
    BY <1>5 DEF Commit, RowTypeOK
  <2> QED
    BY <2>3, <2>4, <2>5, <2>6, <2>7, <2>8 DEF RowTypeOK
<1>6. ASSUME Delete PROVE RowTypeOK'
  <2>1. row \in Row
    BY DEF RowTypeOK
  <2>2. stored' \in BOOLEAN /\ row' \in Row /\ version' \in Nat
    BY <1>6, <2>1, StoreType DEF Delete
  <2> QED
    BY <1>6, <2>2 DEF Delete, RowTypeOK
<1>7. ASSUME NEW r \in Requests, Schedule(r) PROVE RowTypeOK'
  <2>1. Outside("done", request[r].edit) \in Request
    BY OutsideType, RequestType
  <2> QED
    BY <1>7, <2>1, RequestChanged DEF Schedule, RowTypeOK
<1>8. ASSUME NEW r \in Requests, AutoPend(r) PROVE RowTypeOK'
  <2>1. \A c \in Row : Pended(c) \in Row
    BY DEF Row, Pended, Statuses
  <2>2. stored' \in BOOLEAN /\ row' \in Row /\ version' \in Nat
    BY <1>8, <2>1, StoreType DEF AutoPend, RowTypeOK
  <2>3. serialRow' \in Row
    BY <1>8, <2>1 DEF AutoPend, RowTypeOK
  <2> QED
    BY <1>8, <2>2, <2>3 DEF AutoPend, RowTypeOK
<1>9. ASSUME NEW r \in Requests, Write(r) PROVE RowTypeOK'
  <2>1. /\ [request[r] EXCEPT !.pc = "written"] \in Request
        /\ [request[r] EXCEPT !.pc = "missed"] \in Request
    BY DEF RowTypeOK, Request
  <2>2. request' \in [Requests -> Request]
    BY <1>9, <2>1, RequestChanged DEF Write
  <2>3. announced' \in Requests \union {Nobody}
    BY <1>9 DEF Write, RowTypeOK
  <2> QED
    BY <1>9, <2>2, <2>3 DEF Write, RowTypeOK
<1>10. CASE UNCHANGED rowVars
  BY <1>10 DEF rowVars, RowTypeOK
<1> QED
  BY <1>1, <1>2, <1>3, <1>4, <1>5, <1>6, <1>7, <1>8, <1>9, <1>10 DEF RowNext

\* Every variable keeps its type, whatever the number of calls and of agents.
THEOREM RowTypeCorrect == RowSpec => []RowTypeOK
  BY RowTypeInit, RowTypeNext, PTL DEF RowSpec

-----------------------------------------------------------------------------
(* Serial unless raced *)

\* A call that read the row at its present version holds the row with its change,
\* and writes exactly the change; a call that missed the row read it before it went.
Fresh(r) ==
    request[r].pc \in {"found", "compared", "written", "missed"} =>
        /\ request[r].seen <= version
        /\ request[r].seen = version
             => /\ stored
                /\ request[r].entity = Edited(row, request[r].edit, r)
        /\ request[r].pc \in {"compared", "written"} /\ request[r].seen = version
             => /\ ~request[r].insert
                /\ request[r].dirty = Differences(request[r].entity, row)
        /\ request[r].pc = "missed" => request[r].seen # version

RowInv ==
    /\ RowTypeOK
    /\ SerialUnlessRaced
    /\ \A r \in Requests : Fresh(r)

\* A change of the row makes every read stale.
LEMMA StoreFresh ==
    ASSUME RowTypeOK, NEW q \in Requests, Fresh(q), request'[q] = request[q],
           NEW exists, NEW c, Store(exists, c)
    PROVE  Fresh(q)'
<1>1. version \in Nat /\ request[q].seen \in Nat
  BY RequestType DEF RowTypeOK
<1>2. CASE exists = stored /\ c = row
  BY <1>2 DEF Store, Fresh
<1>3. CASE ~(exists = stored /\ c = row)
  <2>1. version' = version + 1
    BY <1>3 DEF Store
  <2> QED
    BY <1>1, <2>1 DEF Fresh
<1> QED
  BY <1>2, <1>3

LEMMA SameFresh ==
    ASSUME NEW q \in Requests, Fresh(q), request'[q] = request[q],
           UNCHANGED <<stored, row, version>>
    PROVE  Fresh(q)'
  BY DEF Fresh

\* Writing the columns in which c differs from d makes c of d.
LEMMA OverwrittenDifferences ==
    ASSUME NEW c \in Row, NEW d \in Row
    PROVE  Overwritten(d, c, Differences(c, d)) = c
<1> DEFINE w == Overwritten(d, c, Differences(c, d))
<1>1. /\ w.status = c.status
      /\ w.unread = c.unread
      /\ w.last = c.last
      /\ w.assignee = c.assignee
      /\ w.history = c.history
  BY DEF Overwritten, Differences
<1>2. w = [status |-> w.status, unread |-> w.unread, last |-> w.last,
           assignee |-> w.assignee, history |-> w.history]
  BY DEF Overwritten
<1>3. c = [status |-> c.status, unread |-> c.unread, last |-> c.last,
           assignee |-> c.assignee, history |-> c.history]
  BY DEF Row
<1>4. w = c
  <2> HIDE DEF w
  <2> QED
    BY <1>1, <1>2, <1>3
<1> QED
  BY <1>4

LEMMA RowInvInit == RowInit => RowInv
<1> SUFFICES ASSUME RowInit PROVE RowInv
  OBVIOUS
<1>1. RowTypeOK
  BY RowTypeInit
<1>2. SerialUnlessRaced
  BY DEF RowInit, SerialUnlessRaced
<1>3. \A r \in Requests : Fresh(r)
  BY DEF RowInit, Fresh, Outside
<1> QED
  BY <1>1, <1>2, <1>3 DEF RowInv

LEMMA RowInvNext == RowInv /\ [RowNext]_rowVars => RowInv'
<1> SUFFICES ASSUME RowInv, [RowNext]_rowVars PROVE RowInv'
  OBVIOUS
<1>0. /\ RowTypeOK
      /\ RowTypeOK'
      /\ \A r \in Requests : Fresh(r)
  BY RowTypeNext DEF RowInv
<1>1. ASSUME UNCHANGED <<stored, row, raced, serialStored, serialRow>>
      PROVE  SerialUnlessRaced'
  BY <1>1 DEF RowInv, SerialUnlessRaced
<1>2. ASSUME NEW r \in Requests, NEW e \in Edits[r], Find(r, e) PROVE RowInv'
  <2>1. \A q \in Requests : Fresh(q)'
    <3>1. /\ request'[r].seen = version
          /\ request'[r].pc = "found"
          /\ request'[r].edit = e
          /\ request'[r].entity = Edited(row, e, r)
      BY <1>0, <1>2, RequestType DEF Find, Replace, RowTypeOK, Request
    <3>2. version \in Nat
      BY <1>0 DEF RowTypeOK
    <3>3. Fresh(r)'
      BY <1>2, <3>1, <3>2 DEF Find, Fresh
    <3>4. \A q \in Requests : q # r => Fresh(q)'
      BY <1>0, <1>2, SameFresh DEF Find, Replace, RowTypeOK
    <3> QED
      BY <3>3, <3>4
  <2> QED
    BY <1>0, <1>1, <1>2, <2>1 DEF Find, RowInv
<1>3. ASSUME NEW r \in Requests, NEW e \in Edits[r], FindNothing(r, e) PROVE RowInv'
  <2>1. \A q \in Requests : Fresh(q)'
    <3>1. Fresh(r)'
      BY <1>0, <1>3 DEF FindNothing, Replace, RowTypeOK, Outside, Fresh
    <3>2. \A q \in Requests : q # r => Fresh(q)'
      BY <1>0, <1>3, SameFresh DEF FindNothing, Replace, RowTypeOK
    <3> QED
      BY <3>1, <3>2
  <2> QED
    BY <1>0, <1>1, <1>3, <2>1 DEF FindNothing, RowInv
<1>4. ASSUME NEW r \in Requests, Refuse(r) PROVE RowInv'
  <2>1. \A q \in Requests : Fresh(q)'
    <3>1. Fresh(r)'
      BY <1>0, <1>4 DEF Refuse, Replace, RowTypeOK, Outside, Fresh
    <3>2. \A q \in Requests : q # r => Fresh(q)'
      BY <1>0, <1>4, SameFresh DEF Refuse, Replace, RowTypeOK
    <3> QED
      BY <3>1, <3>2
  <2> QED
    BY <1>0, <1>1, <1>4, <2>1 DEF Refuse, RowInv
<1>5. ASSUME NEW r \in Requests, Compare(r) PROVE RowInv'
  <2>1. \A q \in Requests : Fresh(q)'
    <3>1. /\ request'[r].seen = request[r].seen
          /\ request'[r].pc = "compared"
          /\ request'[r].edit = request[r].edit
          /\ request'[r].entity = request[r].entity
          /\ request'[r].insert = ~stored
          /\ request'[r].dirty = Differences(request[r].entity, row)
      BY <1>0, <1>5 DEF Compare, Replace, RowTypeOK, Request
    <3>2. Fresh(r)'
      BY <1>0, <1>5, <3>1 DEF Compare, Fresh
    <3>3. \A q \in Requests : q # r => Fresh(q)'
      BY <1>0, <1>5, SameFresh DEF Compare, Replace, RowTypeOK
    <3> QED
      BY <3>2, <3>3
  <2> QED
    BY <1>0, <1>1, <1>5, <2>1 DEF Compare, RowInv
<1>6. ASSUME NEW r \in Requests, Commit(r) PROVE RowInv'
  <2> DEFINE q == request[r]
             c == Saved(r)
  <2>1. /\ q.edit \in Edit
        /\ q.entity \in Row
        /\ q.seen \in Nat
        /\ row \in Row
        /\ serialRow \in Row
        /\ version \in Nat
    BY <1>0, RequestType DEF RowTypeOK
  <2>2. \A p \in Requests : Fresh(p)'
    <3>1. Fresh(r)'
      BY <1>0, <1>6 DEF Commit, Replace, RowTypeOK, Outside, Fresh
    <3>2. ASSUME NEW p \in Requests, p # r PROVE Fresh(p)'
      <4>1. request'[p] = request[p]
        BY <1>6, <3>2 DEF Commit, Replace
      <4>2. \/ Store(TRUE, c)
            \/ UNCHANGED <<stored, row, version>>
        BY <1>6 DEF Commit
      <4> HIDE DEF c
      <4> QED
        BY <1>0, <4>1, <4>2, StoreFresh, SameFresh
    <3> QED
      BY <3>1, <3>2
  <2>3. ASSUME ~raced' PROVE /\ stored' = serialStored'
                             /\ row' = serialRow'
    <3>1. /\ ~raced
          /\ q.pc = "written"
          /\ q.seen = version
      BY <1>0, <1>6, <2>3 DEF Commit, Fresh
    <3>2. /\ stored = serialStored
          /\ row = serialRow
      BY <3>1 DEF RowInv, SerialUnlessRaced
    <3>3. /\ stored
          /\ ~q.insert
          /\ q.entity = Edited(row, q.edit, r)
          /\ q.dirty = Differences(q.entity, row)
      BY <1>0, <3>1 DEF Fresh
    <3>4. Store(TRUE, c)
      BY <1>6, <3>1 DEF Commit
    <3>5. c = Served(row, q.edit, r)
      BY <2>1, <3>3, OverwrittenDifferences DEF Served, Saved
    <3>6. serialStored' = serialStored /\ serialRow' = Served(serialRow, q.edit, r)
      BY <1>6, <3>2, <3>3 DEF Commit, ServeSerially
    <3>7. row' = Served(row, q.edit, r) /\ stored' = TRUE
      BY <3>4, <3>5 DEF Store
    <3> HIDE DEF q, c
    <3> QED
      BY <3>2, <3>3, <3>6, <3>7
  <2> QED
    BY <1>0, <2>2, <2>3 DEF RowInv, SerialUnlessRaced
<1>7. ASSUME Delete PROVE RowInv'
  <2>1. \A q \in Requests : Fresh(q)'
    BY <1>0, <1>7, StoreFresh DEF Delete
  <2>2. SerialUnlessRaced'
    BY <1>7 DEF Delete, Store, RowInv, SerialUnlessRaced
  <2> QED
    BY <1>0, <2>1, <2>2 DEF RowInv
<1>8. ASSUME NEW r \in Requests, Schedule(r) PROVE RowInv'
  <2>1. \A q \in Requests : Fresh(q)'
    <3>1. Fresh(r)'
      BY <1>0, <1>8 DEF Schedule, Replace, RowTypeOK, Outside, Fresh
    <3>2. \A q \in Requests : q # r => Fresh(q)'
      BY <1>0, <1>8, SameFresh DEF Schedule, Replace, RowTypeOK
    <3> QED
      BY <3>1, <3>2
  <2> QED
    BY <1>0, <1>1, <1>8, <2>1 DEF Schedule, RowInv
<1>9. ASSUME NEW r \in Requests, AutoPend(r) PROVE RowInv'
  <2> DEFINE c == IF Due(stored, row, r) THEN Pended(row) ELSE row
  <2>1. \A q \in Requests : Fresh(q)'
    <3>1. Store(stored, c) /\ UNCHANGED request
      BY <1>9 DEF AutoPend
    <3> HIDE DEF c
    <3> QED
      BY <1>0, <3>1, StoreFresh
  <2>2. SerialUnlessRaced'
    BY <1>9 DEF AutoPend, Store, RowInv, SerialUnlessRaced
  <2> QED
    BY <1>0, <2>1, <2>2 DEF RowInv
<1>10. ASSUME NEW r \in Requests, Write(r) PROVE RowInv'
  <2>1. \A q \in Requests : Fresh(q)'
    <3>1. /\ request'[r].seen = request[r].seen
          /\ request'[r].edit = request[r].edit
          /\ request'[r].entity = request[r].entity
          /\ request'[r].insert = request[r].insert
          /\ request'[r].dirty = request[r].dirty
          /\ \/ request'[r].pc = "written"
             \/ request'[r].pc = "missed" /\ ~stored
      BY <1>0, <1>10 DEF Write, Replace, RowTypeOK, Request
    <3>2. request[r].pc = "compared" /\ UNCHANGED <<stored, row, version>>
      BY <1>10 DEF Write
    <3>3. Fresh(r)'
      BY <1>0, <3>1, <3>2 DEF Fresh
    <3>4. \A q \in Requests : q # r => Fresh(q)'
      BY <1>0, <1>10, <3>2, SameFresh DEF Write, Replace, RowTypeOK
    <3> QED
      BY <3>3, <3>4
  <2> QED
    BY <1>0, <1>1, <1>10, <2>1 DEF Write, RowInv
<1>11. CASE UNCHANGED rowVars
  <2>1. \A q \in Requests : Fresh(q)'
    BY <1>0, <1>11, SameFresh DEF rowVars
  <2> QED
    BY <1>0, <1>1, <1>11, <2>1 DEF rowVars, RowInv
<1> QED
  BY <1>2, <1>3, <1>4, <1>5, <1>6, <1>7, <1>8, <1>9, <1>10, <1>11 DEF RowNext

LEMMA RowInvariant == RowSpec => []RowInv
  BY RowInvInit, RowInvNext, PTL DEF RowSpec

\* As long as no save writes over a change made since its read, the row is what the
\* calls make of it one after another: any number of agents, workers and jobs.
THEOREM SerialWithoutRaces == RowSpec => []SerialUnlessRaced
<1>1. RowInv => SerialUnlessRaced
  BY DEF RowInv
<1> QED
  BY <1>1, RowInvariant, PTL

-----------------------------------------------------------------------------
(* What a call writes *)

\* Only a call that sends a message changes the last message of the row.
LEMMA ServedLast ==
    ASSUME NEW c \in Row, NEW e \in Edit, NEW r \in Requests
    PROVE  Served(c, e, r).last = IF e.kind \in Sending THEN r ELSE c.last
<1> USE DEF Edited, Served, Finished, Sending
<1>1. CASE e.kind = "status"
  BY <1>1 DEF Row
<1>2. CASE e.kind = "assign"
  BY <1>2 DEF Row
<1>3. CASE e.kind = "read"
  BY <1>3 DEF Row
<1>4. CASE e.kind = "visit"
  BY <1>4 DEF Row
<1>5. CASE e.kind = "truncate"
  BY <1>5 DEF Row
<1>6. CASE e.kind = "greeting"
  BY <1>6 DEF Row, WithMessage
<1>7. CASE e.kind = "message"
  BY <1>7 DEF Row, WithMessage
<1>8. CASE e.kind = "reply"
  BY <1>8 DEF Row, WithMessage
<1> QED
  BY <1>1, <1>2, <1>3, <1>4, <1>5, <1>6, <1>7, <1>8 DEF Edit

\* A commit that races with nothing writes the call as it is served alone.
LEMMA CommitServes ==
    ASSUME RowInv, NEW r \in Requests, Commit(r), ~raced'
    PROVE  ~raced /\ row' = Served(row, request[r].edit, r)
<1> DEFINE q == request[r]
           c == Saved(r)
<1>1. ~raced /\ q.pc = "written" /\ q.seen = version
  BY DEF Commit, RowInv, Fresh
<1>2. q.entity \in Row /\ row \in Row
  BY RequestType DEF RowInv, RowTypeOK
<1>3. /\ stored
      /\ ~q.insert
      /\ q.entity = Edited(row, q.edit, r)
      /\ q.dirty = Differences(q.entity, row)
  BY <1>1 DEF RowInv, Fresh
<1>4. Store(TRUE, c)
  BY <1>1 DEF Commit
<1>5. c = Served(row, q.edit, r)
  BY <1>2, <1>3, OverwrittenDifferences DEF Served, Saved
<1> HIDE DEF c
<1> QED
  BY <1>1, <1>4, <1>5 DEF Store

-----------------------------------------------------------------------------
(* Announcements unless undone *)

\* Who holds the lock of the row for an UPDATE has it, and is the last that announced.
LockAnnounced(r) ==
    request[r].pc = "written" /\ ~request[r].insert =>
        /\ stored
        /\ request[r].edit.kind = "assign" => announced = r

\* A call announces after it wrote.
AnnouncedByAssign ==
    announced # Nobody =>
        /\ request[announced].pc \in {"written", "missed", "done", "failed"}
        /\ request[announced].edit.kind = "assign"

AnnouncedInv ==
    /\ AnnouncedByAssign
    /\ AnnouncedUnlessUndone
    /\ \A r \in Requests : LockAnnounced(r)

LEMMA AnnouncedInit == RowInit => AnnouncedInv
  BY DEF RowInit, AnnouncedInv, AnnouncedByAssign, AnnouncedUnlessUndone, AnnouncedTo,
         LockAnnounced, Outside, NewRow

\* A step of a call that has not announced, or is done with it, and writes nothing.
LEMMA AnnouncedReads ==
    ASSUME RowTypeOK, AnnouncedInv, NEW r \in Requests,
           request[r].pc \in {"idle", "found", "committed"},
           request'[r].pc # "written",
           \A q \in Requests : q # r => request'[q] = request[q],
           UNCHANGED <<stored, row, announced, raced>>
    PROVE  AnnouncedInv'
<1>1. announced # r
  BY RowAssumption DEF AnnouncedInv, AnnouncedByAssign, RowAssumption
<1>2. announced \in Requests \union {Nobody}
  BY DEF RowTypeOK
<1>3. announced # Nobody => request'[announced] = request[announced]
  BY <1>1, <1>2
<1>4. AnnouncedByAssign' /\ AnnouncedUnlessUndone'
  BY <1>3 DEF AnnouncedInv, AnnouncedByAssign, AnnouncedUnlessUndone, AnnouncedTo
<1>5. \A q \in Requests : LockAnnounced(q)'
  BY DEF AnnouncedInv, LockAnnounced
<1> QED
  BY <1>4, <1>5 DEF AnnouncedInv

\* The call fails: what it announced is not in the row.
LEMMA AnnouncedRefuse ==
    ASSUME RowTypeOK, AnnouncedInv, NEW r \in Requests, Refuse(r)
    PROVE  AnnouncedInv'
<1>1. /\ request'[r].pc = "failed" /\ request'[r].edit = request[r].edit
      /\ \A q \in Requests : q # r => request'[q] = request[q]
      /\ UNCHANGED <<stored, row, announced, raced>>
  BY DEF Refuse, Replace, RowTypeOK, Outside
<1>2. announced \in Requests \union {Nobody}
  BY DEF RowTypeOK
<1>3. AnnouncedByAssign'
  BY <1>1, <1>2 DEF AnnouncedInv, AnnouncedByAssign
<1>4. AnnouncedUnlessUndone'
  <2>1. CASE announced = r
    BY <1>1, <2>1, RowAssumption DEF RowAssumption, AnnouncedUnlessUndone
  <2>2. CASE announced # r
    BY <1>1, <1>2, <2>2 DEF AnnouncedInv, AnnouncedUnlessUndone, AnnouncedTo
  <2> QED
    BY <2>1, <2>2
<1>5. \A q \in Requests : LockAnnounced(q)'
  BY <1>1 DEF AnnouncedInv, LockAnnounced
<1> QED
  BY <1>3, <1>4, <1>5 DEF AnnouncedInv

\* The save: assign announces, and nobody else holds the lock of a row that is there.
LEMMA AnnouncedWrite ==
    ASSUME RowTypeOK, AnnouncedInv, NEW r \in Requests, Write(r)
    PROVE  AnnouncedInv'
<1>1. /\ request[r].pc = "compared"
      /\ request'[r].pc \in {"written", "missed"}
      /\ request'[r].edit = request[r].edit
      /\ request'[r].insert = request[r].insert
      /\ \A q \in Requests : q # r => request'[q] = request[q]
      /\ UNCHANGED <<stored, row, raced>>
  BY DEF Write, Replace, RowTypeOK, Request
<1>2. announced' = IF request[r].edit.kind = "assign" THEN r ELSE announced
  BY DEF Write
<1>3. announced # r /\ announced \in Requests \union {Nobody} /\ r # Nobody
  BY <1>1, RowAssumption DEF AnnouncedInv, AnnouncedByAssign, RowTypeOK, RowAssumption
<1>4. AnnouncedByAssign'
  BY <1>1, <1>2, <1>3 DEF AnnouncedInv, AnnouncedByAssign
<1>5. AnnouncedUnlessUndone'
  <2>1. CASE request[r].edit.kind = "assign"
    BY <1>1, <1>2, <1>3, <2>1 DEF AnnouncedUnlessUndone
  <2>2. CASE request[r].edit.kind # "assign"
    BY <1>1, <1>2, <1>3, <2>2 DEF AnnouncedInv, AnnouncedUnlessUndone, AnnouncedTo
  <2> QED
    BY <2>1, <2>2
<1>6. LockAnnounced(r)'
  <2>1. request'[r].pc = "written" => stored = ~request[r].insert
    BY DEF Write, Replace, RowTypeOK, Request
  <2> QED
    BY <1>1, <1>2, <2>1, RequestType DEF LockAnnounced
<1>7. ASSUME NEW q \in Requests, q # r PROVE LockAnnounced(q)'
  <2>1. ~RowLocked \/ ~stored
    BY DEF Write
  <2>2. ~(request[q].pc = "written" /\ ~request[q].insert)
    BY <2>1 DEF RowLocked, AnnouncedInv, LockAnnounced
  <2> QED
    BY <1>1, <1>7, <2>2 DEF LockAnnounced
<1> QED
  BY <1>4, <1>5, <1>6, <1>7 DEF AnnouncedInv

\* A commit that races with nothing makes true what it announced.
LEMMA AnnouncedCommit ==
    ASSUME RowInv, AnnouncedInv, NEW r \in Requests, Commit(r)
    PROVE  AnnouncedInv'
<1>1. /\ request[r].pc \in {"written", "missed"}
      /\ request'[r].pc \in {"committed", "done"}
      /\ request[r].edit.kind = "assign" => request'[r].pc = "done"
      /\ request'[r].edit = request[r].edit
      /\ \A q \in Requests : q # r => request'[q] = request[q]
      /\ UNCHANGED announced
  BY DEF Commit, Replace, RowInv, RowTypeOK, Outside
<1>2. announced \in Requests \union {Nobody} /\ r # Nobody
  BY RowAssumption DEF RowInv, RowTypeOK, RowAssumption
<1>3. AnnouncedByAssign'
  BY <1>1, <1>2 DEF AnnouncedInv, AnnouncedByAssign
<1>4. ASSUME ~raced' PROVE AnnouncedUnlessUndone'
  <2>1. ~raced /\ row' = Served(row, request[r].edit, r)
    BY <1>4, CommitServes
  <2>2. row'.assignee = IF request[r].edit.kind = "assign" THEN request[r].edit.to
                                                          ELSE row.assignee
    BY <2>1, RequestType, ServedAssignee DEF RowInv, RowTypeOK
  <2>3. request[r].pc = "written" /\ ~request[r].insert
    BY <1>1, <1>4 DEF Commit, RowInv, Fresh
  <2>4. CASE request[r].edit.kind = "assign"
    BY <1>1, <1>2, <2>2, <2>3, <2>4
    DEF AnnouncedInv, LockAnnounced, AnnouncedUnlessUndone, AnnouncedTo
  <2>5. CASE request[r].edit.kind # "assign"
    <3>1. announced # r
      BY <1>2, <2>5 DEF AnnouncedInv, AnnouncedByAssign
    <3> QED
      BY <1>1, <1>2, <2>1, <2>2, <2>5, <3>1
      DEF AnnouncedInv, AnnouncedUnlessUndone, AnnouncedTo
  <2> QED
    BY <2>4, <2>5
<1>5. raced' => AnnouncedUnlessUndone'
  BY DEF AnnouncedUnlessUndone
<1>6. \A q \in Requests : LockAnnounced(q)'
  <2>1. stored => stored'
    BY DEF Commit, Store
  <2> QED
    BY <1>1, <2>1 DEF AnnouncedInv, LockAnnounced
<1> QED
  BY <1>3, <1>4, <1>5, <1>6 DEF AnnouncedInv

\* A delete waits for the lock, and nothing but a call changes the assignee.
LEMMA AnnouncedOther ==
    ASSUME RowTypeOK, AnnouncedInv,
           Delete \/ (\E r \in Requests : AutoPend(r)) \/ UNCHANGED rowVars
    PROVE  AnnouncedInv'
<1>1. /\ UNCHANGED <<request, announced, raced>>
      /\ row'.assignee = row.assignee
      /\ stored' = stored \/ ~RowLocked
  BY DEF Delete, AutoPend, Store, Pended, rowVars, RowTypeOK, Row
<1>2. AnnouncedByAssign' /\ AnnouncedUnlessUndone'
  BY <1>1 DEF AnnouncedInv, AnnouncedByAssign, AnnouncedUnlessUndone, AnnouncedTo
<1>3. \A r \in Requests : LockAnnounced(r)'
  BY <1>1 DEF AnnouncedInv, LockAnnounced, RowLocked
<1> QED
  BY <1>2, <1>3 DEF AnnouncedInv

LEMMA AnnouncedNext == RowInv /\ AnnouncedInv /\ [RowNext]_rowVars => AnnouncedInv'
<1> SUFFICES ASSUME RowInv, AnnouncedInv, [RowNext]_rowVars PROVE AnnouncedInv'
  OBVIOUS
<1>0. RowTypeOK
  BY DEF RowInv
<1>1. ASSUME NEW r \in Requests,
             \/ \E e \in Edits[r] : Find(r, e) \/ FindNothing(r, e)
             \/ Compare(r) \/ Schedule(r)
      PROVE  AnnouncedInv'
  <2>1. /\ request[r].pc \in {"idle", "found", "committed"}
        /\ UNCHANGED <<stored, row, announced, raced>>
        /\ \A q \in Requests : q # r => request'[q] = request[q]
    BY <1>0, <1>1 DEF Find, FindNothing, Compare, Schedule, Replace, RowTypeOK
  <2>2. request'[r].pc # "written"
    <3>1. ASSUME NEW e \in Edits[r], Find(r, e) PROVE request'[r].pc # "written"
      BY <1>0, <3>1 DEF Find, Replace, RowTypeOK, Request
    <3>2. ASSUME NEW e \in Edits[r], FindNothing(r, e) PROVE request'[r].pc # "written"
      BY <1>0, <3>2 DEF FindNothing, Replace, RowTypeOK, Outside
    <3>3. Compare(r) => request'[r].pc # "written"
      BY <1>0 DEF Compare, Replace, RowTypeOK, Request
    <3>4. Schedule(r) => request'[r].pc # "written"
      BY <1>0 DEF Schedule, Replace, RowTypeOK, Outside
    <3> QED
      BY <1>1, <3>1, <3>2, <3>3, <3>4
  <2> QED
    BY <1>0, <2>1, <2>2, AnnouncedReads
<1> QED
  BY <1>0, <1>1, AnnouncedRefuse, AnnouncedWrite, AnnouncedCommit, AnnouncedOther DEF RowNext

\* As long as no save writes over a change made since its read, the dashboards know the
\* assignee of the row, unless the last call they heard of has not committed or failed:
\* assign and unassign announce inside their transactions.  For any number of calls.
THEOREM AnnouncedWithoutRaces == RowSpec => []AnnouncedUnlessUndone
<1>1. AnnouncedInv => AnnouncedUnlessUndone
  BY DEF AnnouncedInv
<1> QED
  BY <1>1, AnnouncedInit, AnnouncedNext, RowInvariant, PTL DEF RowSpec

-----------------------------------------------------------------------------
(* Auto-pending unless raced *)

\* Without races the row names the message that was committed last.
LastSent == ~raced => row.last = newest

LEMMA LastSentNext == RowInv /\ LastSent /\ [RowNext]_rowVars => LastSent'
<1> SUFFICES ASSUME RowInv, LastSent, [RowNext]_rowVars PROVE LastSent'
  OBVIOUS
<1>1. ASSUME NEW r \in Requests, Commit(r) PROVE LastSent'
  <2>1. SUFFICES ASSUME ~raced' PROVE row'.last = newest'
    BY DEF LastSent
  <2>2. ~raced /\ row' = Served(row, request[r].edit, r)
    BY <1>1, <2>1, CommitServes
  <2>3. row.last = newest
    BY <2>2 DEF LastSent
  <2>4. newest' = IF request[r].edit.kind \in Sending THEN r ELSE newest
    BY <1>1 DEF Commit
  <2>5. row'.last = IF request[r].edit.kind \in Sending THEN r ELSE row.last
    BY <2>2, RequestType, ServedLast DEF RowInv, RowTypeOK
  <2> QED
    BY <2>3, <2>4, <2>5
<1>2. ASSUME NEW r \in Requests, AutoPend(r) PROVE LastSent'
  <2>1. Pended(row).last = row.last
    BY DEF RowInv, RowTypeOK, Row, Pended
  <2> QED
    BY <1>2, <2>1 DEF AutoPend, Store, LastSent
<1>3. CASE UNCHANGED <<row, newest, raced>>
  BY <1>3 DEF LastSent
<1>4. \/ \E r \in Requests : Commit(r) \/ AutoPend(r)
      \/ UNCHANGED <<row, newest, raced>>
  BY DEF RowNext, rowVars, Find, FindNothing, Refuse, Compare, Write, Schedule, Delete, Store
<1> QED
  BY <1>1, <1>2, <1>3, <1>4

\* The auto-pending job acts only for the reply that is the last message.
PendsQuietUnlessRaced ==
    [][\A r \in Requests : ~raced /\ AutoPend(r) /\ row' # row => newest = r]_rowVars

\* The job that sets an answered conversation to pending does so only while the reply that
\* scheduled it is the last message - as long as no save wrote over a change made since its
\* read.  With such a save a run finds it pending a conversation whose visitor wrote last.
THEOREM PendsQuietWithoutRaces == RowSpec => PendsQuietUnlessRaced
<1>1. RowInit => LastSent
  BY DEF RowInit, LastSent, NewRow
<1>2. RowInv /\ LastSent /\ [RowNext]_rowVars
        => [\A r \in Requests : ~raced /\ AutoPend(r) /\ row' # row => newest = r]_rowVars
  BY DEF LastSent, AutoPend, Store, Due
<1> QED
  BY <1>1, <1>2, LastSentNext, RowInvariant, PTL DEF RowSpec, PendsQuietUnlessRaced

-----------------------------------------------------------------------------
(* Unread messages *)

\* The call sent a message that counts as unread.
Counts(q) == q.pc = "done" /\ q.edit.kind \in {"message", "greeting"}

Counted == {r \in Requests : Counts(request[r])}

\* What the save of a message adds to the messages already counted.
Own(e) == IF e.kind = "message" THEN 1 ELSE 0

\* The entity of a call that is under way counts its own message and no message that
\* was not sent, however old the row is that it read.
CountsSent(r) ==
    request[r].pc \in {"found", "compared", "written", "missed"} =>
        request[r].entity.unread <= Cardinality(Counted) + Own(request[r].edit)

UnreadInv ==
    /\ IsFiniteSet(Counted)
    /\ row.unread <= Cardinality(Counted)
    /\ \A r \in Requests : CountsSent(r)

\* Reading and changing the entity adds no more than the call's message.
LEMMA EditedUnread ==
    ASSUME NEW c \in Row, NEW e \in Edit, NEW r \in Requests
    PROVE  Edited(c, e, r).unread \in {0, c.unread, c.unread + Own(e)}
<1> USE DEF Edited, Own
<1>0. c.unread \in Nat
  BY DEF Row
<1>1. CASE e.kind = "status"
  BY <1>1 DEF Row
<1>2. CASE e.kind = "assign"
  BY <1>2 DEF Row
<1>3. CASE e.kind = "read"
  BY <1>3 DEF Row
<1>4. CASE e.kind = "visit"
  BY <1>4 DEF Row
<1>5. CASE e.kind = "truncate"
  BY <1>5 DEF Row
<1>6. CASE e.kind = "greeting"
  BY <1>6 DEF Row
<1>7. CASE e.kind = "message"
  BY <1>7 DEF Row, WithMessage
<1>8. CASE e.kind = "reply"
  BY <1>0, <1>8 DEF Row, WithMessage
<1> QED
  BY <1>1, <1>2, <1>3, <1>4, <1>5, <1>6, <1>7, <1>8 DEF Edit

\* The second save of a greeting counts it.
LEMMA FinishedUnread ==
    ASSUME NEW c \in Row, NEW e \in Edit, NEW r \in Requests
    PROVE  Finished(c, e, r).unread = c.unread + (IF e.kind = "greeting" THEN 1 ELSE 0)
<1>1. c.unread \in Nat
  BY DEF Row
<1> QED
  BY <1>1 DEF Row, Finished, WithMessage

\* A call is counted when it is done, and from then on.
LEMMA CountGrows ==
    ASSUME RowTypeOK, UnreadInv, NEW r \in Requests, request[r].pc # "done",
           \A q \in Requests : q # r => request'[q] = request[q]
    PROVE  /\ IsFiniteSet(Counted')
           /\ Cardinality(Counted)' = Cardinality(Counted)
                                          + (IF Counts(request'[r]) THEN 1 ELSE 0)
<1>1. IsFiniteSet(Counted) /\ Cardinality(Counted) \in Nat /\ r \notin Counted
  BY FS_CardinalityType DEF UnreadInv, Counted, Counts
<1>2. CASE Counts(request'[r])
  <2>1. Counted' = Counted \union {r}
    BY <1>2 DEF Counted
  <2> QED
    BY <1>1, <1>2, <2>1, FS_AddElement
<1>3. CASE ~Counts(request'[r])
  <2>1. Counted' = Counted
    BY <1>1, <1>3 DEF Counted
  <2> QED
    BY <1>1, <1>3, <2>1
<1> QED
  BY <1>2, <1>3

\* A step of one call that leaves the row's counter alone.
LEMMA UnreadFrame ==
    ASSUME RowTypeOK, RowTypeOK', UnreadInv, NEW r \in Requests, request[r].pc # "done",
           \A q \in Requests : q # r => request'[q] = request[q],
           \/ row'.unread = row.unread
           \/ row'.unread <= Cardinality(Counted)',
           request'[r].pc \in {"found", "compared", "written", "missed"} =>
               request'[r].entity.unread <= Cardinality(Counted) + Own(request'[r].edit)
    PROVE  UnreadInv'
<1>1. /\ IsFiniteSet(Counted) /\ IsFiniteSet(Counted')
      /\ Cardinality(Counted) \in Nat /\ Cardinality(Counted)' \in Nat
      /\ Cardinality(Counted) <= Cardinality(Counted)'
  BY CountGrows, FS_CardinalityType DEF UnreadInv
<1>2. row.unread \in Nat /\ row'.unread \in Nat
  BY DEF RowTypeOK, Row
<1>3. row'.unread <= Cardinality(Counted)'
  BY <1>1, <1>2 DEF UnreadInv
<1>4. ASSUME NEW q \in Requests PROVE CountsSent(q)'
  <2>1. request'[q].pc \in {"found", "compared", "written", "missed"} =>
            request'[q].entity.unread <= Cardinality(Counted) + Own(request'[q].edit)
    BY DEF UnreadInv, CountsSent
  <2>2. request'[q].entity.unread \in Nat /\ Own(request'[q].edit) \in Nat
    BY DEF RowTypeOK, Request, Row, Own
  <2> HIDE DEF Own
  <2> QED
    BY <1>1, <2>1, <2>2 DEF CountsSent
<1> QED
  BY <1>1, <1>3, <1>4 DEF UnreadInv

LEMMA UnreadInit == RowInit => UnreadInv
<1> SUFFICES ASSUME RowInit PROVE UnreadInv
  OBVIOUS
<1>1. Counted = {}
  BY DEF RowInit, Counted, Counts, Outside
<1>2. IsFiniteSet(Counted) /\ Cardinality(Counted) = 0
  BY <1>1, FS_EmptySet
<1> QED
  BY <1>2 DEF RowInit, NewRow, UnreadInv, CountsSent, Outside

\* The call reads the row, compares its entity with it, or ends without a save.
LEMMA UnreadReads ==
    ASSUME RowTypeOK, RowTypeOK', UnreadInv, NEW r \in Requests,
           \/ \E e \in Edits[r] : Find(r, e) \/ FindNothing(r, e)
           \/ Refuse(r) \/ Compare(r) \/ Write(r) \/ Schedule(r)
    PROVE  UnreadInv'
<1>1. /\ UNCHANGED row
      /\ request[r].pc # "done"
      /\ \A q \in Requests : q # r => request'[q] = request[q]
  BY DEF Find, FindNothing, Refuse, Compare, Write, Schedule, Replace, RowTypeOK
<1>2. row.unread <= Cardinality(Counted) /\ Cardinality(Counted) \in Nat
  BY FS_CardinalityType DEF UnreadInv
<1>3. ASSUME NEW e \in Edits[r], Find(r, e)
      PROVE  request'[r].entity.unread <= Cardinality(Counted) + Own(request'[r].edit)
  <2>1. request'[r].entity = Edited(row, e, r) /\ request'[r].edit = e
    BY <1>3, RequestType DEF Find, Replace, RowTypeOK, Request
  <2>2. e \in Edit /\ row \in Row /\ row.unread \in Nat /\ Own(e) \in Nat
    BY RowAssumption DEF RowAssumption, RowTypeOK, Row, Own
  <2>3. Edited(row, e, r).unread \in {0, row.unread, row.unread + Own(e)}
    BY <2>2, EditedUnread
  <2> HIDE DEF Own
  <2> QED
    BY <1>2, <2>1, <2>2, <2>3
<1>4. ASSUME NEW e \in Edits[r], FindNothing(r, e) PROVE request'[r].pc = "failed"
  BY <1>4 DEF FindNothing, Replace, RowTypeOK, Outside
<1>5. ASSUME Refuse(r) PROVE request'[r].pc = "failed"
  BY <1>5 DEF Refuse, Replace, RowTypeOK, Outside
<1>6. ASSUME Schedule(r) PROVE request'[r].pc = "done"
  BY <1>6 DEF Schedule, Replace, RowTypeOK, Outside
<1>7. ASSUME Compare(r) \/ Write(r)
      PROVE  request'[r].entity.unread <= Cardinality(Counted) + Own(request'[r].edit)
  <2>1. /\ request'[r].entity = request[r].entity
        /\ request'[r].edit = request[r].edit
        /\ request[r].pc \in {"found", "compared"}
    <3>1. CASE Compare(r)
      BY <3>1 DEF Compare, Replace, RowTypeOK, Request
    <3>2. CASE Write(r)
      BY <3>2 DEF Write, Replace, RowTypeOK, Request
    <3> QED
      BY <1>7, <3>1, <3>2
  <2> QED
    BY <2>1 DEF UnreadInv, CountsSent
<1>8. request'[r].pc \in {"found", "compared", "written", "missed"} =>
          request'[r].entity.unread <= Cardinality(Counted) + Own(request'[r].edit)
  BY <1>3, <1>4, <1>5, <1>6, <1>7
<1> QED
  BY <1>1, <1>8, UnreadFrame

\* The save writes the counter of the row or of the entity, and the call is counted.
LEMMA UnreadCommit ==
    ASSUME RowTypeOK, RowTypeOK', UnreadInv, NEW r \in Requests, Commit(r)
    PROVE  UnreadInv'
<1> DEFINE q == request[r]
           c == Overwritten(row, q.entity, q.dirty)
           greets == IF q.edit.kind = "greeting" THEN 1 ELSE 0
           n == Cardinality(Counted)
<1>1. /\ q.pc \in {"written", "missed"} /\ q.edit \in Edit /\ q.entity \in Row /\ q.dirty \in Columns
      /\ row \in Row
  BY RequestType DEF Commit, RowTypeOK
<1>2. \A p \in Requests : p # r => request'[p] = request[p]
  BY DEF Commit, Replace, RowTypeOK
<1>3. request'[r] = Outside(IF q.edit.kind = "reply" THEN "committed" ELSE "done", q.edit)
  BY DEF Commit, Replace, RowTypeOK
<1>4. /\ request'[r].pc \notin {"found", "compared", "written", "missed"}
      /\ Counts(request'[r]) <=> q.edit.kind \in {"message", "greeting"}
  BY <1>3 DEF Outside, Counts
<1>5. Cardinality(Counted)' = n + (IF q.edit.kind \in {"message", "greeting"} THEN 1 ELSE 0)
  BY <1>1, <1>2, <1>4, CountGrows
<1>6. /\ n \in Nat /\ row.unread \in Nat /\ q.entity.unread \in Nat
      /\ row.unread <= n
      /\ q.entity.unread <= n + Own(q.edit)
  BY <1>1, FS_CardinalityType DEF UnreadInv, CountsSent, Row
<1>7. c \in Row /\ c.unread \in {row.unread, q.entity.unread}
  BY <1>1, OverwrittenType DEF Overwritten
<1>8. row' \in {row, Finished(c, q.edit, r), Finished(q.entity, q.edit, r)}
  BY DEF Commit, Saved, Store
<1>9. row'.unread \in {row.unread, row.unread + greets, q.entity.unread + greets}
  <2>1. Finished(c, q.edit, r).unread = c.unread + greets
    BY <1>1, <1>7, FinishedUnread
  <2>2. Finished(q.entity, q.edit, r).unread = q.entity.unread + greets
    BY <1>1, FinishedUnread
  <2> HIDE DEF c, q, greets
  <2> QED
    BY <1>7, <1>8, <2>1, <2>2
<1>10. row'.unread <= Cardinality(Counted)'
  <2> HIDE DEF n
  <2> QED
    BY <1>5, <1>6, <1>9 DEF Own
<1> QED
  BY <1>1, <1>2, <1>4, <1>10, UnreadFrame

\* Nothing else changes the counter: a delete leaves it with the row that is gone, the
\* auto-pending job writes the status.
LEMMA UnreadOther ==
    ASSUME RowTypeOK, UnreadInv,
           Delete \/ (\E r \in Requests : AutoPend(r)) \/ UNCHANGED rowVars
    PROVE  UnreadInv'
<1>1. UNCHANGED request /\ row'.unread = row.unread
  BY DEF Delete, AutoPend, Store, Pended, rowVars, RowTypeOK, Row
<1>2. Counted' = Counted
  BY <1>1 DEF Counted
<1> QED
  BY <1>1, <1>2 DEF UnreadInv, CountsSent

LEMMA UnreadNext == RowTypeOK /\ UnreadInv /\ [RowNext]_rowVars => UnreadInv'
  BY RowTypeNext, UnreadReads, UnreadCommit, UnreadOther DEF RowNext

\* Whatever saves overwrite one another, the counter of unread messages never exceeds the
\* visitor's messages that were committed.
THEOREM UnreadNeverMadeUp == RowSpec => []UnreadWereSent
<1>1. UnreadInv => UnreadWereSent
  BY DEF UnreadInv, UnreadWereSent, Counted, Counts
<1>2. RowSpec => []UnreadInv
  BY UnreadInit, UnreadNext, RowTypeCorrect, PTL DEF RowSpec
<1> QED
  BY <1>1, <1>2, PTL

=============================================================================
