-------------------------- MODULE FormRequestsProofs --------------------------
(***************************************************************************)
(* What the checks and the unique index guarantee, for any number of calls. *)
(***************************************************************************)
EXTENDS FormRequests, SequenceTheorems, TLAPS

LEMMA RequestsType ==
    ASSUME FormsTypeOK
    PROVE  /\ requests \in Seq(Request)
           /\ Len(requests) \in Nat
           /\ DOMAIN requests = 1..Len(requests)
           /\ \A r \in DOMAIN requests : requests[r] \in Request
  BY ElementOfSeq, LenProperties DEF FormsTypeOK

\* Replacing one request by another.
LEMMA ReplaceRequest ==
    ASSUME FormsTypeOK, NEW r \in DOMAIN requests, NEW value \in Request,
           requests' = [requests EXCEPT ![r] = value]
    PROVE  /\ requests' \in Seq(Request)
           /\ Len(requests') = Len(requests)
           /\ DOMAIN requests' = DOMAIN requests
           /\ requests'[r] = value
           /\ \A s \in DOMAIN requests : s # r => requests'[s] = requests[s]
  BY RequestsType, ExceptSeq

\* One more request.
LEMMA AddRequest ==
    ASSUME FormsTypeOK, NEW value \in Request, requests' = Append(requests, value)
    PROVE  /\ requests' \in Seq(Request)
           /\ Len(requests') = Len(requests) + 1
           /\ DOMAIN requests' = 1..(Len(requests) + 1)
           /\ requests'[Len(requests) + 1] = value
           /\ \A s \in DOMAIN requests : requests'[s] = requests[s]
  BY RequestsType, AppendProperties

LEMMA FormsTypeInit == FormsInit => FormsTypeOK
  BY EmptySeq DEF FormsInit, FormsTypeOK, Send, Submit

-----------------------------------------------------------------------------
(* Types *)

LEMMA SendChanged ==
    ASSUME FormsTypeOK, NEW a \in Sends, NEW value, SetSend(a, value),
           requests' \in Seq(Request), Len(requests') \in Nat, Len(requests) <= Len(requests'),
           value \in Send,
           value.latest <= Len(requests'), value.id <= Len(requests'),
           value.pc \in {"inserting", "done"} => value.id # 0,
           value.pc \in {"valid", "looked", "clear"} => value.template \in Templates
    PROVE  FormsTypeOK'
<1>1. Len(requests) \in Nat
  BY RequestsType
<1>2. /\ send' \in [Sends -> Send]
      /\ send'[a] = value
      /\ \A b \in Sends : b # a => send'[b] = send[b]
  BY DEF SetSend, FormsTypeOK
<1>3. \A b \in Sends : send[b].latest \in Nat /\ send[b].id \in Nat
  BY DEF FormsTypeOK, Send
<1>4. \A b \in Sends : /\ send'[b].latest <= Len(requests')
                       /\ send'[b].id <= Len(requests')
                       /\ send'[b].pc \in {"inserting", "done"} => send'[b].id # 0
                       /\ send'[b].pc \in {"valid", "looked", "clear"}
                            => send'[b].template \in Templates
  <2> TAKE b \in Sends
  <2>1. CASE b = a
    BY <2>1, <1>2
  <2>2. CASE b # a
    BY <2>2, <1>1, <1>2, <1>3 DEF FormsTypeOK
  <2> QED
    BY <2>1, <2>2
<1>5. \A t \in Submits : submit[t].request \in Nat
  BY DEF FormsTypeOK, Submit
<1> QED
  BY <1>1, <1>2, <1>4, <1>5 DEF FormsTypeOK, SetSend

LEMMA TypeSend ==
    ASSUME FormsTypeOK, NEW a \in Sends, SendStep(a)
    PROVE  FormsTypeOK'
<1>1. /\ send[a] \in Send /\ send[a].latest <= Len(requests) /\ send[a].id <= Len(requests)
      /\ send[a].pc \in {"inserting", "done"} => send[a].id # 0
      /\ send[a].pc \in {"valid", "looked", "clear"} => send[a].template \in Templates
      /\ send[a].latest \in Nat /\ send[a].id \in Nat
  BY DEF FormsTypeOK, Send
<1>2. requests \in Seq(Request) /\ Len(requests) \in Nat /\ DOMAIN requests = 1..Len(requests)
  BY RequestsType
<1>3. ASSUME NEW t \in Templates, NEW expires \in BOOLEAN, ReadTemplate(a, t, expires)
      PROVE  FormsTypeOK'
  <2> DEFINE value == [send[a] EXCEPT !.pc = "valid", !.template = t, !.expires = expires]
  <2>1. /\ value \in Send /\ value.template = t /\ value.pc = "valid"
        /\ value.latest = send[a].latest /\ value.id = send[a].id
    BY <1>1 DEF Send
  <2>2. SetSend(a, value) /\ requests' = requests
    BY <1>3 DEF ReadTemplate
  <2> HIDE DEF value
  <2> QED
    BY <1>1, <1>2, <2>1, <2>2, SendChanged
<1>4. ASSUME NEW r \in 0..Len(requests), FindLatest(a, r)
      PROVE  FormsTypeOK'
  <2> DEFINE value == [send[a] EXCEPT !.pc = "looked", !.latest = r]
  <2>1. /\ value \in Send /\ value.template = send[a].template /\ value.pc = "looked"
        /\ value.latest = r /\ value.id = send[a].id
    <3>1. r \in Nat
      BY <1>2
    <3> QED
      BY <1>1, <3>1 DEF Send
  <2>2. SetSend(a, value) /\ requests' = requests /\ send[a].pc = "valid"
    BY <1>4 DEF FindLatest
  <2> HIDE DEF value
  <2> QED
    BY <1>1, <1>2, <2>1, <2>2, SendChanged
<1>5. CASE CheckPending(a)
  <2>1. PICK pc \in {"conflict", "clear"} :
            SetSend(a, [send[a] EXCEPT !.pc = pc]) /\ requests' = requests
            /\ send[a].pc = "looked"
    <3>1. CASE Pending(send[a].latest)
      BY <1>5, <3>1 DEF CheckPending
    <3>2. CASE ~Pending(send[a].latest)
      BY <1>5, <3>2 DEF CheckPending
    <3> QED
      BY <3>1, <3>2
  <2> DEFINE value == [send[a] EXCEPT !.pc = pc]
  <2>2. /\ value \in Send /\ value.template = send[a].template /\ value.pc = pc
        /\ value.latest = send[a].latest /\ value.id = send[a].id
    BY <1>1 DEF Send
  <2>3. SetSend(a, value)
    BY <2>1
  <2> HIDE DEF value
  <2> QED
    BY <1>1, <1>2, <2>1, <2>2, <2>3, SendChanged
<1>6. CASE InsertRequest(a)
  <2> DEFINE value == [send[a] EXCEPT !.pc = "inserting", !.id = NextId]
  <2>1. NewRequest(a) \in Request
    <3>1. send[a].template \in Templates /\ send[a].expires \in BOOLEAN
      BY <1>1, <1>6 DEF InsertRequest, Send
    <3> QED
      BY <1>1, <3>1 DEF NewRequest, Request
  <2>2. requests' \in Seq(Request) /\ Len(requests') = Len(requests) + 1
    BY <1>6, <2>1, AddRequest DEF InsertRequest
  <2>3. /\ value \in Send /\ value.pc = "inserting"
        /\ value.latest = send[a].latest /\ value.id = NextId
    <3>1. NextId \in Nat
      BY <1>2 DEF NextId
    <3> QED
      BY <1>1, <3>1 DEF Send
  <2>4. SetSend(a, value)
    BY <1>6 DEF InsertRequest
  <2> HIDE DEF value
  <2> QED
    BY <1>1, <1>2, <2>2, <2>3, <2>4, SendChanged DEF NextId
<1>7. CASE CommitRequest(a)
  <2> DEFINE value == [send[a] EXCEPT !.pc = "done"]
  <2>1. send[a].id \in DOMAIN requests
    BY <1>1, <1>2, <1>7 DEF CommitRequest
  <2>2. [requests[send[a].id] EXCEPT !.state = "stored"] \in Request
    BY <2>1, RequestsType DEF Request
  <2>3. requests' \in Seq(Request) /\ Len(requests') = Len(requests)
    BY <1>7, <2>1, <2>2, ReplaceRequest DEF CommitRequest
  <2>4. /\ value \in Send /\ value.pc = "done"
        /\ value.latest = send[a].latest /\ value.id = send[a].id
    BY <1>1 DEF Send
  <2>5. SetSend(a, value) /\ send[a].pc = "inserting"
    BY <1>7 DEF CommitRequest
  <2> HIDE DEF value
  <2> QED
    BY <1>1, <1>2, <2>3, <2>4, <2>5, SendChanged
<1>8. CASE FailSend(a)
  <2> DEFINE value == [send[a] EXCEPT !.pc = "failed"]
  <2>1. requests' \in Seq(Request) /\ Len(requests') = Len(requests)
    <3>1. CASE send[a].pc = "inserting"
      <4>1. send[a].id \in DOMAIN requests
        BY <1>1, <1>2, <3>1
      <4>2. [requests[send[a].id] EXCEPT !.state = "lost"] \in Request
        BY <4>1, RequestsType DEF Request
      <4> QED
        BY <1>8, <3>1, <4>1, <4>2, ReplaceRequest DEF FailSend
    <3>2. CASE send[a].pc # "inserting"
      BY <1>8, <3>2, <1>2 DEF FailSend
    <3> QED
      BY <3>1, <3>2
  <2>2. /\ value \in Send /\ value.pc = "failed"
        /\ value.latest = send[a].latest /\ value.id = send[a].id
    BY <1>1 DEF Send
  <2>3. SetSend(a, value)
    BY <1>8 DEF FailSend
  <2> HIDE DEF value
  <2> QED
    BY <1>1, <1>2, <2>1, <2>2, <2>3, SendChanged
<1> QED
  BY <1>3, <1>4, <1>5, <1>6, <1>7, <1>8 DEF SendStep

LEMMA SubmitChanged ==
    ASSUME FormsTypeOK, NEW t \in Submits, NEW value, SetSubmit(t, value),
           requests' \in Seq(Request), Len(requests') = Len(requests),
           posted' \subseteq Submits, value \in Submit, value.request <= Len(requests),
           value.pc \in {"found", "unanswered", "valid", "inserted", "done"} => value.request # 0
    PROVE  FormsTypeOK'
<1>1. /\ submit' \in [Submits -> Submit]
      /\ submit'[t] = value
      /\ \A u \in Submits : u # t => submit'[u] = submit[u]
  BY DEF SetSubmit, FormsTypeOK
<1>2. \A u \in Submits : /\ submit'[u].request <= Len(requests)
                         /\ submit'[u].pc \in {"found", "unanswered", "valid", "inserted", "done"}
                              => submit'[u].request # 0
  <2> TAKE u \in Submits
  <2>1. CASE u = t
    BY <2>1, <1>1
  <2>2. CASE u # t
    BY <2>2, <1>1 DEF FormsTypeOK
  <2> QED
    BY <2>1, <2>2
<1> QED
  BY <1>1, <1>2 DEF FormsTypeOK, SetSubmit

LEMMA TypeSubmit ==
    ASSUME FormsTypeOK, NEW t \in Submits, SubmitStep(t)
    PROVE  FormsTypeOK'
<1>1. /\ submit[t] \in Submit /\ submit[t].request \in Nat
      /\ submit[t].request <= Len(requests)
      /\ submit[t].pc \in {"found", "unanswered", "valid", "inserted", "done"}
           => submit[t].request # 0
  BY DEF FormsTypeOK, Submit
<1>2. requests \in Seq(Request) /\ Len(requests) \in Nat /\ DOMAIN requests = 1..Len(requests)
  BY RequestsType
<1>3. ASSUME NEW r \in DOMAIN requests, FindRequest(t, r) PROVE FormsTypeOK'
  <2> DEFINE value == [submit[t] EXCEPT !.pc = "found", !.request = r]
  <2>1. value \in Submit /\ value.pc = "found" /\ value.request = r
    <3>1. r \in Nat
      BY <1>2
    <3> QED
      BY <1>1, <3>1 DEF Submit
  <2>2. SetSubmit(t, value) /\ requests' = requests /\ posted' = posted
    BY <1>3 DEF FindRequest
  <2>3. posted' \subseteq Submits
    BY <2>2 DEF FormsTypeOK
  <2> HIDE DEF value
  <2> QED
    BY <1>1, <1>2, <2>1, <2>2, <2>3, SubmitChanged
<1>4. ASSUME NEW pc \in {"unanswered", "valid", "inserted", "done", "failed"},
             NEW saved \in SUBSET Writes,
             SetSubmit(t, [submit[t] EXCEPT !.pc = pc, !.saved = saved]), submit[t].request # 0,
             requests' \in Seq(Request), Len(requests') = Len(requests), posted' \subseteq Submits
      PROVE  FormsTypeOK'
  <2> DEFINE value == [submit[t] EXCEPT !.pc = pc, !.saved = saved]
  <2>1. value \in Submit /\ value.pc = pc /\ value.request = submit[t].request
    BY <1>1 DEF Submit
  <2>2. SetSubmit(t, value)
    BY <1>4
  <2> HIDE DEF value
  <2> QED
    BY <1>1, <1>2, <1>4, <2>1, <2>2, SubmitChanged
<1>5. ASSUME requests' = requests, posted' = posted
      PROVE  requests' \in Seq(Request) /\ Len(requests') = Len(requests) /\ posted' \subseteq Submits
  BY <1>5, <1>2 DEF FormsTypeOK
<1>6. CASE CheckAnswered(t) \/ CheckTemplate(t)
  <2>1. PICK pc \in {"unanswered", "valid"} :
            SetSubmit(t, [submit[t] EXCEPT !.pc = pc])
    BY <1>6 DEF CheckAnswered, CheckTemplate
  <2>2. SetSubmit(t, [submit[t] EXCEPT !.pc = pc, !.saved = submit[t].saved])
    <3>1. [submit[t] EXCEPT !.pc = pc] = [submit[t] EXCEPT !.pc = pc, !.saved = submit[t].saved]
      BY <1>1 DEF Submit
    <3> QED
      BY <2>1, <3>1
  <2>3. submit[t].saved \in SUBSET Writes
    BY <1>1 DEF Submit
  <2> QED
    BY <1>1, <1>4, <1>5, <1>6, <2>2, <2>3 DEF CheckAnswered, CheckTemplate
<1>7. CASE SaveMark(t) \/ SaveMessage(t)
  <2>1. PICK saved \in SUBSET Writes :
            SetSubmit(t, [submit[t] EXCEPT !.saved = saved])
    BY <1>7 DEF SaveMark, SaveMessage, Writes
  <2>2. SetSubmit(t, [submit[t] EXCEPT !.pc = "inserted", !.saved = saved])
    <3>1. [submit[t] EXCEPT !.saved = saved]
             = [submit[t] EXCEPT !.pc = "inserted", !.saved = saved]
      BY <1>1, <1>7 DEF SaveMark, SaveMessage, Submit
    <3> QED
      BY <2>1, <3>1
  <2> QED
    BY <1>1, <1>4, <1>5, <1>7, <2>2 DEF SaveMark, SaveMessage
<1>8. CASE InsertSubmission(t)
  BY <1>1, <1>4, <1>5, <1>8 DEF InsertSubmission, Writes
<1>9. CASE FailSubmit(t)
  <2>1. {} \in SUBSET Writes /\ SetSubmit(t, [submit[t] EXCEPT !.pc = "failed", !.saved = {}])
    BY <1>9 DEF FailSubmit
  <2> QED
    BY <1>1, <1>4, <1>5, <1>9, <2>1 DEF FailSubmit
<1>10. CASE CommitSubmission(t)
  <2>1. submit[t].request \in DOMAIN requests
    BY <1>1, <1>2, <1>10 DEF CommitSubmission
  <2>2. [requests[submit[t].request] EXCEPT !.answer = t, !.mark = t] \in Request
    BY <2>1, RequestsType DEF Request
  <2>3. requests' \in Seq(Request) /\ Len(requests') = Len(requests)
    BY <1>10, <2>1, <2>2, ReplaceRequest DEF CommitSubmission
  <2>4. posted' \subseteq Submits
    BY <1>10 DEF CommitSubmission, FormsTypeOK
  <2>5. SetSubmit(t, [submit[t] EXCEPT !.pc = "done", !.saved = Writes])
    <3>1. [submit[t] EXCEPT !.pc = "done"] = [submit[t] EXCEPT !.pc = "done", !.saved = Writes]
      BY <1>1, <1>10 DEF CommitSubmission, Submit
    <3> QED
      BY <1>10, <3>1 DEF CommitSubmission
  <2> QED
    BY <1>1, <1>4, <1>10, <2>3, <2>4, <2>5 DEF CommitSubmission
<1>11. CASE DeleteSubmission(t)
  <2>1. submit[t].request \in DOMAIN requests
    BY <1>1, <1>2, <1>11 DEF DeleteSubmission
  <2>2. [requests[submit[t].request] EXCEPT !.answer = NoSubmission] \in Request
    BY <2>1, RequestsType DEF Request
  <2>3. requests' \in Seq(Request) /\ Len(requests') = Len(requests)
    BY <1>11, <2>1, <2>2, ReplaceRequest DEF DeleteSubmission
  <2> QED
    BY <1>11, <2>3 DEF DeleteSubmission, FormsTypeOK
<1> QED
  BY <1>3, <1>6, <1>7, <1>8, <1>9, <1>10, <1>11 DEF SubmitStep

LEMMA FormsTypeNext == FormsTypeOK /\ [FormsNext]_formVars => FormsTypeOK'
<1> SUFFICES ASSUME FormsTypeOK, [FormsNext]_formVars PROVE FormsTypeOK'
  OBVIOUS
<1>1. ASSUME NEW t \in Templates, ToggleTemplate(t) \/ DeleteTemplate(t) PROVE FormsTypeOK'
  BY <1>1 DEF ToggleTemplate, DeleteTemplate, FormsTypeOK
<1>2. ASSUME NEW r \in DOMAIN requests, Expire(r) PROVE FormsTypeOK'
  <2>1. [requests[r] EXCEPT !.expired = TRUE] \in Request
    BY RequestsType DEF Request
  <2>2. requests' \in Seq(Request) /\ Len(requests') = Len(requests)
    BY <1>2, <2>1, ReplaceRequest DEF Expire
  <2> QED
    BY <1>2, <2>2 DEF Expire, FormsTypeOK
<1>3. CASE UNCHANGED formVars
  BY <1>3 DEF formVars, FormsTypeOK
<1> QED
  BY <1>1, <1>2, <1>3, TypeSend, TypeSubmit DEF FormsNext

\* The variables keep their types (sendFormRequest, submitFormAsVisitor and their
\* surroundings).
THEOREM FormsTypeCorrect == FormsSpec => []FormsTypeOK
  BY FormsTypeInit, FormsTypeNext, PTL DEF FormsSpec

-----------------------------------------------------------------------------
(* Submissions *)

\* Submissions that exist are the answers of their requests, and a transaction that
\* holds the index entry of a request is the only one, without an answer yet.
SubmitInv ==
    /\ \A t \in Submits : t \in posted <=> submit[t].pc = "done"
    /\ deleted \subseteq posted
    /\ \A t \in posted \ deleted : requests[submit[t].request].answer = t
    /\ \A t \in Submits : submit[t].pc = "inserted"
                          => requests[submit[t].request].answer = NoSubmission
    /\ \A t, u \in Submits :
           /\ submit[t].pc = "inserted" /\ submit[u].pc = "inserted"
           /\ submit[t].request = submit[u].request
           => t = u

\* Nothing about answers changes; there may be a new request.
AnswersKept ==
    /\ UNCHANGED <<submit, posted, deleted>>
    /\ \A r \in DOMAIN requests : /\ r \in DOMAIN requests'
                                  /\ requests'[r].answer = requests[r].answer
                                  /\ requests'[r].mark = requests[r].mark
                                  /\ requests'[r].seen = requests[r].seen
    /\ \A r \in DOMAIN requests' : r \notin DOMAIN requests
                                   => requests'[r].answer = NoSubmission

LEMMA ReplaceKeeps ==
    ASSUME FormsTypeOK, NEW r \in DOMAIN requests, NEW value \in Request,
           requests' = [requests EXCEPT ![r] = value],
           value.answer = requests[r].answer, value.mark = requests[r].mark,
           value.seen = requests[r].seen, UNCHANGED <<submit, posted, deleted>>
    PROVE  AnswersKept
  BY ReplaceRequest DEF AnswersKept

LEMMA SendKeepsAnswers ==
    ASSUME FormsTypeOK, NEW a \in Sends, SendStep(a)
    PROVE  AnswersKept
<1>1. UNCHANGED <<submit, posted, deleted>>
  BY DEF SendStep, ReadTemplate, FindLatest, CheckPending, InsertRequest, CommitRequest,
         FailSend, SetSend
<1>2. ASSUME requests' = requests PROVE AnswersKept
  BY <1>1, <1>2 DEF AnswersKept
<1>3. CASE InsertRequest(a)
  <2>1. NewRequest(a) \in Request
    <3>1. send[a].template \in Templates /\ send[a].expires \in BOOLEAN /\ send[a].latest \in Nat
      BY <1>3 DEF InsertRequest, Send, FormsTypeOK
    <3> QED
      BY <3>1 DEF NewRequest, Request
  <2>2. NewRequest(a).answer = NoSubmission
    BY DEF NewRequest
  <2> QED
    BY <1>1, <1>3, <2>1, <2>2, AddRequest, RequestsType DEF InsertRequest, AnswersKept
<1>4. ASSUME send[a].pc = "inserting", NEW state \in {"stored", "lost"},
             requests' = [requests EXCEPT ![send[a].id] = [@ EXCEPT !.state = state]]
      PROVE  AnswersKept
  <2>1. send[a].id \in DOMAIN requests
    BY <1>4, RequestsType DEF FormsTypeOK, Send
  <2>2. requests[send[a].id] \in Request
    BY <2>1, RequestsType
  <2> DEFINE value == [requests[send[a].id] EXCEPT !.state = state]
  <2>3. /\ value \in Request
        /\ value.answer = requests[send[a].id].answer
        /\ value.mark = requests[send[a].id].mark
        /\ value.seen = requests[send[a].id].seen
    BY <2>2 DEF Request
  <2>4. requests' = [requests EXCEPT ![send[a].id] = value]
    BY <1>4
  <2> HIDE DEF value
  <2> QED
    BY <1>1, <2>1, <2>3, <2>4, ReplaceKeeps
<1>5. CASE CommitRequest(a)
  BY <1>4, <1>5 DEF CommitRequest
<1>6. CASE FailSend(a)
  BY <1>2, <1>4, <1>6 DEF FailSend
<1> QED
  BY <1>2, <1>3, <1>5, <1>6 DEF SendStep, ReadTemplate, FindLatest, CheckPending

LEMMA ExpireKeepsAnswers ==
    ASSUME FormsTypeOK, NEW r \in DOMAIN requests, Expire(r)
    PROVE  AnswersKept
<1> DEFINE value == [requests[r] EXCEPT !.expired = TRUE]
<1>1. requests[r] \in Request
  BY RequestsType
<1>2. /\ value \in Request /\ value.answer = requests[r].answer
      /\ value.mark = requests[r].mark /\ value.seen = requests[r].seen
  BY <1>1 DEF Request
<1>3. requests' = [requests EXCEPT ![r] = value] /\ UNCHANGED <<submit, posted, deleted>>
  BY DEF Expire
<1> HIDE DEF value
<1> QED
  BY <1>2, <1>3, ReplaceKeeps

\* The request a call deals with exists.
LEMMA RequestOfSubmit ==
    ASSUME FormsTypeOK, NEW t \in Submits,
           submit[t].pc \in {"found", "unanswered", "valid", "inserted", "done"}
    PROVE  submit[t].request \in DOMAIN requests
  BY RequestsType DEF FormsTypeOK, Submit

LEMMA KeepsSubmitInv ==
    ASSUME FormsTypeOK, SubmitInv, AnswersKept
    PROVE  SubmitInv'
<1>1. \A t \in Submits : submit[t].pc \in {"inserted", "done"}
                         => requests'[submit[t].request].answer = requests[submit[t].request].answer
  BY RequestOfSubmit DEF AnswersKept
<1> QED
  BY <1>1 DEF SubmitInv, AnswersKept, FormsTypeOK

\* A call goes on without writing anything.
LEMMA ChecksKeepSubmitInv ==
    ASSUME FormsTypeOK, SubmitInv, NEW t \in Submits,
           \/ \E r \in DOMAIN requests : FindRequest(t, r)
           \/ CheckAnswered(t) \/ CheckTemplate(t) \/ FailSubmit(t)
    PROVE  SubmitInv'
<1>1. /\ requests' = requests /\ posted' = posted /\ deleted' = deleted
      /\ submit[t].pc \in {"none", "found", "unanswered", "valid", "inserted"}
      /\ submit'[t].pc \in {"found", "unanswered", "valid", "failed"}
      /\ \A u \in Submits : u # t => submit'[u] = submit[u]
  BY DEF FindRequest, CheckAnswered, CheckTemplate, FailSubmit, SetSubmit, FormsTypeOK, Submit
<1>2. t \notin posted
  BY <1>1 DEF SubmitInv
<1> QED
  BY <1>1, <1>2 DEF SubmitInv, FormsTypeOK

\* What a step of a submission's transaction leaves alone.
LEMMA SaveSteps ==
    ASSUME FormsTypeOK, NEW t \in Submits, SaveMark(t) \/ SaveMessage(t)
    PROVE  /\ UNCHANGED <<template, send, requests, posted, deleted>>
           /\ submit[t].pc = "inserted"
           /\ \A u \in Submits : /\ submit'[u].pc = submit[u].pc
                                 /\ submit'[u].request = submit[u].request
                                 /\ u # t => submit'[u] = submit[u]
  BY DEF SaveMark, SaveMessage, SetSubmit, FormsTypeOK, Submit

LEMMA SaveKeepsSubmitInv ==
    ASSUME FormsTypeOK, SubmitInv, NEW t \in Submits, SaveMark(t) \/ SaveMessage(t)
    PROVE  SubmitInv'
<1>1. \A u \in posted : u \in Submits
  BY DEF FormsTypeOK
<1> QED
  BY <1>1, SaveSteps DEF SubmitInv

LEMMA InsertKeepsSubmitInv ==
    ASSUME FormsTypeOK, SubmitInv, NEW t \in Submits, InsertSubmission(t)
    PROVE  SubmitInv'
<1>1. /\ requests' = requests /\ posted' = posted /\ deleted' = deleted
      /\ submit[t].pc = "valid"
      /\ submit'[t].pc = "inserted" /\ submit'[t].request = submit[t].request
      /\ \A u \in Submits : u # t => submit'[u] = submit[u]
  BY DEF InsertSubmission, SetSubmit, FormsTypeOK, Submit
<1>2. t \notin posted
  BY <1>1 DEF SubmitInv
<1>3. /\ requests[submit[t].request].answer = NoSubmission
      /\ \A u \in Submits : submit[u].pc = "inserted" => submit[u].request # submit[t].request
  BY DEF InsertSubmission, Unique
<1>4. \A u \in Submits : /\ u \in posted' <=> submit'[u].pc = "done"
                         /\ submit'[u].pc = "inserted"
                            => requests'[submit'[u].request].answer = NoSubmission
  BY <1>1, <1>2, <1>3 DEF SubmitInv
<1>5. \A u \in posted' \ deleted' : requests'[submit'[u].request].answer = u
  BY <1>1, <1>2 DEF SubmitInv, FormsTypeOK
<1>6. \A u, v \in Submits :
          /\ submit'[u].pc = "inserted" /\ submit'[v].pc = "inserted"
          /\ submit'[u].request = submit'[v].request
          => u = v
  BY <1>1, <1>3 DEF SubmitInv
<1> QED
  BY <1>1, <1>4, <1>5, <1>6 DEF SubmitInv

LEMMA CommitKeepsSubmitInv ==
    ASSUME FormsTypeOK, SubmitInv, NEW t \in Submits, CommitSubmission(t)
    PROVE  SubmitInv' /\ submit'[t].request = submit[t].request
<1> DEFINE q == submit[t].request
<1>1. /\ posted' = posted \union {t} /\ deleted' = deleted
      /\ submit[t].pc = "inserted"
      /\ submit'[t].pc = "done" /\ submit'[t].request = q
      /\ \A u \in Submits : u # t => submit'[u] = submit[u]
  BY DEF CommitSubmission, SetSubmit, FormsTypeOK, Submit
<1>2. q \in DOMAIN requests /\ requests[q] \in Request
  BY <1>1, RequestOfSubmit, RequestsType
<1>3. /\ requests'[q].answer = t
      /\ \A r \in DOMAIN requests : r # q => requests'[r] = requests[r]
  BY <1>2 DEF CommitSubmission, Request
<1>4. t \notin posted /\ t \notin deleted
  BY <1>1 DEF SubmitInv
<1>5. \A u \in Submits : u # t /\ submit[u].pc = "inserted" => submit[u].request # q
  BY <1>1 DEF SubmitInv
<1>6. \A u \in posted \ deleted : submit[u].request # q
  <2>1. requests[q].answer = NoSubmission
    BY <1>1 DEF SubmitInv
  <2> QED
    BY <2>1, FormsAssumption DEF SubmitInv, FormsTypeOK, FormsAssumption
<1>7. \A u \in Submits : submit[u].pc \in {"inserted", "done"}
                         => submit[u].request \in DOMAIN requests
  BY RequestOfSubmit
<1>8. \A u \in Submits : /\ u \in posted' <=> submit'[u].pc = "done"
                         /\ submit'[u].pc = "inserted"
                            => requests'[submit'[u].request].answer = NoSubmission
  BY <1>1, <1>3, <1>5, <1>7 DEF SubmitInv
<1>9. \A u \in posted' \ deleted' : requests'[submit'[u].request].answer = u
  <2> SUFFICES ASSUME NEW u \in posted' \ deleted'
               PROVE  requests'[submit'[u].request].answer = u
    OBVIOUS
  <2>1. CASE u = t
    BY <2>1, <1>1, <1>3
  <2>2. CASE u # t
    <3>1. u \in posted \ deleted /\ u \in Submits /\ submit[u].pc = "done"
      BY <2>2, <1>1 DEF SubmitInv, FormsTypeOK
    <3> QED
      BY <2>2, <3>1, <1>1, <1>3, <1>6, <1>7 DEF SubmitInv
  <2> QED
    BY <2>1, <2>2
<1>10. \A u, v \in Submits :
          /\ submit'[u].pc = "inserted" /\ submit'[v].pc = "inserted"
          /\ submit'[u].request = submit'[v].request
          => u = v
  BY <1>1 DEF SubmitInv
<1>11. deleted' \subseteq posted'
  BY <1>1 DEF SubmitInv
<1> QED
  BY <1>1, <1>8, <1>9, <1>10, <1>11 DEF SubmitInv

LEMMA DeleteKeepsSubmitInv ==
    ASSUME FormsTypeOK, SubmitInv, NEW t \in Submits, DeleteSubmission(t)
    PROVE  SubmitInv'
<1> DEFINE q == submit[t].request
<1>1. /\ posted' = posted /\ deleted' = deleted \union {t} /\ submit' = submit
      /\ submit[t].pc = "done" /\ t \notin deleted /\ t \in posted
  BY DEF DeleteSubmission, SubmitInv
<1>2. q \in DOMAIN requests /\ requests[q] \in Request
  BY <1>1, RequestOfSubmit, RequestsType
<1>3. /\ requests'[q].answer = NoSubmission
      /\ \A r \in DOMAIN requests : r # q => requests'[r] = requests[r]
  BY <1>2 DEF DeleteSubmission, Request
<1>4. \A u \in posted' \ deleted' : submit[u].request # q
  BY <1>1 DEF SubmitInv
<1>5. \A u \in Submits : submit[u].pc \in {"inserted", "done"}
                         => submit[u].request \in DOMAIN requests
  BY RequestOfSubmit
<1>6. \A u \in posted' \ deleted' : requests'[submit'[u].request].answer = u
  BY <1>1, <1>3, <1>4, <1>5 DEF SubmitInv, FormsTypeOK
<1>7. \A u \in Submits : submit'[u].pc = "inserted"
                         => requests'[submit'[u].request].answer = NoSubmission
  BY <1>1, <1>3, <1>5 DEF SubmitInv
<1> QED
  BY <1>1, <1>6, <1>7 DEF SubmitInv

\* The steps that touch no answer.
LEMMA OtherSteps ==
    ASSUME FormsTypeOK, [FormsNext]_formVars
    PROVE  \/ AnswersKept
           \/ \E t \in Submits :
                  \/ \E r \in DOMAIN requests : FindRequest(t, r)
                  \/ CheckAnswered(t) \/ CheckTemplate(t) \/ FailSubmit(t)
                  \/ SaveMark(t) \/ SaveMessage(t)
                  \/ InsertSubmission(t) \/ CommitSubmission(t) \/ DeleteSubmission(t)
<1>1. CASE UNCHANGED formVars
  BY <1>1 DEF formVars, AnswersKept
<1>2. ASSUME NEW t \in Templates, ToggleTemplate(t) \/ DeleteTemplate(t) PROVE AnswersKept
  BY <1>2 DEF ToggleTemplate, DeleteTemplate, AnswersKept
<1> QED
  BY <1>1, <1>2, SendKeepsAnswers, ExpireKeepsAnswers DEF FormsNext, SubmitStep

LEMMA SubmitInvNext == FormsTypeOK /\ SubmitInv /\ [FormsNext]_formVars => SubmitInv'
  BY OtherSteps, KeepsSubmitInv, ChecksKeepSubmitInv, InsertKeepsSubmitInv,
     CommitKeepsSubmitInv, DeleteKeepsSubmitInv, SaveKeepsSubmitInv

LEMMA SubmitInvInit == FormsInit => SubmitInv
  BY DEF FormsInit, SubmitInv

LEMMA SubmitInvInvariant == FormsSpec => []SubmitInv
<1>1. FormsSpec => []FormsTypeOK
  BY FormsTypeCorrect
<1> QED
  BY <1>1, SubmitInvInit, SubmitInvNext, PTL DEF FormsSpec

\* A request's answer is posted again only after the first was deleted
\* (submitFormAsVisitor and the unique index).
THEOREM AnsweredOnce == FormsSpec => []SubmittedOnce
<1>1. FormsTypeOK /\ SubmitInv => SubmittedOnce
  BY DEF SubmitInv, SubmittedOnce, FormsTypeOK
<1> QED
  BY <1>1, FormsTypeCorrect, SubmitInvInvariant, PTL

-----------------------------------------------------------------------------
(* One active request *)

SettledRequest(r) == requests[r].answer # NoSubmission \/ Reopened(r)

\* A call that goes on to create a request found the one it looked at settled.
PendingInv ==
    \A a \in Sends : send[a].pc = "clear" /\ send[a].latest # 0 => SettledRequest(send[a].latest)

\* Requests stay, with what their senders saw, and stay settled.
LEMMA SettledStays ==
    ASSUME FormsTypeOK, SubmitInv, [FormsNext]_formVars, NEW r \in DOMAIN requests
    PROVE  /\ r \in DOMAIN requests'
           /\ requests'[r].seen = requests[r].seen
           /\ SettledRequest(r) => SettledRequest(r)'
<1>1. CASE AnswersKept
  BY <1>1 DEF AnswersKept, SettledRequest, Reopened
<1>2. \A t \in deleted : submit[t].pc = "done" /\ t \in Submits
  BY DEF SubmitInv, FormsTypeOK
<1>3. ASSUME NEW t \in Submits, requests' = requests, deleted' = deleted,
             submit[t].pc # "done", \A u \in Submits : u # t => submit'[u] = submit[u]
      PROVE  /\ r \in DOMAIN requests'
             /\ requests'[r].seen = requests[r].seen
             /\ SettledRequest(r) => SettledRequest(r)'
  BY <1>2, <1>3 DEF SettledRequest, Reopened
<1>4. ASSUME NEW t \in Submits,
             \/ \E q \in DOMAIN requests : FindRequest(t, q)
             \/ CheckAnswered(t) \/ CheckTemplate(t) \/ FailSubmit(t) \/ InsertSubmission(t)
             \/ SaveMark(t) \/ SaveMessage(t)
      PROVE  /\ requests' = requests /\ deleted' = deleted /\ submit[t].pc # "done"
             /\ \A u \in Submits : u # t => submit'[u] = submit[u]
  BY <1>4, SaveSteps DEF FindRequest, CheckAnswered, CheckTemplate, FailSubmit,
              InsertSubmission, SetSubmit, FormsTypeOK
<1>5. ASSUME NEW t \in Submits, CommitSubmission(t)
      PROVE  /\ r \in DOMAIN requests'
             /\ requests'[r].seen = requests[r].seen
             /\ SettledRequest(r) => SettledRequest(r)'
  <2> DEFINE q == submit[t].request
             value == [requests[q] EXCEPT !.answer = t, !.mark = t]
  <2>1. q \in DOMAIN requests /\ requests[q] \in Request
    BY <1>5, RequestOfSubmit, RequestsType DEF CommitSubmission
  <2>2. value \in Request /\ value.answer = t /\ value.seen = requests[q].seen
    BY <2>1 DEF Request
  <2>3. requests' = [requests EXCEPT ![q] = value] /\ deleted' = deleted
    BY <1>5 DEF CommitSubmission, SetSubmit
  <2>4. \A u \in deleted : submit'[u].request = submit[u].request
    BY <1>2, <1>5 DEF CommitSubmission, SetSubmit, FormsTypeOK
  <2> HIDE DEF value
  <2>5. Reopened(r) => Reopened(r)'
    BY <2>3, <2>4 DEF Reopened
  <2> QED
    BY <2>1, <2>2, <2>3, <2>5, ReplaceRequest, FormsAssumption
       DEF SettledRequest, FormsAssumption
<1>6. ASSUME NEW t \in Submits, DeleteSubmission(t)
      PROVE  /\ r \in DOMAIN requests'
             /\ requests'[r].seen = requests[r].seen
             /\ SettledRequest(r) => SettledRequest(r)'
  <2> DEFINE q == submit[t].request
             value == [requests[q] EXCEPT !.answer = NoSubmission]
  <2>1. q \in DOMAIN requests /\ requests[q] \in Request
    BY <1>6, RequestOfSubmit, RequestsType DEF DeleteSubmission
  <2>2. value \in Request /\ value.seen = requests[q].seen
    BY <2>1 DEF Request
  <2>3. /\ requests' = [requests EXCEPT ![q] = value]
        /\ deleted' = deleted \union {t} /\ submit' = submit
    BY <1>6 DEF DeleteSubmission
  <2> HIDE DEF value
  <2>4. Reopened(r) \/ r = q => Reopened(r)'
    BY <2>3 DEF Reopened
  <2> QED
    BY <2>1, <2>2, <2>3, <2>4, ReplaceRequest DEF SettledRequest
<1> QED
  BY <1>1, <1>3, <1>4, <1>5, <1>6, OtherSteps

LEMMA PendingInvNext == FormsTypeOK /\ SubmitInv /\ PendingInv /\ [FormsNext]_formVars => PendingInv'
<1> SUFFICES ASSUME FormsTypeOK, SubmitInv, PendingInv, [FormsNext]_formVars,
                    NEW a \in Sends, send'[a].pc = "clear",
                    NEW r, r = send'[a].latest, r # 0
             PROVE  SettledRequest(r)'
  BY DEF PendingInv
<1>1. send[a].latest # 0 => send[a].latest \in DOMAIN requests
  BY RequestsType DEF FormsTypeOK, Send
<1>2. CASE send'[a] = send[a]
  <2>1. r = send[a].latest /\ SettledRequest(r)
    BY <1>2 DEF PendingInv
  <2> QED
    BY <1>1, <2>1, SettledStays
<1>3. CASE send'[a] # send[a]
  <2>1. PICK b \in Sends : SendStep(b)
    BY <1>3 DEF FormsNext, formVars, ToggleTemplate, DeleteTemplate, Expire, SubmitStep, FindRequest,
       CheckAnswered, CheckTemplate, InsertSubmission, CommitSubmission, FailSubmit,
       SaveMark, SaveMessage, DeleteSubmission, SetSubmit
  <2>2. a = b
    BY <1>3, <2>1 DEF SendStep, ReadTemplate, FindLatest, CheckPending, InsertRequest,
       CommitRequest, FailSend, SetSend, FormsTypeOK
  <2>3. send[a] \in Send
    BY DEF FormsTypeOK
  <2>4. CheckPending(a)
    <3>1. ASSUME NEW value, SetSend(a, value) PROVE send'[a] = value
      BY <3>1 DEF SetSend, FormsTypeOK
    <3>2. ASSUME NEW t, NEW expires, ReadTemplate(a, t, expires) PROVE FALSE
      BY <2>3, <3>1, <3>2 DEF ReadTemplate, Send
    <3>3. ASSUME NEW q, FindLatest(a, q) PROVE FALSE
      BY <2>3, <3>1, <3>3 DEF FindLatest, Send
    <3>4. ~InsertRequest(a) /\ ~CommitRequest(a) /\ ~FailSend(a)
      BY <2>3, <3>1 DEF InsertRequest, CommitRequest, FailSend, Send
    <3> QED
      BY <2>1, <2>2, <3>2, <3>3, <3>4 DEF SendStep
  <2>5. ~Pending(send[a].latest) /\ r = send[a].latest
    <3>1. CASE Pending(send[a].latest)
      BY <2>3, <2>4, <3>1 DEF CheckPending, SetSend, FormsTypeOK, Send
    <3>2. CASE ~Pending(send[a].latest)
      BY <2>3, <2>4, <3>2 DEF CheckPending, SetSend, FormsTypeOK, Send
    <3> QED
      BY <3>1, <3>2
  <2>6. SettledRequest(r)
    BY <2>5 DEF Pending, SettledRequest
  <2> QED
    BY <1>1, <2>5, <2>6, SettledStays
<1> QED
  BY <1>2, <1>3

LEMMA OneActiveNext ==
    FormsTypeOK /\ SubmitInv /\ PendingInv /\ OneActiveUnlessRaced /\ [FormsNext]_formVars
    => OneActiveUnlessRaced'
<1> SUFFICES ASSUME FormsTypeOK, SubmitInv, PendingInv, OneActiveUnlessRaced, [FormsNext]_formVars,
                    NEW r \in DOMAIN requests', NEW s \in DOMAIN requests', r < s
             PROVE  SettledRequest(r)' \/ RacedWith(r, s)'
  BY DEF OneActiveUnlessRaced, SettledRequest
<1>1. Len(requests) \in Nat /\ DOMAIN requests = 1..Len(requests)
  BY RequestsType
\* What held before the step holds after it.
<1>2. ASSUME NEW last \in DOMAIN requests, r \in DOMAIN requests, r < last
      PROVE  SettledRequest(r)' \/ RacedWith(r, last)'
  <2>1. SettledRequest(r) \/ RacedWith(r, last)
    BY <1>2 DEF OneActiveUnlessRaced, SettledRequest
  <2>2. RacedWith(r, last) => RacedWith(r, last)'
    <3> SUFFICES ASSUME NEW k \in (r + 1)..last, requests[k].seen < r
                 PROVE  requests'[k].seen < r
      BY DEF RacedWith
    <3>1. k \in DOMAIN requests
      BY <1>1, <1>2
    <3> QED
      BY <3>1, SettledStays
  <2> QED
    BY <1>2, <2>1, <2>2, SettledStays
<1>3. CASE DOMAIN requests' = DOMAIN requests
  BY <1>2, <1>3
<1>4. CASE DOMAIN requests' # DOMAIN requests
  <2>1. PICK a \in Sends : InsertRequest(a)
    <3>1. ASSUME NEW q \in DOMAIN requests, NEW value,
                 requests' = [requests EXCEPT ![q] = value]
          PROVE  FALSE
      BY <1>4, <3>1
    <3> QED
      BY <1>4, <3>1 DEF FormsNext, formVars, ToggleTemplate, DeleteTemplate, Expire, SubmitStep,
         FindRequest, CheckAnswered, CheckTemplate, InsertSubmission, CommitSubmission,
         FailSubmit, SaveMark, SaveMessage, DeleteSubmission, SetSubmit, SendStep, ReadTemplate, FindLatest,
         CheckPending, CommitRequest, FailSend
  <2>2. NewRequest(a) \in Request /\ NewRequest(a).seen = send[a].latest
    <3>1. send[a].template \in Templates /\ send[a].expires \in BOOLEAN /\ send[a].latest \in Nat
      BY <2>1 DEF InsertRequest, Send, FormsTypeOK
    <3> QED
      BY <3>1 DEF NewRequest, Request
  <2>3. /\ DOMAIN requests' = 1..(Len(requests) + 1)
        /\ requests'[Len(requests) + 1].seen = send[a].latest
    BY <2>1, <2>2, AddRequest DEF InsertRequest
  <2>4. r \in DOMAIN requests
    BY <1>1, <2>3
  <2>5. CASE s \in DOMAIN requests
    BY <1>2, <2>4, <2>5
  <2>6. CASE s = Len(requests) + 1
    <3>1. send[a].latest \in Nat /\ send[a].latest <= Len(requests) /\ send[a].pc = "clear"
      BY <2>1 DEF FormsTypeOK, Send, InsertRequest
    <3>2. CASE send[a].latest < r
      BY <1>1, <2>3, <2>4, <2>6, <3>2 DEF RacedWith
    <3>3. CASE send[a].latest = r
      BY <1>1, <2>4, <3>1, <3>3, SettledStays DEF PendingInv
    <3>4. CASE r < send[a].latest
      <4>1. PICK last \in DOMAIN requests : last = send[a].latest
        BY <1>1, <2>4, <3>1, <3>4
      <4>2. SettledRequest(r)' \/ RacedWith(r, last)'
        BY <1>2, <2>4, <3>4, <4>1
      <4>3. (r + 1)..last \subseteq (r + 1)..s
        BY <1>1, <2>4, <2>6, <4>1
      <4> QED
        BY <4>2, <4>3 DEF RacedWith
    <3> QED
      BY <1>1, <2>4, <3>1, <3>2, <3>3, <3>4
  <2> QED
    BY <1>1, <2>3, <2>5, <2>6
<1> QED
  BY <1>3, <1>4

\* Two requests are unanswered at once only if the calls that sent them raced, or
\* the answer of the older one was deleted (hasPendingFormRequest, sendFormRequest).
THEOREM OneActiveRequest == FormsSpec => []OneActiveUnlessRaced
<1>1. FormsInit => PendingInv /\ OneActiveUnlessRaced
  BY EmptySeq DEF FormsInit, PendingInv, OneActiveUnlessRaced
<1>2. FormsTypeOK /\ SubmitInv /\ (PendingInv /\ OneActiveUnlessRaced) /\ [FormsNext]_formVars
      => (PendingInv /\ OneActiveUnlessRaced)'
  BY PendingInvNext, OneActiveNext
<1> QED
  BY <1>1, <1>2, FormsTypeCorrect, SubmitInvInvariant, PTL DEF FormsSpec

-----------------------------------------------------------------------------
(* The promise of FormAnswers *)

Going == {"found", "unanswered", "valid", "inserted", "done"}

\* An INSERT under way has its request to itself, nobody answers or marks a request before
\* it is stored, and a submission deals with a stored one.
StoredInv ==
    /\ \A a \in Sends : send[a].pc = "inserting" => requests[send[a].id].state = "inserting"
    /\ \A a, b \in Sends :
           /\ send[a].pc = "inserting" /\ send[b].pc = "inserting"
           /\ send[a].id = send[b].id
           => a = b
    /\ \A r \in DOMAIN requests :
           requests[r].state # "stored"
             => requests[r].answer = NoSubmission /\ requests[r].mark = NoSubmission
    /\ \A t \in Submits : submit[t].pc \in Going => requests[submit[t].request].state = "stored"

\* A stored request stays stored, and a new one is not stored yet.
StoredKept ==
    /\ \A r \in DOMAIN requests :
           /\ r \in DOMAIN requests'
           /\ requests[r].state = "stored" => requests'[r].state = "stored"
    /\ \A r \in DOMAIN requests' : r \notin DOMAIN requests
                                   => requests'[r].state = "inserting"

\* Only the start of an INSERT and its end write the state of a request.
LEMMA StatesKept ==
    ASSUME FormsTypeOK, StoredInv, DOMAIN requests' = DOMAIN requests,
           \A r \in DOMAIN requests : requests'[r].state = requests[r].state,
           \A r \in DOMAIN requests :
               requests[r].state # "stored"
                 => /\ requests'[r].answer = requests[r].answer
                    /\ requests'[r].mark = requests[r].mark,
           \A a \in Sends : send'[a] = send[a] \/ send'[a].pc # "inserting",
           \A t \in Submits :
               submit'[t].pc \in Going
                 => \/ submit[t].pc \in Going /\ submit'[t].request = submit[t].request
                    \/ requests[submit'[t].request].state = "stored",
           \A t \in Submits : submit'[t].pc \in Going => submit'[t].request \in DOMAIN requests
    PROVE  StoredInv' /\ StoredKept
<1>1. \A a \in Sends : send[a].pc = "inserting" => send[a].id \in DOMAIN requests
  BY RequestsType DEF FormsTypeOK, Send
<1>2. /\ \A a \in Sends : send'[a].pc = "inserting" => requests'[send'[a].id].state = "inserting"
      /\ \A a, b \in Sends :
             /\ send'[a].pc = "inserting" /\ send'[b].pc = "inserting"
             /\ send'[a].id = send'[b].id
             => a = b
  BY <1>1 DEF StoredInv
<1>3. \A r \in DOMAIN requests' :
         requests'[r].state # "stored"
           => requests'[r].answer = NoSubmission /\ requests'[r].mark = NoSubmission
  BY DEF StoredInv
<1>4. \A t \in Submits : submit'[t].pc \in Going
                         => requests'[submit'[t].request].state = "stored"
  <2> SUFFICES ASSUME NEW t \in Submits, submit'[t].pc \in Going
               PROVE  requests'[submit'[t].request].state = "stored"
    OBVIOUS
  <2>1. requests[submit'[t].request].state = "stored"
    BY DEF StoredInv
  <2> QED
    BY <2>1
<1> QED
  BY <1>2, <1>3, <1>4 DEF StoredInv, StoredKept

\* The INSERT of a request starts.
LEMMA InsertStored ==
    ASSUME FormsTypeOK, StoredInv, NEW a \in Sends, InsertRequest(a)
    PROVE  StoredInv' /\ StoredKept
<1> DEFINE id == Len(requests) + 1
<1>1. NewRequest(a) \in Request
  <2>1. send[a].template \in Templates /\ send[a].expires \in BOOLEAN /\ send[a].latest \in Nat
    BY DEF InsertRequest, Send, FormsTypeOK
  <2> QED
    BY <2>1 DEF NewRequest, Request
<1>2. /\ DOMAIN requests' = DOMAIN requests \union {id} /\ id \notin DOMAIN requests
      /\ requests'[id] = NewRequest(a)
      /\ \A r \in DOMAIN requests : requests'[r] = requests[r]
  BY <1>1, AddRequest, RequestsType DEF InsertRequest
<1>3. /\ requests'[id].state = "inserting"
      /\ requests'[id].answer = NoSubmission /\ requests'[id].mark = NoSubmission
  BY <1>2 DEF NewRequest
<1>4. /\ send'[a].pc = "inserting" /\ send'[a].id = id
      /\ \A b \in Sends : b # a => send'[b] = send[b]
      /\ submit' = submit
  BY DEF InsertRequest, SetSend, NextId, FormsTypeOK, Send
<1>5. \A b \in Sends : send[b].pc = "inserting" => send[b].id \in DOMAIN requests
  BY RequestsType DEF FormsTypeOK, Send
<1>6. \A t \in Submits : submit[t].pc \in Going => submit[t].request \in DOMAIN requests
  BY RequestOfSubmit DEF Going
<1> HIDE DEF id
<1>7. /\ \A b \in Sends : send'[b].pc = "inserting" => requests'[send'[b].id].state = "inserting"
      /\ \A b, c \in Sends :
             /\ send'[b].pc = "inserting" /\ send'[c].pc = "inserting"
             /\ send'[b].id = send'[c].id
             => b = c
  BY <1>2, <1>3, <1>4, <1>5 DEF StoredInv
<1>8. \A r \in DOMAIN requests' :
         requests'[r].state # "stored"
           => requests'[r].answer = NoSubmission /\ requests'[r].mark = NoSubmission
  BY <1>2, <1>3 DEF StoredInv
<1>9. \A t \in Submits : submit'[t].pc \in Going
                         => requests'[submit'[t].request].state = "stored"
  BY <1>2, <1>4, <1>6 DEF StoredInv
<1> QED
  BY <1>2, <1>3, <1>7, <1>8, <1>9 DEF StoredInv, StoredKept

\* The INSERT of a request ends, well or badly.
LEMMA EndInsertStored ==
    ASSUME FormsTypeOK, StoredInv, NEW a \in Sends, NEW state \in {"stored", "lost"},
           NEW pc \in {"done", "failed"}, send[a].pc = "inserting",
           requests' = [requests EXCEPT ![send[a].id] = [@ EXCEPT !.state = state]],
           SetSend(a, [send[a] EXCEPT !.pc = pc])
    PROVE  StoredInv' /\ StoredKept
<1>1. PICK id : id = send[a].id
  OBVIOUS
<1>2. id \in DOMAIN requests /\ requests[id] \in Request /\ requests[id].state = "inserting"
  BY <1>1, RequestsType DEF FormsTypeOK, Send, StoredInv
<1> DEFINE value == [requests[id] EXCEPT !.state = state]
<1>3. /\ value \in Request /\ value.state = state
      /\ value.answer = requests[id].answer /\ value.mark = requests[id].mark
  BY <1>2 DEF Request
<1>4. requests' = [requests EXCEPT ![id] = value]
  BY <1>1
<1> HIDE DEF value
<1>5. /\ DOMAIN requests' = DOMAIN requests /\ requests'[id] = value
      /\ \A r \in DOMAIN requests : r # id => requests'[r] = requests[r]
  BY <1>2, <1>3, <1>4, ReplaceRequest
<1>6. /\ send'[a].pc # "inserting"
      /\ \A b \in Sends : b # a => send'[b] = send[b]
      /\ submit' = submit
  BY DEF SetSend, FormsTypeOK, Send
<1>7. \A b \in Sends : b # a /\ send[b].pc = "inserting"
                       => send[b].id \in DOMAIN requests /\ send[b].id # id
  BY <1>1, RequestsType DEF FormsTypeOK, Send, StoredInv
<1>8. \A t \in Submits : submit[t].pc \in Going
                         => submit[t].request \in DOMAIN requests /\ submit[t].request # id
  BY <1>2, RequestOfSubmit DEF Going, StoredInv
<1>9. /\ \A b \in Sends : send'[b].pc = "inserting" => requests'[send'[b].id].state = "inserting"
      /\ \A b, c \in Sends :
             /\ send'[b].pc = "inserting" /\ send'[c].pc = "inserting"
             /\ send'[b].id = send'[c].id
             => b = c
  BY <1>5, <1>6, <1>7 DEF StoredInv
<1>10. \A r \in DOMAIN requests' :
         requests'[r].state # "stored"
           => requests'[r].answer = NoSubmission /\ requests'[r].mark = NoSubmission
  BY <1>2, <1>3, <1>5 DEF StoredInv
<1>11. \A t \in Submits : submit'[t].pc \in Going
                         => requests'[submit'[t].request].state = "stored"
  BY <1>5, <1>6, <1>8 DEF StoredInv
<1> QED
  BY <1>2, <1>5, <1>9, <1>10, <1>11 DEF StoredInv, StoredKept

\* The steps of sendFormRequest.
LEMMA SendStored ==
    ASSUME FormsTypeOK, StoredInv, NEW a \in Sends, SendStep(a)
    PROVE  StoredInv' /\ StoredKept
<1>1. ASSUME UNCHANGED <<requests, submit>>, send'[a].pc # "inserting",
             \A b \in Sends : b # a => send'[b] = send[b]
      PROVE  StoredInv' /\ StoredKept
  <2>1. \A t \in Submits : submit[t].pc \in Going => submit[t].request \in DOMAIN requests
    BY RequestOfSubmit DEF Going
  <2> QED
    BY <1>1, <2>1, StatesKept
<1>2. CASE \/ \E t \in Templates, expires \in BOOLEAN : ReadTemplate(a, t, expires)
           \/ \E r \in 0..Len(requests) : FindLatest(a, r)
           \/ CheckPending(a)
  <2>1. /\ UNCHANGED <<requests, submit>>
        /\ send'[a].pc \in {"valid", "looked", "conflict", "clear"}
        /\ \A b \in Sends : b # a => send'[b] = send[b]
    BY <1>2 DEF ReadTemplate, FindLatest, CheckPending, SetSend, FormsTypeOK, Send
  <2> QED
    BY <1>1, <2>1
<1>3. CASE InsertRequest(a)
  BY <1>3, InsertStored
<1>4. CASE CommitRequest(a)
  BY <1>4, EndInsertStored DEF CommitRequest
<1>5. CASE FailSend(a) /\ send[a].pc = "inserting"
  BY <1>5, EndInsertStored DEF FailSend
<1>6. CASE FailSend(a) /\ send[a].pc # "inserting"
  <2>1. /\ UNCHANGED <<requests, submit>>
        /\ send'[a].pc = "failed"
        /\ \A b \in Sends : b # a => send'[b] = send[b]
    BY <1>6 DEF FailSend, SetSend, FormsTypeOK, Send
  <2> QED
    BY <1>1, <2>1
<1> QED
  BY <1>2, <1>3, <1>4, <1>5, <1>6 DEF SendStep

\* A submission that only goes on, or gives up.
LEMMA CheckStored ==
    ASSUME FormsTypeOK, StoredInv, NEW t \in Submits,
           \/ \E r \in DOMAIN requests : FindRequest(t, r)
           \/ CheckAnswered(t) \/ CheckTemplate(t) \/ FailSubmit(t) \/ InsertSubmission(t)
    PROVE  StoredInv' /\ StoredKept
<1>1. UNCHANGED <<requests, send>>
  BY DEF FindRequest, CheckAnswered, CheckTemplate, FailSubmit, InsertSubmission, SetSubmit
<1>2. \A u \in Submits : u # t => submit'[u] = submit[u]
  BY DEF FindRequest, CheckAnswered, CheckTemplate, FailSubmit, InsertSubmission, SetSubmit,
         FormsTypeOK
<1>3. \A u \in Submits : submit[u].pc \in Going => submit[u].request \in DOMAIN requests
  BY RequestOfSubmit DEF Going
<1>4. \/ submit'[t].pc \notin Going
      \/ submit[t].pc \in Going /\ submit'[t].request = submit[t].request
      \/ /\ submit'[t].request \in DOMAIN requests
         /\ requests[submit'[t].request].state = "stored"
  BY DEF FindRequest, CheckAnswered, CheckTemplate, FailSubmit, InsertSubmission, SetSubmit,
         FormsTypeOK, Submit, Going
<1>5. submit'[t].pc \in Going
        => /\ submit'[t].request \in DOMAIN requests
           /\ \/ submit[t].pc \in Going /\ submit'[t].request = submit[t].request
              \/ requests[submit'[t].request].state = "stored"
  BY <1>3, <1>4
<1> QED
  BY <1>1, <1>2, <1>3, <1>5, StatesKept

\* A submission saves its rows in its transaction.
LEMMA SaveStored ==
    ASSUME FormsTypeOK, StoredInv, NEW t \in Submits, SaveMark(t) \/ SaveMessage(t)
    PROVE  StoredInv' /\ StoredKept
<1>1. \A u \in Submits : submit[u].pc \in Going => submit[u].request \in DOMAIN requests
  BY RequestOfSubmit DEF Going
<1> QED
  BY <1>1, SaveSteps, StatesKept

\* A submission writes its answer and the mark into a request, or takes the answer back.
LEMMA AnswerStored ==
    ASSUME FormsTypeOK, StoredInv, NEW t \in Submits,
           CommitSubmission(t) \/ DeleteSubmission(t)
    PROVE  StoredInv' /\ StoredKept
<1>1. PICK q : q = submit[t].request
  OBVIOUS
<1>2. submit[t].pc \in {"inserted", "done"}
  BY DEF CommitSubmission, DeleteSubmission
<1>3. q \in DOMAIN requests /\ requests[q] \in Request /\ requests[q].state = "stored"
  BY <1>1, <1>2, RequestOfSubmit, RequestsType DEF StoredInv, Going
<1>4. PICK value \in Request : requests' = [requests EXCEPT ![q] = value] /\ value.state = "stored"
  <2>1. CASE CommitSubmission(t)
    <3> DEFINE value == [requests[q] EXCEPT !.answer = t, !.mark = t]
    <3>1. value \in Request /\ value.state = "stored"
      BY <1>3 DEF Request
    <3>2. requests' = [requests EXCEPT ![q] = value]
      BY <1>1, <2>1 DEF CommitSubmission
    <3> QED
      BY <3>1, <3>2
  <2>2. CASE DeleteSubmission(t)
    <3> DEFINE value == [requests[q] EXCEPT !.answer = NoSubmission]
    <3>1. value \in Request /\ value.state = "stored"
      BY <1>3 DEF Request
    <3>2. requests' = [requests EXCEPT ![q] = value]
      BY <1>1, <2>2 DEF DeleteSubmission
    <3> QED
      BY <3>1, <3>2
  <2> QED
    BY <2>1, <2>2
<1>5. /\ DOMAIN requests' = DOMAIN requests /\ requests'[q] = value
      /\ \A r \in DOMAIN requests : r # q => requests'[r] = requests[r]
  BY <1>3, <1>4, ReplaceRequest
<1>6. /\ send' = send
      /\ \A u \in Submits : submit'[u].request = submit[u].request
      /\ \A u \in Submits : submit'[u].pc \in Going => submit[u].pc \in Going
  <2>1. CASE CommitSubmission(t)
    <3>1. /\ submit[t].pc = "inserted" /\ send' = send
          /\ submit' = [submit EXCEPT ![t] = [submit[t] EXCEPT !.pc = "done"]]
      BY <2>1 DEF CommitSubmission, SetSubmit
    <3>2. /\ submit'[t].request = submit[t].request
          /\ \A u \in Submits : u # t => submit'[u] = submit[u]
      BY <3>1 DEF FormsTypeOK, Submit
    <3> QED
      BY <3>1, <3>2 DEF Going
  <2>2. CASE DeleteSubmission(t)
    BY <2>2 DEF DeleteSubmission
  <2> QED
    BY <2>1, <2>2
<1>7. \A u \in Submits : submit[u].pc \in Going => submit[u].request \in DOMAIN requests
  BY RequestOfSubmit DEF Going
<1> QED
  BY <1>3, <1>4, <1>5, <1>6, <1>7, StatesKept

LEMMA ExpireStored ==
    ASSUME FormsTypeOK, StoredInv, NEW r \in DOMAIN requests, Expire(r)
    PROVE  StoredInv' /\ StoredKept
<1> DEFINE value == [requests[r] EXCEPT !.expired = TRUE]
<1>1. /\ value \in Request /\ value.state = requests[r].state
      /\ value.answer = requests[r].answer /\ value.mark = requests[r].mark
  BY RequestsType DEF Request
<1>2. requests' = [requests EXCEPT ![r] = value] /\ UNCHANGED <<send, submit>>
  BY DEF Expire
<1> HIDE DEF value
<1>3. /\ DOMAIN requests' = DOMAIN requests /\ requests'[r] = value
      /\ \A s \in DOMAIN requests : s # r => requests'[s] = requests[s]
  BY <1>1, <1>2, ReplaceRequest
<1>4. \A u \in Submits : submit[u].pc \in Going => submit[u].request \in DOMAIN requests
  BY RequestOfSubmit DEF Going
<1> QED
  BY <1>1, <1>2, <1>3, <1>4, StatesKept

LEMMA StoredStep ==
    FormsTypeOK /\ StoredInv /\ [FormsNext]_formVars => StoredInv' /\ StoredKept
<1> SUFFICES ASSUME FormsTypeOK, StoredInv, [FormsNext]_formVars PROVE StoredInv' /\ StoredKept
  OBVIOUS
<1>1. ASSUME UNCHANGED <<send, requests, submit>> PROVE StoredInv' /\ StoredKept
  BY <1>1 DEF StoredInv, StoredKept
<1>2. ASSUME NEW t \in Templates, ToggleTemplate(t) \/ DeleteTemplate(t)
      PROVE  StoredInv' /\ StoredKept
  BY <1>1, <1>2 DEF ToggleTemplate, DeleteTemplate
<1>3. CASE UNCHANGED formVars
  BY <1>1, <1>3 DEF formVars
<1> QED
  BY <1>2, <1>3, SendStored, CheckStored, SaveStored, AnswerStored, ExpireStored DEF FormsNext, SubmitStep

LEMMA StoredInvariant == FormsSpec => []StoredInv
<1>1. FormsInit => StoredInv
  BY EmptySeq DEF FormsInit, StoredInv, Going
<1> QED
  BY <1>1, StoredStep, FormsTypeCorrect, PTL DEF FormsSpec

\* Steps that write no answer at most make requests visible.
LEMMA KeepingAsks ==
    ASSUME FormsTypeOK, StoredInv, AnswersKept, StoredKept
    PROVE  Forms!Ask
<1>1. Seen \subseteq Seen'
  BY DEF Seen, StoredKept
<1>2. \A r \in Seen' : r \in Seen => /\ requests'[r].answer = requests[r].answer
                                     /\ requests'[r].mark = requests[r].mark
  BY DEF Seen, AnswersKept
<1>3. \A r \in Seen' : r \notin Seen => /\ requests'[r].answer = NoSubmission
                                        /\ requests'[r].mark = NoSubmission
  <2> SUFFICES ASSUME NEW r \in Seen', r \notin Seen
               PROVE  requests'[r].answer = NoSubmission /\ requests'[r].mark = NoSubmission
    OBVIOUS
  <2>1. r \in DOMAIN requests
    BY DEF Seen, StoredKept
  <2>2. requests[r].state # "stored"
    BY <2>1 DEF Seen
  <2> QED
    BY <2>1, <2>2 DEF StoredInv, AnswersKept
<1>4. posted' = posted
  BY DEF AnswersKept
<1> QED
  BY <1>1, <1>2, <1>3, <1>4 DEF Forms!Ask

\* Committing a submission answers a request that had no answer.
LEMMA CommitAnswers ==
    ASSUME FormsTypeOK, SubmitInv, StoredInv, NEW t \in Submits, CommitSubmission(t)
    PROVE  \E r \in Seen : Forms!Answer(r, t)
<1>1. PICK q : q = submit[t].request
  OBVIOUS
<1>2. /\ q \in DOMAIN requests /\ requests[q] \in Request /\ requests[q].state = "stored"
      /\ requests[q].answer = NoSubmission /\ t \notin posted
  BY <1>1, RequestOfSubmit, RequestsType DEF CommitSubmission, StoredInv, SubmitInv, Going
<1> DEFINE value == [requests[q] EXCEPT !.answer = t, !.mark = t]
<1>3. value \in Request /\ value.state = "stored" /\ value.answer = t /\ value.mark = t
  BY <1>2 DEF Request
<1>4. requests' = [requests EXCEPT ![q] = value] /\ posted' = posted \union {t}
  BY <1>1 DEF CommitSubmission
<1> HIDE DEF value
<1>5. /\ DOMAIN requests' = DOMAIN requests /\ requests'[q] = value
      /\ \A r \in DOMAIN requests : r # q => requests'[r] = requests[r]
  BY <1>2, <1>3, <1>4, ReplaceRequest
<1>6. Seen' = Seen /\ q \in Seen
  BY <1>2, <1>3, <1>5 DEF Seen
<1>7. /\ [r \in Seen |-> requests[r].answer]' = [[r \in Seen |-> requests[r].answer] EXCEPT ![q] = t]
      /\ [r \in Seen |-> requests[r].mark]' = [[r \in Seen |-> requests[r].mark] EXCEPT ![q] = t]
  BY <1>3, <1>5, <1>6 DEF Seen
<1> QED
  BY <1>2, <1>4, <1>6, <1>7 DEF Forms!Answer

\* Deleting a submission withdraws the answer it is.
LEMMA DeleteWithdraws ==
    ASSUME FormsTypeOK, SubmitInv, StoredInv, NEW t \in Submits, DeleteSubmission(t)
    PROVE  \E r \in Seen : Forms!Withdraw(r)
<1>1. PICK q : q = submit[t].request
  OBVIOUS
<1>2. /\ q \in DOMAIN requests /\ requests[q] \in Request /\ requests[q].state = "stored"
  BY <1>1, RequestOfSubmit, RequestsType DEF DeleteSubmission, StoredInv, Going
<1>3. requests[q].answer # NoSubmission
  BY <1>1, FormsAssumption DEF DeleteSubmission, SubmitInv, FormsAssumption
<1> DEFINE value == [requests[q] EXCEPT !.answer = NoSubmission]
<1>4. /\ value \in Request /\ value.state = "stored" /\ value.answer = NoSubmission
      /\ value.mark = requests[q].mark
  BY <1>2 DEF Request
<1>5. requests' = [requests EXCEPT ![q] = value] /\ posted' = posted
  BY <1>1 DEF DeleteSubmission
<1> HIDE DEF value
<1>6. /\ DOMAIN requests' = DOMAIN requests /\ requests'[q] = value
      /\ \A r \in DOMAIN requests : r # q => requests'[r] = requests[r]
  BY <1>2, <1>4, <1>5, ReplaceRequest
<1>7. Seen' = Seen /\ q \in Seen
  BY <1>2, <1>4, <1>6 DEF Seen
<1>8. /\ [r \in Seen |-> requests[r].answer]'
            = [[r \in Seen |-> requests[r].answer] EXCEPT ![q] = NoSubmission]
      /\ [r \in Seen |-> requests[r].mark]' = [r \in Seen |-> requests[r].mark]
  BY <1>4, <1>6, <1>7 DEF Seen
<1> QED
  BY <1>3, <1>5, <1>7, <1>8 DEF Forms!Withdraw

\* However calls overlap, fail or crash, a request that can be seen is answered once at a
\* time, in one step with its mark, and by no submission twice (FormAnswers).
THEOREM FormsImplementAnswers == FormsSpec => ImplementsFormAnswers
<1>1. FormsInit => Forms!Init
  <2> SUFFICES ASSUME FormsInit PROVE Forms!Init
    OBVIOUS
  <2>1. Seen = {} /\ posted = {}
    BY EmptySeq DEF FormsInit, Seen
  <2> QED
    BY <2>1 DEF Forms!Init
<1>2. FormsTypeOK /\ SubmitInv /\ StoredInv /\ [FormsNext]_formVars => [Forms!Next]_(Forms!vars)
  <2> SUFFICES ASSUME FormsTypeOK, SubmitInv, StoredInv, [FormsNext]_formVars
               PROVE  Forms!Next \/ UNCHANGED Forms!vars
    OBVIOUS
  <2>1. StoredKept
    BY StoredStep
  <2>2. CASE AnswersKept
    BY <2>1, <2>2, KeepingAsks DEF Forms!Next
  <2>3. ASSUME NEW t \in Submits, CommitSubmission(t) PROVE Forms!Next
    BY <2>3, CommitAnswers DEF Forms!Next
  <2>4. ASSUME NEW t \in Submits, DeleteSubmission(t) PROVE Forms!Next
    BY <2>4, DeleteWithdraws DEF Forms!Next
  <2>5. ASSUME requests' = requests, posted' = posted PROVE UNCHANGED Forms!vars
    BY <2>5 DEF Forms!vars, Seen
  <2> QED
    BY <2>2, <2>3, <2>4, <2>5, OtherSteps, SaveSteps
       DEF FindRequest, CheckAnswered, CheckTemplate, FailSubmit, InsertSubmission
<1> QED
  BY <1>1, <1>2, FormsTypeCorrect, SubmitInvInvariant, StoredInvariant, PTL
     DEF FormsSpec, ImplementsFormAnswers, Forms!Spec

==============================================================================
