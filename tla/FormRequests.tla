----------------------------- MODULE FormRequests -----------------------------
(***************************************************************************)
(* The forms of one conversation: agents (or the AI) send form requests, the *)
(* visitor answers them, agents delete answers.  A request is a message; its  *)
(* answer is an ActionSubmission that points to it, and a form_submission      *)
(* message.  Requests are numbered in the order of their created_at.          *)
(***************************************************************************)
EXTENDS Integers, Sequences

CONSTANTS
    Templates,   \* action templates of the project
    Sends,       \* calls of sendFormRequest
    Submits,     \* calls of submitFormAsVisitor, each with its submission
    NoTemplate, NoSubmission

ASSUME FormsAssumption ==
    /\ NoTemplate \notin Templates
    /\ NoSubmission \notin Submits

VARIABLES
    template,  \* state of each template
    send,      \* the calls of sendFormRequest
    requests,  \* form_request messages
    submit,    \* the calls of submitFormAsVisitor
    posted,    \* submissions with a form_submission message
    deleted    \* submissions that were deleted

formVars == <<template, send, requests, submit, posted, deleted>>

-----------------------------------------------------------------------------
(* Types *)

\* latest is the request the call found to be the latest, 0 without one; id is the
\* request it creates.
Send == [pc : {"none", "valid", "looked", "clear", "inserting", "done", "conflict", "failed"},
         template : Templates \union {NoTemplate}, expires : BOOLEAN,
         latest : Nat, id : Nat]

\* answer is the submission that points to the request, mark the submissionId in
\* the request's metadata; seen is the latest request its sender looked at.
Request == [state : {"inserting", "stored", "lost"}, template : Templates, expires : BOOLEAN,
            expired : BOOLEAN, answer : Submits \union {NoSubmission},
            mark : Submits \union {NoSubmission}, seen : Nat]

\* What a submission writes: its row, the request's metadata, the form_submission message.
Writes == {"submission", "mark", "message"}

\* saved is what its transaction has written so far, for nobody else to see.
Submit == [pc : {"none", "found", "unanswered", "valid", "inserted", "done", "failed"},
           request : Nat, saved : SUBSET Writes]

FormsTypeOK ==
    /\ template \in [Templates -> {"enabled", "disabled", "deleted"}]
    /\ send \in [Sends -> Send]
    /\ requests \in Seq(Request)
    /\ submit \in [Submits -> Submit]
    /\ posted \subseteq Submits
    /\ deleted \subseteq Submits
    /\ \A a \in Sends : /\ send[a].latest <= Len(requests)
                        /\ send[a].id <= Len(requests)
                        /\ send[a].pc \in {"inserting", "done"} => send[a].id # 0
                        /\ send[a].pc \in {"valid", "looked", "clear"}
                             => send[a].template \in Templates
    /\ \A t \in Submits : /\ submit[t].request <= Len(requests)
                          /\ submit[t].pc \in {"found", "unanswered", "valid", "inserted", "done"}
                               => submit[t].request # 0

FormsInit ==
    /\ template = [t \in Templates |-> "enabled"]
    /\ send = [a \in Sends |-> [pc |-> "none", template |-> NoTemplate, expires |-> FALSE,
                                latest |-> 0, id |-> 0]]
    /\ requests = <<>>
    /\ submit = [t \in Submits |-> [pc |-> "none", request |-> 0, saved |-> {}]]
    /\ posted = {}
    /\ deleted = {}

-----------------------------------------------------------------------------
(* Templates *)

\* toggleTemplate and updateTemplate.
ToggleTemplate(t) ==
    /\ template[t] # "deleted"
    /\ template' = [template EXCEPT ![t] = IF @ = "enabled" THEN "disabled" ELSE "enabled"]
    /\ UNCHANGED <<send, requests, submit, posted, deleted>>

DeleteTemplate(t) ==
    /\ template[t] # "deleted"
    /\ template' = [template EXCEPT ![t] = "deleted"]
    /\ UNCHANGED <<send, requests, submit, posted, deleted>>

-----------------------------------------------------------------------------
(* sendFormRequest *)

SetSend(a, value) ==
    /\ send' = [send EXCEPT ![a] = value]
    /\ UNCHANGED <<template, submit, posted, deleted>>

\* INV-1: the template must exist and be enabled.
ReadTemplate(a, t, expires) ==
    /\ send[a].pc = "none"
    /\ template[t] = "enabled"
    /\ SetSend(a, [send[a] EXCEPT !.pc = "valid", !.template = t, !.expires = expires])
    /\ UNCHANGED requests

\* r is the latest request that is committed, 0 without one.
Latest(r) ==
    /\ r # 0 => requests[r].state = "stored"
    /\ \A s \in DOMAIN requests : requests[s].state = "stored" => s <= r

FindLatest(a, r) ==
    /\ send[a].pc = "valid"
    /\ Latest(r)
    /\ SetSend(a, [send[a] EXCEPT !.pc = "looked", !.latest = r])
    /\ UNCHANGED requests

\* An expired request does not count.
PendingUnlessExpired(r) ==
    r # 0 /\ requests[r].answer = NoSubmission /\ ~requests[r].expired

\* hasPendingFormRequest.
Pending(r) == r # 0 /\ requests[r].answer = NoSubmission

\* INV-5: a pending request is a conflict.
CheckPending(a) ==
    /\ send[a].pc = "looked"
    /\ SetSend(a, [send[a] EXCEPT !.pc = IF Pending(send[a].latest) THEN "conflict"
                                                                    ELSE "clear"])
    /\ UNCHANGED requests

NewRequest(a) ==
    [state |-> "inserting", template |-> send[a].template, expires |-> send[a].expires,
     expired |-> FALSE, answer |-> NoSubmission, mark |-> NoSubmission,
     seen |-> send[a].latest]

\* The number of the last request.
LastId == Len(requests)

NextId == Len(requests) + 1

\* The transaction of the INSERT starts, which is its created_at.
InsertRequest(a) ==
    /\ send[a].pc = "clear"
    /\ requests' = Append(requests, NewRequest(a))
    /\ SetSend(a, [send[a] EXCEPT !.pc = "inserting", !.id = NextId])

CommitRequest(a) ==
    /\ send[a].pc = "inserting"
    /\ requests' = [requests EXCEPT ![send[a].id] = [@ EXCEPT !.state = "stored"]]
    /\ SetSend(a, [send[a] EXCEPT !.pc = "done"])

\* The call fails, or its process goes down.
FailSend(a) ==
    /\ send[a].pc \in {"valid", "looked", "clear", "inserting"}
    /\ requests' = IF send[a].pc = "inserting"
                   THEN [requests EXCEPT ![send[a].id] = [@ EXCEPT !.state = "lost"]]
                   ELSE requests
    /\ SetSend(a, [send[a] EXCEPT !.pc = "failed"])

-----------------------------------------------------------------------------
(* submitFormAsVisitor *)

SetSubmit(t, value) ==
    /\ submit' = [submit EXCEPT ![t] = value]
    /\ UNCHANGED <<template, send, deleted>>

\* INV-2: the request must exist.
FindRequest(t, r) ==
    /\ submit[t].pc = "none"
    /\ requests[r].state = "stored"
    /\ SetSubmit(t, [submit[t] EXCEPT !.pc = "found", !.request = r])
    /\ UNCHANGED <<requests, posted>>

CheckAnswered(t) ==
    /\ submit[t].pc = "found"
    /\ requests[submit[t].request].answer = NoSubmission
    /\ ~requests[submit[t].request].expired
    /\ SetSubmit(t, [submit[t] EXCEPT !.pc = "unanswered"])
    /\ UNCHANGED <<requests, posted>>

\* A template that is disabled meanwhile will do, one that is deleted will not.
CheckTemplate(t) ==
    /\ submit[t].pc = "unanswered"
    /\ template[requests[submit[t].request].template] # "deleted"
    /\ SetSubmit(t, [submit[t] EXCEPT !.pc = "valid"])
    /\ UNCHANGED <<requests, posted>>

\* Without the unique index on form_request_message_id.
NotIndexed(t) == TRUE

\* The unique index: no other submission for the request, and none on its way.
Unique(t) ==
    /\ requests[submit[t].request].answer = NoSubmission
    /\ \A u \in Submits : submit[u].pc = "inserted" => submit[u].request # submit[t].request

InsertSubmission(t) ==
    /\ submit[t].pc = "valid"
    /\ Unique(t)
    /\ SetSubmit(t, [submit[t] EXCEPT !.pc = "inserted", !.saved = {"submission"}])
    /\ UNCHANGED <<requests, posted>>

\* The mark, saved by messageRepository instead of the transaction's manager.
SaveMarkAtOnce(t) ==
    /\ submit[t].pc = "inserted" /\ submit[t].saved = {"submission"}
    /\ requests' = [requests EXCEPT ![submit[t].request] = [@ EXCEPT !.mark = t]]
    /\ SetSubmit(t, [submit[t] EXCEPT !.saved = {"submission", "mark"}])
    /\ UNCHANGED posted

\* The id that the first save returned goes into the request's metadata.
SaveMark(t) ==
    /\ submit[t].pc = "inserted" /\ submit[t].saved = {"submission"}
    /\ SetSubmit(t, [submit[t] EXCEPT !.saved = {"submission", "mark"}])
    /\ UNCHANGED <<requests, posted>>

SaveMessage(t) ==
    /\ submit[t].pc = "inserted" /\ submit[t].saved = {"submission", "mark"}
    /\ SetSubmit(t, [submit[t] EXCEPT !.saved = Writes])
    /\ UNCHANGED <<requests, posted>>

CommitSubmission(t) ==
    /\ submit[t].pc = "inserted" /\ submit[t].saved = Writes
    /\ requests' = [requests EXCEPT ![submit[t].request] =
                        [@ EXCEPT !.answer = t, !.mark = t]]
    /\ posted' = posted \union {t}
    /\ SetSubmit(t, [submit[t] EXCEPT !.pc = "done"])

\* A check fails, the submission is not unique, one of the three saves or the COMMIT fails,
\* or the process goes down: the transaction is rolled back.
FailSubmit(t) ==
    /\ submit[t].pc \in {"found", "unanswered", "valid", "inserted"}
    /\ SetSubmit(t, [submit[t] EXCEPT !.pc = "failed", !.saved = {}])
    /\ UNCHANGED <<requests, posted>>

-----------------------------------------------------------------------------

\* deleteSubmission: the request's metadata and the messages stay.
DeleteSubmission(t) ==
    /\ submit[t].pc = "done" /\ t \notin deleted
    /\ requests' = [requests EXCEPT ![submit[t].request] = [@ EXCEPT !.answer = NoSubmission]]
    /\ deleted' = deleted \union {t}
    /\ UNCHANGED <<template, send, submit, posted>>

\* expiresAt passes.
Expire(r) ==
    /\ requests[r].expires /\ ~requests[r].expired
    /\ requests' = [requests EXCEPT ![r] = [@ EXCEPT !.expired = TRUE]]
    /\ UNCHANGED <<template, send, submit, posted, deleted>>

-----------------------------------------------------------------------------

SendStep(a) ==
    \/ \E t \in Templates, expires \in BOOLEAN : ReadTemplate(a, t, expires)
    \/ \E r \in 0..Len(requests) : FindLatest(a, r)
    \/ CheckPending(a) \/ InsertRequest(a) \/ CommitRequest(a) \/ FailSend(a)

SubmitStep(t) ==
    \/ \E r \in DOMAIN requests : FindRequest(t, r)
    \/ CheckAnswered(t) \/ CheckTemplate(t)
    \/ InsertSubmission(t) \/ SaveMark(t) \/ SaveMessage(t) \/ CommitSubmission(t)
    \/ FailSubmit(t) \/ DeleteSubmission(t)

FormsNext ==
    \/ \E t \in Templates : ToggleTemplate(t) \/ DeleteTemplate(t)
    \/ \E a \in Sends : SendStep(a)
    \/ \E t \in Submits : SubmitStep(t)
    \/ \E r \in DOMAIN requests : Expire(r)

FormsSpec == FormsInit /\ [][FormsNext]_formVars

-----------------------------------------------------------------------------
(* Properties *)

\* The visitor's answer to a request is posted again only after the first one was
\* deleted: the checks race, the unique index decides.
SubmittedOnce ==
    \A s, t \in posted :
        s # t /\ submit[s].request = submit[t].request => s \in deleted \/ t \in deleted

Reopened(r) == \E t \in deleted : submit[t].request = r

\* Sent by a call that had looked for requests before r was there.
RacedWith(r, last) == \E s \in (r + 1)..last : requests[s].seen < r

\* What hasPendingFormRequest achieves of INV-5: an unanswered request is followed
\* by another only if their calls raced, or its answer was deleted.
OneActiveUnlessRaced ==
    \A r, s \in DOMAIN requests :
        r < s /\ requests[r].answer = NoSubmission => Reopened(r) \/ RacedWith(r, s)

Seen == {r \in DOMAIN requests : requests[r].state = "stored"}

\* The calls, their checks, the three saves of a submission and the unique index are details
\* of one promise: an answer, its mark and its message are given together, whichever save
\* fails and whoever looks in between, to a request without an answer, and once.
Forms == INSTANCE FormAnswers
    WITH Submissions <- Submits, Unanswered <- NoSubmission, asked <- Seen,
         answer <- [r \in Seen |-> requests[r].answer],
         shown <- [r \in Seen |-> requests[r].mark],
         used <- posted

ImplementsFormAnswers == Forms!Spec

\* send_form_to_chat.md: when a request expired, the "Agent must resend form", so an
\* expired request is no conflict.
ResendAfterExpiry ==
    [][ \A a \in Sends : send[a].pc = "looked" /\ send'[a].pc = "conflict"
                         => ~requests[send[a].latest].expired ]_formVars

=============================================================================
