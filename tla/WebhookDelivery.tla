--------------------------- MODULE WebhookDelivery ---------------------------
(***************************************************************************)
(* One webhook subscription.  Every API process hears each published message *)
(* and enqueues a delivery job for the subscription; BullMQ runs the job     *)
(* until an attempt succeeds or the attempts are used up.  A run leaves a row *)
(* in webhook_deliveries before it posts anything.                            *)
(***************************************************************************)
EXTENDS Naturals

CONSTANTS
    Dispatchers,   \* API processes, each with a Redis subscriber
    Publications,  \* publications of message.created by the outbox relay
    Attempts       \* attempts of a job

ASSUME WebhookAssumption == Attempts \in Nat \ {0}

VARIABLES
    subscription,  \* the row: not made yet, active, inactive or deleted
    online,        \* dispatchers whose Redis connection is up
    published,     \* publications the relay has made
    heard,         \* <<dispatcher, publication>> handlers that have not enqueued yet
    delivery,      \* their jobs
    received       \* how often the receiver got a job's request

webhookVars == <<subscription, online, published, heard, delivery, received>>

-----------------------------------------------------------------------------
(* Types *)

Jobs == Dispatchers \X Publications

Subscriptions == {"none", "active", "inactive", "deleted"}

Running == {"started", "inactive", "recorded", "answered", "refused"}

\* subscribed is what the run read of the subscription; failures counts the runs
\* that threw, crashes the runs whose process died; rows counts the delivery rows
\* of the job.
Job == [pc : Running \union {"none", "waiting", "completed", "failed"},
        subscribed : Subscriptions, failures : 0 .. Attempts, crashes : 0 .. 2, rows : Nat]

WebhookTypeOK ==
    /\ subscription \in Subscriptions
    /\ online \subseteq Dispatchers
    /\ published \subseteq Publications
    /\ heard \subseteq Jobs
    /\ delivery \in [Jobs -> Job]
    /\ received \in [Jobs -> Nat]

NoJob == [pc |-> "none", subscribed |-> "none", failures |-> 0, crashes |-> 0, rows |-> 0]

WebhookInit ==
    /\ subscription = "none"
    /\ online = Dispatchers
    /\ published = {}
    /\ heard = {}
    /\ delivery = [j \in Jobs |-> NoJob]
    /\ received = [j \in Jobs |-> 0]

-----------------------------------------------------------------------------
(* Subscriptions and dispatch *)

Exists == subscription \in {"active", "inactive"}

Subscribe(kind) ==
    /\ subscription = "none"
    /\ subscription' = kind
    /\ UNCHANGED <<online, published, heard, delivery, received>>

\* isActive has no endpoint: an operator switches it in the database.
Switch ==
    /\ Exists
    /\ subscription' = IF subscription = "active" THEN "inactive" ELSE "active"
    /\ UNCHANGED <<online, published, heard, delivery, received>>

\* The delivery rows of the subscription go with it.
Unsubscribe ==
    /\ Exists
    /\ subscription' = "deleted"
    /\ delivery' = [j \in Jobs |-> [delivery[j] EXCEPT !.rows = 0]]
    /\ UNCHANGED <<online, published, heard, received>>

Disconnect(d) ==
    /\ d \in online
    /\ online' = online \ {d}
    /\ UNCHANGED <<subscription, published, heard, delivery, received>>

Connect(d) ==
    /\ d \notin online
    /\ online' = online \union {d}
    /\ UNCHANGED <<subscription, published, heard, delivery, received>>

\* Redis keeps nothing for a subscriber that is away.
Publish(n) ==
    /\ n \notin published
    /\ published' = published \union {n}
    /\ heard' = heard \union (online \X {n})
    /\ UNCHANGED <<subscription, online, delivery, received>>

\* handleNewMessage: a job for the subscription when it is active.
Dispatch(j) ==
    /\ j \in heard
    /\ heard' = heard \ {j}
    /\ delivery' = [delivery EXCEPT ![j].pc = IF subscription = "active" THEN "waiting" ELSE @]
    /\ UNCHANGED <<subscription, online, published, received>>

\* The query or addBulk fails, or the process dies: the error is logged.
LoseDispatch(j) ==
    /\ j \in heard
    /\ heard' = heard \ {j}
    /\ UNCHANGED <<subscription, online, published, delivery, received>>

-----------------------------------------------------------------------------
(* process: one run of a job *)

Becomes(j, value) == delivery' = [delivery EXCEPT ![j] = value]

\* A job without its subscription is not worth a run.
RunForSubscription(j) ==
    /\ delivery[j].pc = "waiting"
    /\ Exists
    /\ Becomes(j, [delivery[j] EXCEPT !.pc = "started", !.subscribed = subscription])
    /\ UNCHANGED <<subscription, online, published, heard, received>>

Run(j) ==
    /\ delivery[j].pc = "waiting"
    /\ Becomes(j, [delivery[j] EXCEPT !.pc = "started", !.subscribed = subscription])
    /\ UNCHANGED <<subscription, online, published, heard, received>>

\* One attempt more than there are.
ThrownOnceMore(x) ==
    [x EXCEPT !.failures = @ + 1,
              !.pc = IF x.failures + 1 <= Attempts THEN "waiting" ELSE "failed"]

\* The run throws: BullMQ runs the job again until its attempts are used up.
Thrown(x) ==
    [x EXCEPT !.failures = @ + 1,
              !.pc = IF x.failures + 1 < Attempts THEN "waiting" ELSE "failed"]

\* A retry writes over the row of the job.
RecordAgain(j) ==
    /\ delivery[j].pc = "started"
    /\ Exists
    /\ Becomes(j, [delivery[j] EXCEPT !.rows = 1,
                                      !.pc = IF delivery[j].subscribed = "active"
                                             THEN "recorded" ELSE "inactive"])
    /\ UNCHANGED <<subscription, online, published, heard, received>>

\* The PENDING row, which the foreign key refuses without the subscription.
Record(j) ==
    /\ delivery[j].pc = "started"
    /\ \/ /\ Exists
          /\ Becomes(j, [delivery[j] EXCEPT !.rows = @ + 1,
                                            !.pc = IF delivery[j].subscribed = "active"
                                                   THEN "recorded" ELSE "inactive"])
       \/ Becomes(j, Thrown(delivery[j]))
    /\ UNCHANGED <<subscription, online, published, heard, received>>

\* The row becomes FAILURE without a request; nothing is thrown unless the save fails.
Decline(j) ==
    /\ delivery[j].pc = "inactive"
    /\ \/ Exists /\ Becomes(j, [delivery[j] EXCEPT !.pc = "completed"])
       \/ Becomes(j, Thrown(delivery[j]))
    /\ UNCHANGED <<subscription, online, published, heard, received>>

\* The signed request: it may get lost, and an answer may come after the timeout.
Post(j) ==
    /\ delivery[j].pc = "recorded"
    /\ \/ /\ received' = [received EXCEPT ![j] = @ + 1]
          /\ \E pc \in {"answered", "refused"} : Becomes(j, [delivery[j] EXCEPT !.pc = pc])
       \/ /\ Becomes(j, [delivery[j] EXCEPT !.pc = "refused"])
          /\ UNCHANGED received
    /\ UNCHANGED <<subscription, online, published, heard>>

\* The row becomes SUCCESS; a save that fails is caught like a failed request.
Succeeded(j) ==
    /\ delivery[j].pc = "answered"
    /\ \/ Exists /\ Becomes(j, [delivery[j] EXCEPT !.pc = "completed"])
       \/ Becomes(j, [delivery[j] EXCEPT !.pc = "refused"])
    /\ UNCHANGED <<subscription, online, published, heard, received>>

\* The error is swallowed.
RefusedInSilence(j) ==
    /\ delivery[j].pc = "refused"
    /\ Becomes(j, [delivery[j] EXCEPT !.pc = "completed"])
    /\ UNCHANGED <<subscription, online, published, heard, received>>

\* The row becomes FAILURE, and the error, or that of the save, is thrown.
Refused(j) ==
    /\ delivery[j].pc = "refused"
    /\ Becomes(j, Thrown(delivery[j]))
    /\ UNCHANGED <<subscription, online, published, heard, received>>

\* The process dies; the stalled job is run again, once.
Die(j) ==
    /\ delivery[j].pc \in Running
    /\ Becomes(j, [delivery[j] EXCEPT !.crashes = @ + 1,
                                      !.pc = IF delivery[j].crashes = 0
                                             THEN "waiting" ELSE "failed"])
    /\ UNCHANGED <<subscription, online, published, heard, received>>

WorkOn(j) == Run(j) \/ Record(j) \/ Decline(j) \/ Post(j) \/ Succeeded(j) \/ Refused(j)

WebhookNext ==
    \/ \E kind \in {"active", "inactive"} : Subscribe(kind)
    \/ Switch \/ Unsubscribe
    \/ \E d \in Dispatchers : Disconnect(d) \/ Connect(d)
    \/ \E n \in Publications : Publish(n)
    \/ \E j \in Jobs : Dispatch(j) \/ LoseDispatch(j) \/ WorkOn(j) \/ Die(j)

WebhookSpec == WebhookInit /\ [][WebhookNext]_webhookVars

-----------------------------------------------------------------------------
(* Properties *)

\* The delivery rows are an audit log: every request the receiver got has a row of its
\* own, whatever was retried, timed out or died, until the subscription is deleted.  Their
\* status is the sender's view: one that timed out is a failure, received or not.
AuditTrail == Exists => \A j \in Jobs : received[j] <= delivery[j].rows

\* A job that completed reached its receiver, or its subscription was inactive.
CompletedWasReceived ==
    \A j \in Jobs : delivery[j].pc = "completed" => \/ received[j] > 0
                                                    \/ delivery[j].subscribed = "inactive"

\* The jobs come to an end, all of them, whatever the receiver does.
JobsEnd ==
    (\E j \in Jobs : delivery[j].pc \in Running \union {"waiting"})
        ~> \A j \in Jobs : delivery[j].pc \notin Running \union {"waiting"}
=============================================================================
