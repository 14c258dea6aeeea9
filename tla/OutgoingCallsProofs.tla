------------------------- MODULE OutgoingCallsProofs -------------------------
(***************************************************************************)
(* Theorems about the two services that call others and count their          *)
(* failures: the circuit breakers of the LLM providers and the webhook's jobs. *)
(***************************************************************************)
EXTENDS LlmProviders, WebhookDelivery, TLAPS

-----------------------------------------------------------------------------
(* LlmProviders: types *)

\* The provider a call is at is one of the preferred ones.
LEMMA ProviderIsPreferred ==
    ASSUME ProvidersTypeOK, NEW g \in Generations
    PROVE  /\ ProviderOf(g) \in Providers
           /\ generation[g].at \in 1 .. Len(Preference)
           /\ Len(Preference) \in Nat \ {0}
  <1>1. /\ DOMAIN Preference = 1 .. Len(Preference)
        /\ Len(Preference) \in Nat \ {0}
    BY ProvidersAssumption DEF ProvidersAssumption
  <1>2. generation[g].at \in 1 .. Len(Preference)
    BY DEF ProvidersTypeOK, Generation
  <1> QED  BY <1>1, <1>2 DEF ProviderOf, Providers

\* A call that moves stays a call, at a provider it has.
LEMMA MovesType ==
    ASSUME ProvidersTypeOK, NEW g \in Generations,
           NEW pc \in {"idle", "choosing", "waiting", "answered", "failed"},
           NEW at \in 1 .. Len(Preference), Moves(g, pc, at)
    PROVE  generation' \in [Generations -> Generation]
  BY DEF ProvidersTypeOK, Moves, Generation

LEMMA FailsOverType ==
    ASSUME ProvidersTypeOK, NEW g \in Generations, FailsOver(g)
    PROVE  generation' \in [Generations -> Generation]
  <1> DEFINE at == generation[g].at
  <1>1. /\ at \in 1 .. Len(Preference)
        /\ Len(Preference) \in Nat
    BY ProviderIsPreferred
  <1>2. CASE at < Len(Preference)
    <2>1. at + 1 \in 1 .. Len(Preference)
      BY <1>1, <1>2
    <2>2. Moves(g, "choosing", at + 1)
      BY <1>2 DEF FailsOver
    <2> QED  BY <2>1, <2>2, MovesType
  <1>3. CASE ~(at < Len(Preference))
    <2>1. Moves(g, "failed", at)
      BY <1>3 DEF FailsOver
    <2> QED  BY <1>1, <2>1, MovesType
  <1> QED  BY <1>2, <1>3

LEMMA OnFailureType ==
    ASSUME ProvidersTypeOK, NEW b \in Breaker
    PROVE  OnFailure(b) \in Breaker
  <1>1. clock + Recovery \in Nat /\ b.failures + 1 \in Nat /\ b.nextAttempt \in Nat
    BY ProvidersAssumption DEF ProvidersAssumption, ProvidersTypeOK, Breaker
  <1>2. b.state \in {"closed", "open", "half_open"}
    BY DEF Breaker
  <1> QED  BY <1>1, <1>2 DEF OnFailure, Breaker

LEMMA ProvidersTypeInit ==
    ProvidersInit => ProvidersTypeOK
  <1> SUFFICES ASSUME ProvidersInit PROVE ProvidersTypeOK
    OBVIOUS
  <1>1. 1 \in 1 .. Len(Preference)
    BY ProvidersAssumption DEF ProvidersAssumption
  <1>2. generation \in [Generations -> Generation]
    BY <1>1 DEF ProvidersInit, Generation
  <1>3. breaker \in [Providers -> Breaker]
    BY DEF ProvidersInit, Breaker, Closed
  <1>4. 0 \in 0 .. LastTick
    BY ProvidersAssumption DEF ProvidersAssumption
  <1> QED  BY <1>2, <1>3, <1>4 DEF ProvidersInit, ProvidersTypeOK

LEMMA ProvidersTypeStep ==
    ProvidersTypeOK /\ [ProvidersNext]_providerVars => ProvidersTypeOK'
  <1> SUFFICES ASSUME ProvidersTypeOK, [ProvidersNext]_providerVars PROVE ProvidersTypeOK'
    OBVIOUS
  <1>1. CASE UNCHANGED providerVars
    BY <1>1 DEF providerVars, ProvidersTypeOK
  <1>2. ASSUME NEW g \in Generations, Generate(g) PROVE ProvidersTypeOK'
    <2>1. 1 \in 1 .. Len(Preference)
      BY ProviderIsPreferred
    <2>2. generation' \in [Generations -> Generation]
      BY <1>2, <2>1, MovesType DEF Generate
    <2> QED  BY <1>2, <2>2 DEF Generate, ProvidersTypeOK
  <1>3. ASSUME NEW g \in Generations, Skip(g) PROVE ProvidersTypeOK'
    <2>1. generation' \in [Generations -> Generation]
      BY <1>3, FailsOverType DEF Skip
    <2> QED  BY <1>3, <2>1 DEF Skip, ProvidersTypeOK
  <1>4. ASSUME NEW g \in Generations, Send(g) PROVE ProvidersTypeOK'
    <2>1. generation' \in [Generations -> Generation]
      BY <1>4, ProviderIsPreferred, MovesType DEF Send
    <2>2. breaker' \in [Providers -> Breaker]
      BY <1>4, ProviderIsPreferred DEF Send, ProvidersTypeOK, Breaker
    <2> QED  BY <1>4, <2>1, <2>2 DEF Send, ProvidersTypeOK
  <1>5. ASSUME NEW g \in Generations, Succeed(g) PROVE ProvidersTypeOK'
    <2>1. generation' \in [Generations -> Generation]
      BY <1>5, ProviderIsPreferred, MovesType DEF Succeed
    <2>2. breaker' \in [Providers -> Breaker]
      BY <1>5, ProviderIsPreferred DEF Succeed, ProvidersTypeOK, Breaker, Closed
    <2>3. streak' \in [Providers -> Nat]
      BY <1>5, ProviderIsPreferred DEF Succeed, ProvidersTypeOK
    <2> QED  BY <1>5, <2>1, <2>2, <2>3 DEF Succeed, ProvidersTypeOK
  <1>6. ASSUME NEW g \in Generations, Fail(g) PROVE ProvidersTypeOK'
    <2> DEFINE p == ProviderOf(g)
    <2>1. generation' \in [Generations -> Generation]
      BY <1>6, FailsOverType DEF Fail
    <2>2. p \in Providers
      BY ProviderIsPreferred
    <2>3. OnFailure(breaker[p]) \in Breaker
      BY <2>2, OnFailureType DEF ProvidersTypeOK
    <2>4. breaker' \in [Providers -> Breaker]
      BY <1>6, <2>2, <2>3 DEF Fail, ProvidersTypeOK
    <2>5. lastFailed' \in [Providers -> 0 .. LastTick]
      BY <1>6, <2>2 DEF Fail, ProvidersTypeOK
    <2>6. streak[p] + 1 \in Nat
      BY <2>2 DEF ProvidersTypeOK
    <2>7. streak' \in [Providers -> Nat]
      BY <1>6, <2>2, <2>6 DEF Fail, ProvidersTypeOK
    <2> QED  BY <1>6, <2>1, <2>4, <2>5, <2>7 DEF Fail, ProvidersTypeOK
  <1>7. CASE ProvidersTick
    <2>1. clock' \in 0 .. LastTick
      BY <1>7, ProvidersAssumption DEF ProvidersAssumption, ProvidersTick, ProvidersTypeOK
    <2> QED  BY <1>7, <2>1 DEF ProvidersTick, ProvidersTypeOK
  <1> QED  BY <1>1, <1>2, <1>3, <1>4, <1>5, <1>6, <1>7 DEF ProvidersNext

\* The providers, their breakers and the calls keep their types, for any preference,
\* threshold and number of calls.
THEOREM ProvidersTypeCorrect == ProvidersSpec => []ProvidersTypeOK
  BY ProvidersTypeInit, ProvidersTypeStep, PTL DEF ProvidersSpec

-----------------------------------------------------------------------------
(* LlmProviders: what the breakers count *)

\* A breaker counts the failures since the last answer, is closed below the threshold,
\* and open until Recovery after the last failure.
BreakerInv(p) ==
    /\ breaker[p].failures = streak[p]
    /\ breaker[p].state # "closed" <=> streak[p] >= Threshold
    /\ breaker[p].state = "open" => breaker[p].nextAttempt = lastFailed[p] + Recovery

BreakersInv == \A p \in Providers : BreakerInv(p)

LEMMA BreakersInit ==
    ProvidersInit => BreakersInv
  BY ProvidersAssumption
  DEF ProvidersAssumption, ProvidersInit, BreakersInv, BreakerInv, Closed

\* What a step does to one breaker.
LEMMA BreakersStep ==
    ProvidersTypeOK /\ BreakersInv /\ [ProvidersNext]_providerVars => BreakersInv'
  <1> SUFFICES ASSUME ProvidersTypeOK, BreakersInv, [ProvidersNext]_providerVars,
                      NEW q \in Providers
               PROVE  BreakerInv(q)'
    BY DEF BreakersInv, Providers
  <1>0. BreakerInv(q)
    BY DEF BreakersInv
  <1>1. /\ breaker[q] \in Breaker /\ streak[q] \in Nat /\ lastFailed[q] \in Nat /\ clock \in Nat
        /\ Threshold \in Nat \ {0} /\ Recovery \in Nat
    BY ProvidersAssumption DEF ProvidersAssumption, ProvidersTypeOK
  <1>2. ASSUME breaker'[q] = breaker[q], streak'[q] = streak[q],
               lastFailed'[q] = lastFailed[q]
        PROVE  BreakerInv(q)'
    BY <1>0, <1>2 DEF BreakerInv
  <1>3. CASE UNCHANGED providerVars
    BY <1>2, <1>3 DEF providerVars
  <1>4. ASSUME NEW g \in Generations, Generate(g) PROVE BreakerInv(q)'
    BY <1>2, <1>4 DEF Generate
  <1>5. ASSUME NEW g \in Generations, Skip(g) PROVE BreakerInv(q)'
    BY <1>2, <1>5 DEF Skip
  <1>6. ASSUME NEW g \in Generations, Send(g) PROVE BreakerInv(q)'
    <2>1. CASE ProviderOf(g) # q
      BY <1>2, <1>6, <2>1 DEF Send, ProvidersTypeOK
    <2>2. CASE ProviderOf(g) = q
      <3>1. breaker'[q] = [breaker[q] EXCEPT !.state =
                              IF breaker[q].state = "open" THEN "half_open" ELSE breaker[q].state]
        BY <1>6, <2>2 DEF Send, ProvidersTypeOK
      <3>2. streak'[q] = streak[q] /\ lastFailed'[q] = lastFailed[q]
        BY <1>6 DEF Send
      <3> QED  BY <1>0, <1>1, <3>1, <3>2 DEF BreakerInv, Breaker
    <2> QED  BY <2>1, <2>2
  <1>7. ASSUME NEW g \in Generations, Succeed(g) PROVE BreakerInv(q)'
    <2>1. CASE ProviderOf(g) # q
      BY <1>2, <1>7, <2>1 DEF Succeed, ProvidersTypeOK
    <2>2. CASE ProviderOf(g) = q
      <3>1. breaker'[q] = Closed /\ streak'[q] = 0
        BY <1>7, <2>2 DEF Succeed, ProvidersTypeOK
      <3> QED  BY <1>1, <3>1 DEF BreakerInv, Closed
    <2> QED  BY <2>1, <2>2
  <1>8. ASSUME NEW g \in Generations, Fail(g) PROVE BreakerInv(q)'
    <2>1. CASE ProviderOf(g) # q
      BY <1>2, <1>8, <2>1 DEF Fail, ProvidersTypeOK
    <2>2. CASE ProviderOf(g) = q
      <3>1. /\ breaker'[q] = OnFailure(breaker[q])
            /\ streak'[q] = streak[q] + 1
            /\ lastFailed'[q] = clock
        BY <1>8, <2>2 DEF Fail, ProvidersTypeOK
      <3>2. CASE Trips(breaker[q])
        <4>1. breaker'[q] = [state |-> "open", failures |-> breaker[q].failures + 1,
                             nextAttempt |-> clock + Recovery]
          BY <3>1, <3>2 DEF OnFailure
        <4>2. streak[q] + 1 >= Threshold
          BY <1>0, <1>1, <3>2 DEF BreakerInv, Trips
        <4> QED  BY <1>0, <3>1, <4>1, <4>2 DEF BreakerInv
      <3>3. CASE ~Trips(breaker[q])
        <4>1. breaker'[q] = [state |-> breaker[q].state, failures |-> breaker[q].failures + 1,
                             nextAttempt |-> breaker[q].nextAttempt]
          BY <3>1, <3>3 DEF OnFailure
        <4>2. ~(streak[q] + 1 >= Threshold)
          BY <1>0, <3>3 DEF BreakerInv, Trips
        <4>3. breaker[q].state = "closed"
          BY <1>0, <1>1, <4>2 DEF BreakerInv
        <4> QED  BY <1>0, <3>1, <4>1, <4>2, <4>3 DEF BreakerInv
      <3> QED  BY <3>2, <3>3
    <2> QED  BY <2>1, <2>2
  <1>9. CASE ProvidersTick
    BY <1>2, <1>9 DEF ProvidersTick
  <1> QED  BY <1>3, <1>4, <1>5, <1>6, <1>7, <1>8, <1>9 DEF ProvidersNext

\* However many calls share a breaker and in whatever order their answers come, it is
\* out of the closed state exactly when the last Threshold answers were failures.
THEOREM BreakersCountFailures == ProvidersSpec => []OpenCountsFailures
  <1>1. BreakersInv => OpenCountsFailures
    BY DEF BreakersInv, BreakerInv, OpenCountsFailures
  <1> QED
    BY <1>1, ProvidersTypeInit, ProvidersTypeStep, BreakersInit, BreakersStep, PTL
    DEF ProvidersSpec

\* A late failure of an open breaker moves its next attempt too.
THEOREM BreakersRecover == ProvidersSpec => []RecoveryFollowsFailure
  <1>1. BreakersInv => RecoveryFollowsFailure
    BY DEF BreakersInv, BreakerInv, RecoveryFollowsFailure
  <1> QED
    BY <1>1, ProvidersTypeInit, ProvidersTypeStep, BreakersInit, BreakersStep, PTL
    DEF ProvidersSpec

-----------------------------------------------------------------------------
(* WebhookDelivery *)

AtWork == Running \union {"waiting"}

\* A job at work has attempts and a crash left, and its subscription was made.
AttemptsLeft(j) ==
    delivery[j].pc \in AtWork => /\ delivery[j].failures < Attempts
                                 /\ delivery[j].crashes < 2
                                 /\ subscription # "none"

\* A job is made once, by the handler of its publication.
MadeOnce(j) ==
    /\ delivery[j].pc = "none" => /\ delivery[j].failures = 0
                                  /\ delivery[j].crashes = 0
                                  /\ received[j] = 0
    /\ j \in heard => j[2] \in published
    /\ (j \in heard \/ j[2] \notin published) => delivery[j].pc = "none"

\* What a run read of the subscription, and what it got out of its request.
RunInv(j) ==
    /\ delivery[j].pc \in Running => delivery[j].subscribed # "none"
    /\ delivery[j].pc \in Running /\ delivery[j].subscribed = "deleted"
          => subscription = "deleted"
    /\ delivery[j].pc = "inactive" => delivery[j].subscribed = "inactive"
    /\ delivery[j].pc = "answered" => received[j] > 0
    /\ delivery[j].pc = "completed" => received[j] > 0 \/ delivery[j].subscribed = "inactive"

\* A run that is about to post has a row for the request.
RowsInv(j) ==
    subscription # "deleted" => /\ received[j] <= delivery[j].rows
                                /\ delivery[j].pc = "recorded" => received[j] < delivery[j].rows

JobInv(j) == AttemptsLeft(j) /\ MadeOnce(j) /\ RunInv(j) /\ RowsInv(j)

WebhookInv == WebhookTypeOK /\ \A j \in Jobs : JobInv(j)

LEMMA WebhookInvInit ==
    WebhookInit => WebhookInv
  <1> SUFFICES ASSUME WebhookInit PROVE WebhookInv
    OBVIOUS
  <1>1. NoJob \in Job
    BY WebhookAssumption DEF WebhookAssumption, NoJob, Job, Running, Subscriptions
  <1>2. WebhookTypeOK
    BY <1>1 DEF WebhookInit, WebhookTypeOK, Subscriptions
  <1>3. ASSUME NEW j \in Jobs PROVE JobInv(j)
    BY DEF WebhookInit, JobInv, AttemptsLeft, MadeOnce, RunInv, RowsInv, NoJob, AtWork, Running
  <1> QED  BY <1>2, <1>3 DEF WebhookInv

\* The job a step replaces decides; nothing of the others changes.
LEMMA OneJobChanges ==
    ASSUME WebhookInv, NEW j \in Jobs, NEW v, Becomes(j, v),
           UNCHANGED <<subscription, online, published, heard>>,
           received' \in [Jobs -> Nat],
           \A k \in Jobs \ {j} : received'[k] = received[k],
           v \in Job, JobInv(j)'
    PROVE  WebhookInv'
  <1>1. WebhookTypeOK'
    BY DEF WebhookInv, WebhookTypeOK, Becomes
  <1>2. ASSUME NEW k \in Jobs PROVE JobInv(k)'
    <2>1. CASE k = j
      BY <2>1
    <2>2. CASE k # j
      <3>1. delivery'[k] = delivery[k] /\ received'[k] = received[k]
        BY <2>2 DEF Becomes, WebhookInv, WebhookTypeOK
      <3>2. JobInv(k)
        BY DEF WebhookInv
      <3> QED  BY <3>1, <3>2 DEF JobInv, AttemptsLeft, MadeOnce, RunInv, RowsInv
    <2> QED  BY <2>1, <2>2
  <1> QED  BY <1>1, <1>2 DEF WebhookInv

\* What is known of a job.
LEMMA JobFacts ==
    ASSUME WebhookInv, NEW j \in Jobs
    PROVE  /\ delivery[j] \in Job
           /\ delivery[j].failures \in Nat /\ delivery[j].failures <= Attempts
           /\ delivery[j].crashes \in 0 .. 2
           /\ delivery[j].rows \in Nat
           /\ delivery[j].subscribed \in Subscriptions
           /\ received[j] \in Nat
           /\ Attempts \in Nat \ {0}
           /\ JobInv(j)
  BY WebhookAssumption DEF WebhookAssumption, WebhookInv, WebhookTypeOK, Job

\* A job at work that ends a run by an error.
LEMMA ThrownKeepsInv ==
    ASSUME WebhookInv, NEW j \in Jobs, delivery[j].pc \in Running,
           Becomes(j, Thrown(delivery[j])),
           UNCHANGED <<subscription, online, published, heard, received>>
    PROVE  WebhookInv'
  <1> DEFINE x == delivery[j]
  <1>1. /\ x \in Job /\ x.failures \in Nat /\ x.failures < Attempts /\ x.rows \in Nat
        /\ received[j] \in Nat /\ Attempts \in Nat
        /\ JobInv(j)
    BY JobFacts DEF JobInv, AttemptsLeft, AtWork
  <1>2. x.failures + 1 \in 0 .. Attempts
    BY <1>1
  <1>3. Thrown(x) \in Job
    BY <1>1, <1>2 DEF Thrown, Job
  <1>4. /\ delivery'[j].failures = x.failures + 1
        /\ delivery'[j].crashes = x.crashes
        /\ delivery'[j].rows = x.rows
        /\ delivery'[j].pc = IF x.failures + 1 < Attempts THEN "waiting" ELSE "failed"
    BY <1>1 DEF Becomes, Thrown, Job, WebhookInv, WebhookTypeOK
  <1>5. AttemptsLeft(j)'
    BY <1>1, <1>4 DEF JobInv, AttemptsLeft, AtWork, Running
  <1>6. MadeOnce(j)' /\ RunInv(j)'
    BY <1>1, <1>4 DEF JobInv, MadeOnce, RunInv, Running
  <1>7. RowsInv(j)'
    BY <1>1, <1>4 DEF JobInv, RowsInv
  <1>8. received' \in [Jobs -> Nat]
    BY DEF WebhookInv, WebhookTypeOK
  <1> QED  BY <1>3, <1>5, <1>6, <1>7, <1>8, OneJobChanges DEF JobInv

-----------------------------------------------------------------------------
(* WebhookDelivery: the steps *)

LEMMA SubscriptionSteps ==
    ASSUME WebhookInv,
           \/ \E kind \in {"active", "inactive"} : Subscribe(kind)
           \/ Switch \/ Unsubscribe
    PROVE  WebhookInv'
  <1>1. ASSUME NEW kind \in {"active", "inactive"}, Subscribe(kind) PROVE WebhookInv'
    <2>1. WebhookTypeOK'
      BY <1>1 DEF Subscribe, WebhookInv, WebhookTypeOK, Subscriptions
    <2>2. ASSUME NEW j \in Jobs PROVE JobInv(j)'
      BY <1>1, JobFacts
      DEF Subscribe, JobInv, AttemptsLeft, MadeOnce, RunInv, RowsInv, AtWork
    <2> QED  BY <2>1, <2>2 DEF WebhookInv
  <1>2. CASE Switch
    <2>1. WebhookTypeOK'
      BY <1>2 DEF Switch, WebhookInv, WebhookTypeOK, Subscriptions
    <2>2. ASSUME NEW j \in Jobs PROVE JobInv(j)'
      BY <1>2, JobFacts
      DEF Switch, Exists, JobInv, AttemptsLeft, MadeOnce, RunInv, RowsInv, AtWork
    <2> QED  BY <2>1, <2>2 DEF WebhookInv
  <1>3. CASE Unsubscribe
    <2>1. ASSUME NEW j \in Jobs PROVE [delivery[j] EXCEPT !.rows = 0] \in Job
      BY JobFacts DEF Job
    <2>2. WebhookTypeOK'
      BY <1>3, <2>1 DEF Unsubscribe, WebhookInv, WebhookTypeOK, Subscriptions
    <2>3. ASSUME NEW j \in Jobs PROVE JobInv(j)'
      <3>1. /\ delivery'[j].pc = delivery[j].pc
            /\ delivery'[j].failures = delivery[j].failures
            /\ delivery'[j].crashes = delivery[j].crashes
            /\ delivery'[j].subscribed = delivery[j].subscribed
        BY <1>3, JobFacts DEF Unsubscribe, Job
      <3>2. /\ subscription' = "deleted" /\ received' = received
            /\ heard' = heard /\ published' = published
        BY <1>3 DEF Unsubscribe
      <3> QED
        BY <3>1, <3>2, JobFacts DEF JobInv, AttemptsLeft, MadeOnce, RunInv, RowsInv, AtWork
    <2> QED  BY <2>2, <2>3 DEF WebhookInv
  <1> QED  BY <1>1, <1>2, <1>3

LEMMA ChannelSteps ==
    ASSUME WebhookInv,
           \/ \E d \in Dispatchers : Disconnect(d) \/ Connect(d)
           \/ \E n \in Publications : Publish(n)
           \/ \E j \in Jobs : LoseDispatch(j)
    PROVE  WebhookInv'
  <1>1. ASSUME NEW d \in Dispatchers, Disconnect(d) \/ Connect(d) PROVE WebhookInv'
    BY <1>1
    DEF Disconnect, Connect, WebhookInv, WebhookTypeOK, JobInv, AttemptsLeft, MadeOnce, RunInv,
        RowsInv
  <1>2. ASSUME NEW n \in Publications, Publish(n) PROVE WebhookInv'
    <2>1. WebhookTypeOK'
      BY <1>2 DEF Publish, WebhookInv, WebhookTypeOK, Jobs
    <2>2. ASSUME NEW j \in Jobs PROVE JobInv(j)'
      <3>1. JobInv(j)
        BY JobFacts
      <3>2. MadeOnce(j)'
        BY <1>2, <3>1 DEF Publish, JobInv, MadeOnce, Jobs
      <3> QED  BY <1>2, <3>1, <3>2 DEF Publish, JobInv, AttemptsLeft, RunInv, RowsInv
    <2> QED  BY <2>1, <2>2 DEF WebhookInv
  <1>3. ASSUME NEW i \in Jobs, LoseDispatch(i) PROVE WebhookInv'
    BY <1>3
    DEF LoseDispatch, WebhookInv, WebhookTypeOK, JobInv, AttemptsLeft, MadeOnce, RunInv, RowsInv
  <1> QED  BY <1>1, <1>2, <1>3

LEMMA DispatchStep ==
    ASSUME WebhookInv, NEW i \in Jobs, Dispatch(i)
    PROVE  WebhookInv'
  <1> DEFINE to == IF subscription = "active" THEN "waiting" ELSE delivery[i].pc
  <1>1. delivery' = [delivery EXCEPT ![i] = [delivery[i] EXCEPT !.pc = to]]
    BY DEF Dispatch
  <1>2. delivery[i].pc = "none" /\ i[2] \in published
    BY JobFacts DEF Dispatch, JobInv, MadeOnce
  <1>3. [delivery[i] EXCEPT !.pc = to] \in Job
    BY <1>2, JobFacts DEF Job
  <1>4. WebhookTypeOK'
    BY <1>1, <1>3 DEF Dispatch, WebhookInv, WebhookTypeOK
  <1>5. ASSUME NEW j \in Jobs PROVE JobInv(j)'
    <2>1. CASE j # i
      <3>1. delivery'[j] = delivery[j]
        BY <1>1, <2>1 DEF WebhookInv, WebhookTypeOK
      <3> QED
        BY <2>1, <3>1, JobFacts DEF Dispatch, JobInv, AttemptsLeft, MadeOnce, RunInv, RowsInv
    <2>2. CASE j = i
      <3>1. /\ delivery'[i].pc = to
            /\ delivery'[i].failures = delivery[i].failures
            /\ delivery'[i].crashes = delivery[i].crashes
            /\ delivery'[i].rows = delivery[i].rows
        BY <1>1, JobFacts DEF Job, WebhookInv, WebhookTypeOK
      <3>2. /\ delivery[i].failures = 0 /\ delivery[i].crashes = 0 /\ received[i] = 0
            /\ delivery[i].rows \in Nat /\ Attempts \in Nat \ {0}
        BY <1>2, JobFacts DEF JobInv, MadeOnce
      <3>3. AttemptsLeft(i)'
        BY <1>2, <3>1, <3>2 DEF Dispatch, AttemptsLeft, AtWork, Running
      <3>4. MadeOnce(i)' /\ RunInv(i)'
        BY <1>2, <3>1, <3>2 DEF Dispatch, MadeOnce, RunInv, Running
      <3>5. RowsInv(i)'
        BY <1>2, <3>1, <3>2 DEF Dispatch, RowsInv
      <3> QED  BY <2>2, <3>3, <3>4, <3>5 DEF JobInv
    <2> QED  BY <2>1, <2>2
  <1> QED  BY <1>4, <1>5 DEF WebhookInv

\* A step of a run that replaces its job by v.
LEMMA RunKeepsInv ==
    ASSUME WebhookInv, NEW j \in Jobs, NEW v \in Job, Becomes(j, v),
           UNCHANGED <<subscription, online, published, heard>>,
           received' \in [Jobs -> Nat],
           \A k \in Jobs \ {j} : received'[k] = received[k],
           received[j] <= received'[j],
           delivery[j].pc \in AtWork,
           v.failures = delivery[j].failures,
           v.pc \in AtWork => v.crashes < 2,
           v.pc \in Running => /\ v.subscribed # "none"
                               /\ v.subscribed = "deleted" => subscription = "deleted",
           v.pc = "inactive" => v.subscribed = "inactive",
           v.pc = "answered" => received'[j] > 0,
           v.pc = "completed" => received'[j] > 0 \/ v.subscribed = "inactive",
           v.pc # "none",
           subscription # "deleted" => /\ received'[j] <= v.rows
                                       /\ v.pc = "recorded" => received'[j] < v.rows
    PROVE  WebhookInv'
  <1>1. delivery'[j] = v
    BY DEF Becomes, WebhookInv, WebhookTypeOK
  <1>2. JobInv(j)
    BY JobFacts
  <1>3. AttemptsLeft(j)'
    BY <1>1, <1>2 DEF JobInv, AttemptsLeft
  <1>4. MadeOnce(j)'
    BY <1>1, <1>2 DEF JobInv, MadeOnce, AtWork, Running
  <1>5. RunInv(j)'
    BY <1>1 DEF RunInv
  <1>6. RowsInv(j)'
    BY <1>1 DEF RowsInv
  <1> QED  BY <1>3, <1>4, <1>5, <1>6, OneJobChanges DEF JobInv

\* The receiver's count is left alone by every step but Post.
LEMMA NothingReceived ==
    ASSUME WebhookInv, NEW j \in Jobs, UNCHANGED received
    PROVE  /\ received' \in [Jobs -> Nat]
           /\ \A k \in Jobs \ {j} : received'[k] = received[k]
           /\ received[j] <= received'[j]
           /\ received'[j] = received[j]
  BY DEF WebhookInv, WebhookTypeOK

LEMMA RunStep ==
    ASSUME WebhookInv, NEW j \in Jobs, Run(j)
    PROVE  WebhookInv'
  <1> DEFINE x == delivery[j]
             v == [x EXCEPT !.pc = "started", !.subscribed = subscription]
  <1>1. /\ x.pc = "waiting" /\ Becomes(j, v)
        /\ UNCHANGED <<subscription, online, published, heard, received>>
    BY DEF Run
  <1>2. x \in Job /\ subscription \in Subscriptions /\ JobInv(j)
    BY JobFacts DEF WebhookInv, WebhookTypeOK
  <1>3. /\ v \in Job /\ v.pc = "started" /\ v.subscribed = subscription
        /\ v.failures = x.failures /\ v.crashes = x.crashes /\ v.rows = x.rows
    BY <1>2 DEF Job, Running
  <1>4. subscription # "none" /\ x.crashes < 2
    BY <1>1, <1>2 DEF JobInv, AttemptsLeft, AtWork
  <1>5. subscription # "deleted" => received[j] <= x.rows
    BY <1>2 DEF JobInv, RowsInv
  <1> HIDE DEF v
  <1> QED
    BY <1>1, <1>3, <1>4, <1>5, NothingReceived, RunKeepsInv DEF AtWork

LEMMA RecordStep ==
    ASSUME WebhookInv, NEW j \in Jobs, Record(j)
    PROVE  WebhookInv'
  <1> DEFINE x == delivery[j]
             pc == IF x.subscribed = "active" THEN "recorded" ELSE "inactive"
             v == [x EXCEPT !.rows = x.rows + 1, !.pc = pc]
  <1>1. /\ x.pc = "started"
        /\ UNCHANGED <<subscription, online, published, heard, received>>
        /\ \/ Exists /\ Becomes(j, v)
           \/ Becomes(j, Thrown(x))
    BY DEF Record
  <1>2. CASE Becomes(j, Thrown(x))
    BY <1>1, <1>2, ThrownKeepsInv DEF Running
  <1>3. CASE Exists /\ Becomes(j, v)
    <2>1. x \in Job /\ x.rows \in Nat /\ received[j] \in Nat /\ JobInv(j)
      BY JobFacts
    <2>2. x.rows + 1 \in Nat /\ pc \in Running
      BY <2>1 DEF Running
    <2>3. /\ v \in Job /\ v.pc = pc /\ v.subscribed = x.subscribed
          /\ v.failures = x.failures /\ v.crashes = x.crashes /\ v.rows = x.rows + 1
      BY <2>1, <2>2 DEF Job
    <2>4. x.crashes < 2 /\ x.pc \in AtWork
      BY <1>1, <2>1 DEF JobInv, AttemptsLeft, AtWork, Running
    <2>5. x.subscribed # "none" /\ x.subscribed # "deleted" /\ x.subscribed \in Subscriptions
      BY <1>1, <1>3, <2>1, JobFacts DEF JobInv, RunInv, Running, Exists
    <2>6. pc = "inactive" => x.subscribed = "inactive"
      BY <2>5 DEF Subscriptions
    <2>7. subscription # "deleted" => received[j] < x.rows + 1
      BY <2>1 DEF JobInv, RowsInv
    <2>8. received[j] <= x.rows + 1 \/ subscription = "deleted"
      BY <2>1, <2>7
    <2>9. pc # "answered" /\ pc # "completed" /\ pc # "none"
      OBVIOUS
    <2> HIDE DEF v, pc
    <2> QED
      BY <1>1, <1>3, <2>3, <2>4, <2>5, <2>6, <2>7, <2>8, <2>9, NothingReceived, RunKeepsInv
  <1> QED  BY <1>1, <1>2, <1>3

\* A run that ends, or goes on to the answer it got, without a new row.
LEMMA DeclineStep ==
    ASSUME WebhookInv, NEW j \in Jobs, Decline(j)
    PROVE  WebhookInv'
  <1> DEFINE x == delivery[j]
             v == [x EXCEPT !.pc = "completed"]
  <1>1. /\ x.pc = "inactive"
        /\ UNCHANGED <<subscription, online, published, heard, received>>
        /\ Becomes(j, v) \/ Becomes(j, Thrown(x))
    BY DEF Decline
  <1>2. CASE Becomes(j, Thrown(x))
    BY <1>1, <1>2, ThrownKeepsInv DEF Running
  <1>3. CASE Becomes(j, v)
    <2>1. x \in Job /\ JobInv(j)
      BY JobFacts
    <2>2. /\ v \in Job /\ v.pc = "completed" /\ v.subscribed = x.subscribed
          /\ v.failures = x.failures /\ v.rows = x.rows
      BY <2>1 DEF Job
    <2>3. x.subscribed = "inactive" /\ x.pc \in AtWork
      BY <1>1, <2>1 DEF JobInv, RunInv, AtWork, Running
    <2>4. subscription # "deleted" => received[j] <= x.rows
      BY <2>1 DEF JobInv, RowsInv
    <2>5. "completed" \notin AtWork /\ "completed" \notin Running
      BY DEF AtWork, Running
    <2> HIDE DEF v
    <2> QED  BY <1>1, <1>3, <2>2, <2>3, <2>4, <2>5, NothingReceived, RunKeepsInv
  <1> QED  BY <1>1, <1>2, <1>3

LEMMA SucceededStep ==
    ASSUME WebhookInv, NEW j \in Jobs, Succeeded(j)
    PROVE  WebhookInv'
  <1> DEFINE x == delivery[j]
  <1>1. PICK pc \in {"completed", "refused"} : Becomes(j, [x EXCEPT !.pc = pc])
    BY DEF Succeeded
  <1> DEFINE v == [x EXCEPT !.pc = pc]
  <1>2. x.pc = "answered" /\ UNCHANGED <<subscription, online, published, heard, received>>
    BY DEF Succeeded
  <1>3. x \in Job /\ received[j] \in Nat /\ JobInv(j)
    BY JobFacts
  <1>4. /\ v \in Job /\ v.pc = pc /\ v.subscribed = x.subscribed
        /\ v.failures = x.failures /\ v.crashes = x.crashes /\ v.rows = x.rows
    BY <1>3 DEF Job, Running
  <1>5. /\ x.crashes < 2 /\ x.pc \in AtWork /\ received[j] > 0
        /\ x.subscribed # "none"
        /\ x.subscribed = "deleted" => subscription = "deleted"
    BY <1>2, <1>3 DEF JobInv, AttemptsLeft, RunInv, AtWork, Running
  <1>6. subscription # "deleted" => received[j] <= x.rows
    BY <1>3 DEF JobInv, RowsInv
  <1>7. Becomes(j, v)
    BY <1>1
  <1> HIDE DEF v
  <1> QED  BY <1>2, <1>4, <1>5, <1>6, <1>7, NothingReceived, RunKeepsInv

LEMMA PostStep ==
    ASSUME WebhookInv, NEW j \in Jobs, Post(j)
    PROVE  WebhookInv'
  <1> DEFINE x == delivery[j]
  <1>1. PICK pc \in {"answered", "refused"} :
            /\ Becomes(j, [x EXCEPT !.pc = pc])
            /\ \/ received' = [received EXCEPT ![j] = received[j] + 1]
               \/ pc = "refused" /\ UNCHANGED received
    BY DEF Post
  <1> DEFINE v == [x EXCEPT !.pc = pc]
  <1>2. x.pc = "recorded" /\ UNCHANGED <<subscription, online, published, heard>>
    BY DEF Post
  <1>3. x \in Job /\ received[j] \in Nat /\ x.rows \in Nat /\ JobInv(j)
    BY JobFacts
  <1>4. /\ v \in Job /\ v.pc = pc /\ v.subscribed = x.subscribed
        /\ v.failures = x.failures /\ v.crashes = x.crashes /\ v.rows = x.rows
    BY <1>3 DEF Job, Running
  <1>5. /\ x.crashes < 2 /\ x.pc \in AtWork
        /\ x.subscribed # "none"
        /\ x.subscribed = "deleted" => subscription = "deleted"
    BY <1>2, <1>3 DEF JobInv, AttemptsLeft, RunInv, AtWork, Running
  <1>6. subscription # "deleted" => received[j] < x.rows
    BY <1>2, <1>3 DEF JobInv, RowsInv
  <1>7. /\ received' \in [Jobs -> Nat]
        /\ \A k \in Jobs \ {j} : received'[k] = received[k]
        /\ \/ received'[j] = received[j] + 1
           \/ pc = "refused" /\ received'[j] = received[j]
    <2>1. received[j] + 1 \in Nat /\ received \in [Jobs -> Nat]
      BY <1>3 DEF WebhookInv, WebhookTypeOK
    <2>2. CASE received' = [received EXCEPT ![j] = received[j] + 1]
      BY <2>1, <2>2
    <2>3. CASE pc = "refused" /\ UNCHANGED received
      BY <2>1, <2>3
    <2> QED  BY <1>1, <2>2, <2>3
  <1>8. /\ received[j] <= received'[j]
        /\ pc = "answered" => received'[j] > 0
        /\ subscription # "deleted" => received'[j] <= x.rows
    BY <1>3, <1>6, <1>7
  <1>9. Becomes(j, v)
    BY <1>1
  <1>10. pc # "none" /\ pc # "inactive" /\ pc # "completed" /\ pc # "recorded"
    OBVIOUS
  <1> HIDE DEF v
  <1> QED  BY <1>2, <1>4, <1>5, <1>7, <1>8, <1>9, <1>10, RunKeepsInv

LEMMA DieStep ==
    ASSUME WebhookInv, NEW j \in Jobs, Die(j)
    PROVE  WebhookInv'
  <1> DEFINE x == delivery[j]
             pc == IF x.crashes = 0 THEN "waiting" ELSE "failed"
             v == [x EXCEPT !.crashes = x.crashes + 1, !.pc = pc]
  <1>1. /\ x.pc \in Running /\ Becomes(j, v)
        /\ UNCHANGED <<subscription, online, published, heard, received>>
    BY DEF Die
  <1>2. x \in Job /\ x.crashes \in 0 .. 2 /\ JobInv(j)
    BY JobFacts
  <1>3. x.crashes < 2 /\ x.pc \in AtWork
    BY <1>1, <1>2 DEF JobInv, AttemptsLeft, AtWork
  <1>4. x.crashes + 1 \in 0 .. 2 /\ (x.crashes = 0 => x.crashes + 1 < 2)
    BY <1>2, <1>3
  <1>5. /\ v \in Job /\ v.pc = pc /\ v.subscribed = x.subscribed
        /\ v.failures = x.failures /\ v.crashes = x.crashes + 1 /\ v.rows = x.rows
    BY <1>2, <1>4 DEF Job
  <1>6. subscription # "deleted" => received[j] <= x.rows
    BY <1>2 DEF JobInv, RowsInv
  <1>7. /\ pc \in {"waiting", "failed"}
        /\ pc \in AtWork => x.crashes + 1 < 2
        /\ pc \notin Running
    BY <1>4 DEF AtWork, Running
  <1> HIDE DEF v, pc
  <1> QED  BY <1>1, <1>3, <1>5, <1>6, <1>7, NothingReceived, RunKeepsInv

LEMMA WebhookInvStep ==
    WebhookInv /\ [WebhookNext]_webhookVars => WebhookInv'
  <1> SUFFICES ASSUME WebhookInv, [WebhookNext]_webhookVars PROVE WebhookInv'
    OBVIOUS
  <1>1. CASE UNCHANGED webhookVars
    BY <1>1
    DEF webhookVars, WebhookInv, WebhookTypeOK, JobInv, AttemptsLeft, MadeOnce, RunInv, RowsInv
  <1>2. ASSUME NEW j \in Jobs, WorkOn(j) \/ Die(j) PROVE WebhookInv'
    <2>1. CASE Refused(j)
      BY <2>1, ThrownKeepsInv DEF Refused, Running
    <2> QED
      BY <1>2, <2>1, RunStep, RecordStep, DeclineStep, PostStep, SucceededStep, DieStep
      DEF WorkOn
  <1> QED
    BY <1>1, <1>2, SubscriptionSteps, ChannelSteps, DispatchStep DEF WebhookNext

LEMMA WebhookInvariant == WebhookSpec => []WebhookInv
  BY WebhookInvInit, WebhookInvStep, PTL DEF WebhookSpec

\* A subscription, its handlers and its jobs keep their types, whatever fails.
THEOREM WebhookTypeCorrect == WebhookSpec => []WebhookTypeOK
  <1>1. WebhookInv => WebhookTypeOK
    BY DEF WebhookInv
  <1> QED  BY <1>1, WebhookInvariant, PTL

\* Every request the receiver got has a row, for any number of API processes,
\* publications and attempts.  What the rows say of it is another matter: a request that
\* timed out has a FAILURE row, received or not.
THEOREM RowsAreAuditTrail == WebhookSpec => []AuditTrail
  <1>1. WebhookInv => AuditTrail
    BY DEF WebhookInv, JobInv, RowsInv, AuditTrail, Exists
  <1> QED  BY <1>1, WebhookInvariant, PTL

\* No failure ends as a success.
THEOREM CompletionIsReceipt == WebhookSpec => []CompletedWasReceived
  <1>1. WebhookInv => CompletedWasReceived
    BY DEF WebhookInv, JobInv, RunInv, CompletedWasReceived
  <1> QED  BY <1>1, WebhookInvariant, PTL
=============================================================================
