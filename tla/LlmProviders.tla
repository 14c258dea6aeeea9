---------------------------- MODULE LlmProviders ----------------------------
(***************************************************************************)
(* The LLM providers behind the AI responder.  A generation tries them in    *)
(* the order of preference, each behind a circuit breaker that the           *)
(* generations of one worker share while they wait for an answer.            *)
(***************************************************************************)
EXTENDS Naturals, Sequences

CONSTANTS
    Generations,  \* calls of generateResponse
    Preference,   \* LLM_PROVIDER_PREFERENCE, the registered providers of it
    Threshold,    \* failureThreshold
    Recovery,     \* recoveryTimeout
    LastTick      \* bound of the clock

ASSUME ProvidersAssumption ==
    /\ Preference \in Seq(STRING) \ {<<>>}
    /\ Threshold \in Nat \ {0}
    /\ Recovery \in Nat
    /\ LastTick \in Nat

VARIABLES
    breaker,     \* per provider: state, failures, nextAttempt
    generation,  \* how far each call came, and at which provider it is
    clock,
    lastFailed,  \* when each provider failed last
    streak       \* failures of each provider since it answered last

providerVars == <<breaker, generation, clock, lastFailed, streak>>

-----------------------------------------------------------------------------
(* Types *)

Providers == {Preference[i] : i \in DOMAIN Preference}

Breaker == [state : {"closed", "open", "half_open"}, failures : Nat, nextAttempt : Nat]

Generation == [pc : {"idle", "choosing", "waiting", "answered", "failed"},
               at : 1 .. Len(Preference)]

ProvidersTypeOK ==
    /\ breaker \in [Providers -> Breaker]
    /\ generation \in [Generations -> Generation]
    /\ clock \in 0 .. LastTick
    /\ lastFailed \in [Providers -> 0 .. LastTick]
    /\ streak \in [Providers -> Nat]

\* nextAttempt is 0 where the code has null.
Closed == [state |-> "closed", failures |-> 0, nextAttempt |-> 0]

ProvidersInit ==
    /\ breaker = [p \in Providers |-> Closed]
    /\ generation = [g \in Generations |-> [pc |-> "idle", at |-> 1]]
    /\ clock = 0
    /\ lastFailed = [p \in Providers |-> 0]
    /\ streak = [p \in Providers |-> 0]

-----------------------------------------------------------------------------
(* CircuitBreaker.execute inside generateResponse's loop *)

ProviderOf(g) == Preference[generation[g].at]

\* The call is at another point of its loop.
Moves(g, pc, at) == generation' = [generation EXCEPT ![g] = [pc |-> pc, at |-> at]]

\* One provider too many.
PastTheLast(g) ==
    LET at == generation[g].at
    IN  IF at <= Len(Preference) THEN Moves(g, "choosing", at + 1) ELSE Moves(g, "failed", at)

\* The catch of the loop: the next provider, or the last error is thrown.
FailsOver(g) ==
    LET at == generation[g].at
    IN  IF at < Len(Preference) THEN Moves(g, "choosing", at + 1) ELSE Moves(g, "failed", at)

Generate(g) ==
    /\ generation[g].pc = "idle"
    /\ Moves(g, "choosing", 1)
    /\ UNCHANGED <<breaker, clock, lastFailed, streak>>

Tripped(b) == b.state = "open" /\ clock < b.nextAttempt

\* An open breaker throws until nextAttempt.
Skip(g) ==
    /\ generation[g].pc = "choosing"
    /\ Tripped(breaker[ProviderOf(g)])
    /\ FailsOver(g)
    /\ UNCHANGED <<breaker, clock, lastFailed, streak>>

\* The provider is called; the first call after nextAttempt half-opens the breaker.
Send(g) ==
    LET p == ProviderOf(g)
    IN  /\ generation[g].pc = "choosing"
        /\ ~Tripped(breaker[p])
        /\ breaker' = [breaker EXCEPT ![p].state = IF @ = "open" THEN "half_open" ELSE @]
        /\ Moves(g, "waiting", generation[g].at)
        /\ UNCHANGED <<clock, lastFailed, streak>>

\* onSuccess, whatever happened to the breaker since the call was sent.
Succeed(g) ==
    LET p == ProviderOf(g)
    IN  /\ generation[g].pc = "waiting"
        /\ breaker' = [breaker EXCEPT ![p] = Closed]
        /\ streak' = [streak EXCEPT ![p] = 0]
        /\ Moves(g, "answered", generation[g].at)
        /\ UNCHANGED <<clock, lastFailed>>

\* One failure late.
TripsLate(b) == b.failures + 1 > Threshold \/ b.state = "half_open"

Trips(b) == b.failures + 1 >= Threshold \/ b.state = "half_open"

\* A failure of a breaker that is open already does not move nextAttempt.
OpensOnce(b) ==
    [state |-> IF Trips(b) THEN "open" ELSE b.state,
     failures |-> b.failures + 1,
     nextAttempt |-> IF Trips(b) /\ b.state # "open" THEN clock + Recovery ELSE b.nextAttempt]

OnFailure(b) ==
    [state |-> IF Trips(b) THEN "open" ELSE b.state,
     failures |-> b.failures + 1,
     nextAttempt |-> IF Trips(b) THEN clock + Recovery ELSE b.nextAttempt]

\* onFailure, and the next provider.
Fail(g) ==
    LET p == ProviderOf(g)
    IN  /\ generation[g].pc = "waiting"
        /\ breaker' = [breaker EXCEPT ![p] = OnFailure(@)]
        /\ lastFailed' = [lastFailed EXCEPT ![p] = clock]
        /\ streak' = [streak EXCEPT ![p] = @ + 1]
        /\ FailsOver(g)
        /\ UNCHANGED clock

ProvidersTick ==
    /\ clock < LastTick
    /\ clock' = clock + 1
    /\ UNCHANGED <<breaker, generation, lastFailed, streak>>

ProvidersNext ==
    \/ \E g \in Generations :
          Generate(g) \/ Skip(g) \/ Send(g) \/ Succeed(g) \/ Fail(g)
    \/ ProvidersTick

ProvidersSpec == ProvidersInit /\ [][ProvidersNext]_providerVars

-----------------------------------------------------------------------------
(* Properties *)

\* A breaker is out of the closed state exactly while the provider failed Threshold
\* times since it answered last, in whatever order the answers of calls sent before
\* and after it opened arrive.
OpenCountsFailures ==
    \A p \in Providers : breaker[p].state # "closed" <=> streak[p] >= Threshold

\* An open breaker turns calls away until Recovery after the provider's last
\* failure, no longer and no shorter, late failures included.
RecoveryFollowsFailure ==
    \A p \in Providers :
        breaker[p].state = "open" => breaker[p].nextAttempt = lastFailed[p] + Recovery
=============================================================================
