--------------------------- MODULE ServicesProofs ---------------------------
(***************************************************************************)
(* The services checked one beside the other behave each as it does alone, so *)
(* that what is proved of one holds of the composition that TLC checks.       *)
(***************************************************************************)
EXTENDS MCServices, ConversationRowProofs, AccountProofs, OutgoingCallsProofs

\* The initial states of the composition are initial for every service.
LEMMA ServicesInit ==
    Init => /\ RowInit /\ MembersInit /\ ProvidersInit
            /\ WebhookInit /\ SessionsInit /\ AgentInit
  BY DEF Init

\* A step of the composition is a step of one service and leaves the others alone.
LEMMA ServicesStep ==
    [Next]_servicesVars =>
        /\ [RowNext]_rowVars /\ [MembersNext]_memberVars /\ [ProvidersNext]_providerVars
        /\ [WebhookNext]_webhookVars /\ [SessionsNext]_sessionVars /\ [AgentNext]_agentVars
<1> SUFFICES ASSUME [Next]_servicesVars
             PROVE  /\ [RowNext]_rowVars /\ [MembersNext]_memberVars
                    /\ [ProvidersNext]_providerVars /\ [WebhookNext]_webhookVars
                    /\ [SessionsNext]_sessionVars /\ [AgentNext]_agentVars
  OBVIOUS
<1>1. CASE RowStep
  BY <1>1 DEF RowStep
<1>2. CASE MembersStep
  BY <1>2 DEF MembersStep
<1>3. CASE ProvidersStep
  BY <1>3 DEF ProvidersStep
<1>4. CASE WebhookStep
  BY <1>4 DEF WebhookStep
<1>5. CASE SessionsStep
  BY <1>5 DEF SessionsStep
<1>6. CASE AgentStep
  BY <1>6 DEF AgentStep
<1>7. CASE UNCHANGED servicesVars
  BY <1>7 DEF servicesVars
<1> QED
  BY <1>1, <1>2, <1>3, <1>4, <1>5, <1>6, <1>7 DEF Next

\* The composition implements the specification of every service; of the browser's
\* session the part without fairness.
THEOREM ServicesCompose ==
    Spec => /\ RowSpec /\ MembersSpec /\ ProvidersSpec /\ WebhookSpec /\ SessionsSpec
            /\ AgentInit /\ [][AgentNext]_agentVars
  BY ServicesInit, ServicesStep, PTL
     DEF Spec, RowSpec, MembersSpec, ProvidersSpec, WebhookSpec, SessionsSpec

\* All of the state keeps its types.
THEOREM ServicesTypeCorrect == Spec => []TypeOK
<1>1. Spec => [](RowTypeOK /\ MembersTypeOK /\ ProvidersTypeOK)
  BY ServicesCompose, RowTypeCorrect, MembersTypeCorrect, ProvidersTypeCorrect, PTL
<1>2. Spec => [](WebhookTypeOK /\ SessionsTypeOK /\ AgentTypeOK)
  BY ServicesCompose, WebhookTypeCorrect, SessionsTypeCorrect, AgentSafe, PTL
<1>3. RowTypeOK /\ MembersTypeOK /\ ProvidersTypeOK
        /\ WebhookTypeOK /\ SessionsTypeOK /\ AgentTypeOK => TypeOK
  BY DEF TypeOK
<1> QED
  BY <1>1, <1>2, <1>3, PTL

\* Every safety property of the services run holds of the run's own specification.
THEOREM ServicesAreSafe ==
    Spec => /\ [](SerialUnlessRaced /\ AnnouncedUnlessUndone /\ UnreadWereSent)
            /\ [](ManagedUnlessStale /\ InvitationsAreUsedUp)
            /\ [](OpenCountsFailures /\ RecoveryFollowsFailure)
            /\ [](AuditTrail /\ CompletedWasReceived)
            /\ [](WithinLimitUnlessCrowded /\ SessionFollowsAgent)
            /\ NoLogoutLoop
<1>1. Spec => [](SerialUnlessRaced /\ AnnouncedUnlessUndone /\ UnreadWereSent)
  BY ServicesCompose, SerialWithoutRaces, AnnouncedWithoutRaces, UnreadNeverMadeUp, PTL
<1>2. Spec => [](ManagedUnlessStale /\ InvitationsAreUsedUp)
  BY ServicesCompose, ProjectStaysManaged, InvitedOnce, PTL
<1>3. Spec => [](OpenCountsFailures /\ RecoveryFollowsFailure)
  BY ServicesCompose, BreakersCountFailures, BreakersRecover, PTL
<1>4. Spec => [](AuditTrail /\ CompletedWasReceived)
  BY ServicesCompose, RowsAreAuditTrail, CompletionIsReceipt, PTL
<1>5. Spec => [](WithinLimitUnlessCrowded /\ SessionFollowsAgent)
  BY ServicesCompose, SessionLimitHolds, AgentSafe, PTL
<1>6. Spec => NoLogoutLoop
  BY ServicesCompose, NobodyLoggedOut, PTL
<1> QED
  BY <1>1, <1>2, <1>3, <1>4, <1>5, <1>6, PTL
=============================================================================
