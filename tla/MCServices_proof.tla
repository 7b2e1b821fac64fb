-------------------------- MODULE MCServices_proof --------------------------
(***************************************************************************)
(* The composition of the services: each part, left alone by the others,   *)
(* behaves as its own module says, so what is proved of the parts holds    *)
(* side by side.                                                           *)
(***************************************************************************)
EXTENDS MCServices, Limits_proof, AfterEvaluation_proof, Accounts_proof

\* A step of the services is one of RateNext or leaves its state alone.
LEMMA RateRests ==
    ASSUME [ServicesNext]_servicesVars PROVE [RateNext]_rateVars
  BY DEF ServicesNext, Rest, servicesVars

\* A step of the services is one of QuotaNext or leaves its state alone.
LEMMA QuotaRests ==
    ASSUME [ServicesNext]_servicesVars PROVE [QuotaNext]_quotaVars
  BY DEF ServicesNext, Rest, servicesVars

\* A step of the services is one of UsageNext or leaves its state alone.
LEMMA UsageRests ==
    ASSUME [ServicesNext]_servicesVars PROVE [UsageNext]_usageVars
  BY DEF ServicesNext, Rest, servicesVars

\* A step of the services is one of SubscriptionNext or leaves its state alone.
LEMMA SubscriptionRests ==
    ASSUME [ServicesNext]_servicesVars PROVE [SubscriptionNext]_subscriptionVars
  BY DEF ServicesNext, Rest, servicesVars

\* A step of the services is one of ClusterNext or leaves its state alone.
LEMMA ClusterRests ==
    ASSUME [ServicesNext]_servicesVars PROVE [ClusterNext]_clusterVars
  BY DEF ServicesNext, Rest, servicesVars

\* A step of the services is one of AlertNext or leaves its state alone.
LEMMA AlertRests ==
    ASSUME [ServicesNext]_servicesVars PROVE [AlertNext]_alertVars
  BY DEF ServicesNext, Rest, servicesVars

\* A step of the services is one of SummaryNext or leaves its state alone.
LEMMA SummaryRests ==
    ASSUME [ServicesNext]_servicesVars PROVE [SummaryNext]_summaryVars
  BY DEF ServicesNext, Rest, servicesVars

\* A step of the services is one of AccountNext or leaves its state alone.
LEMMA AccountRests ==
    ASSUME [ServicesNext]_servicesVars PROVE [AccountNext]_accountVars
  BY DEF ServicesNext, Rest, servicesVars

\* Side by side each part behaves as its own module says.
THEOREM PartsAsAlone ==
    ServicesSpec => /\ RateSpec /\ QuotaSpec /\ UsageSpec /\ SubscriptionSpec
                    /\ ClusterSpec /\ AlertSpec /\ SummarySpec /\ AccountSpec
  <1>1. [ServicesNext]_servicesVars => [RateNext]_rateVars
    BY RateRests
  <1>2. [ServicesNext]_servicesVars => [QuotaNext]_quotaVars
    BY QuotaRests
  <1>3. [ServicesNext]_servicesVars => [UsageNext]_usageVars
    BY UsageRests
  <1>4. [ServicesNext]_servicesVars => [SubscriptionNext]_subscriptionVars
    BY SubscriptionRests
  <1>5. [ServicesNext]_servicesVars => [ClusterNext]_clusterVars
    BY ClusterRests
  <1>6. [ServicesNext]_servicesVars => [AlertNext]_alertVars
    BY AlertRests
  <1>7. [ServicesNext]_servicesVars => [SummaryNext]_summaryVars
    BY SummaryRests
  <1>8. [ServicesNext]_servicesVars => [AccountNext]_accountVars
    BY AccountRests
  <1>9. ServicesInit => /\ RateInit /\ QuotaInit /\ UsageInit /\ SubscriptionInit
                        /\ ClusterInit /\ AlertInit /\ SummaryInit /\ AccountInit
    BY DEF ServicesInit
  <1> QED
    BY <1>1, <1>2, <1>3, <1>4, <1>5, <1>6, <1>7, <1>8, <1>9, PTL
       DEF ServicesSpec, RateSpec, QuotaSpec, UsageSpec, SubscriptionSpec, ClusterSpec,
           AlertSpec, SummarySpec, AccountSpec

\* The rows, keys, sessions and requests of all services keep their types together.
THEOREM ServicesTypes == ServicesSpec => []ServicesTypeOK
  BY PartsAsAlone, RateTypes, QuotaTypes, UsageTypes, SubscriptionTypes, ClusterTypes,
     AlertTypes, SummaryRowsUnique, AccountTypes, PTL DEF ServicesTypeOK

-----------------------------------------------------------------------------
(* What the run services checks                                            *)

\* Every invariant that TLC checks of the small instance holds of any: a window admits no
\* more than its limit; a refusal names a limit that was in force; a trace is counted once
\* a month, and exactly without faults; a cluster's count is its members' and it is alerted
\* once; a monitor is quiet for its interval and records what it has done; a summary misses
\* only what came late; seats, owners and ways in are kept.
THEOREM ServicesSafe ==
    ServicesSpec => /\ []AdmittedWithinLimit /\ []RefusalJustified
                    /\ []NeverOvercounts /\ []ExactWithoutFaults
                    /\ []CountFollowsMembers /\ []OneAlertPerCluster
                    /\ []QuietWithinInterval /\ []RecordedFiringActed
                    /\ []OnlyLateSpansMissing /\ []SeatsWithinCap
                    /\ []OrgKeepsOwnerAndWorkspace /\ []NobodyStranded
  BY PartsAsAlone, LimitHolds, RefusalsAreJustified, UsageNeverOvercounts,
     UsageExactWithoutFaults, CountsFollow, AlertedOnce, IntervalIsQuiet, RecordIsTrue,
     SummariesMissOnlyLate, SeatsHold, OwnerAndWorkspaceKept, NobodyLeftOut, PTL

\* So do its action properties: an operator's grant is kept, and one joins by a pending
\* invitation only.
THEOREM ServicesSteps == ServicesSpec => UnlimitedKept /\ JoinsByPendingInvite
  BY PartsAsAlone, GrantIsKept, OnlyTheInvitedJoin, PTL

\* And, when Stripe's events are handled in the order they were made, the plan that settles
\* is that of the last one.
THEOREM ServicesPlan ==
    ASSUME InOrder PROVE ServicesSpec => []SettledPlanIsRight
  BY PartsAsAlone, PlanFollowsStripe, PTL
=============================================================================
