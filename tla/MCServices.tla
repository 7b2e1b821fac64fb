------------------------------ MODULE MCServices ------------------------------
(* Instances of the services' modules for TLC, side by side: a behaviour   *)
(* is one of one of the parts, the others rest in their initial state.     *)
EXTENDS RateLimit, QuotaGate, UsageCount, Subscription, FailureClusters,
        Alerts, RollingSummary, Accounts

CONSTANTS t1, t2, t3

VARIABLE part   \* the one that moves

\* Batches of the newer workspace that share a trace.
SharedTrace == [b \in Batches |-> {t1}]
Newer == [b \in Batches |-> 2]

\* Two traces that fail alike, and a third that only says the same.
TwoSignatures == [t \in Failing |-> IF t = t3 THEN "b" ELSE "a"]
SaysTheSame == {<<"a", "b">>}

\* Two turns that overlap: the first goes on after the second has begun.
Overlapping == [x \in Spans |-> IF x = 2 THEN t2 ELSE t1]

Parts == {"limit", "gate", "usage", "billing", "clusters", "alerts", "summary", "accounts"}

ServicesInit ==
    /\ part \in Parts
    /\ RateInit /\ QuotaInit /\ UsageInit /\ SubscriptionInit
    /\ ClusterInit /\ AlertInit /\ SummaryInit /\ AccountInit

\* Only the variables of the part change.
Rest(moving) ==
    /\ UNCHANGED part
    /\ moving # "limit" => UNCHANGED rateVars
    /\ moving # "gate" => UNCHANGED quotaVars
    /\ moving # "usage" => UNCHANGED usageVars
    /\ moving # "billing" => UNCHANGED subscriptionVars
    /\ moving # "clusters" => UNCHANGED clusterVars
    /\ moving # "alerts" => UNCHANGED alertVars
    /\ moving # "summary" => UNCHANGED summaryVars
    /\ moving # "accounts" => UNCHANGED accountVars

ServicesNext ==
    \/ part = "limit" /\ RateNext /\ Rest("limit")
    \/ part = "gate" /\ QuotaNext /\ Rest("gate")
    \/ part = "usage" /\ UsageNext /\ Rest("usage")
    \/ part = "billing" /\ SubscriptionNext /\ Rest("billing")
    \/ part = "clusters" /\ ClusterNext /\ Rest("clusters")
    \/ part = "alerts" /\ AlertNext /\ Rest("alerts")
    \/ part = "summary" /\ SummaryNext /\ Rest("summary")
    \/ part = "accounts" /\ AccountNext /\ Rest("accounts")

servicesVars ==
    <<part, rateVars, quotaVars, usageVars, subscriptionVars, clusterVars, alertVars,
      summaryVars, accountVars>>

\* The fair actions of a part are disabled while it rests.
ServicesSpec ==
    /\ ServicesInit /\ [][ServicesNext]_servicesVars
    /\ RateFairness /\ QuotaFairness

-----------------------------------------------------------------------------
\* Every part's variables have the values its code gives them.
ServicesTypeOK ==
    /\ RateTypeOK /\ QuotaTypeOK /\ UsageTypeOK /\ SubscriptionTypeOK
    /\ ClusterTypeOK /\ AlertTypeOK /\ SummaryTypeOK /\ AccountTypeOK
=============================================================================
