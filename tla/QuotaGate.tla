------------------------------- MODULE QuotaGate -------------------------------
(***************************************************************************)
(* The gate in front of POST /v1/traces (quota_gate in                     *)
(* services/quota_service.py): a request is refused when the month's       *)
(* traces of its organization reach the cap of the organization's plan.    *)
(* Both come from a Redis cache that lives a minute, or from two           *)
(* statements of Postgres, and meanwhile traces are counted, the plan      *)
(* changes and the month ends.  Any error lets the request through.        *)
(***************************************************************************)
EXTENDS Naturals

CONSTANTS
    Posts,               \* requests that are under way at once
    Months,              \* bound: months
    MaxCounted,          \* bound: traces counted in a month
    MaxPlanChanges,      \* bound: changes of the plan
    FreeLimit, ProLimit  \* settings.free_trace_limit, .pro_trace_limit

ASSUME QuotaAssumption ==
    /\ Months \in Nat \ {0}
    /\ MaxCounted \in Nat /\ MaxPlanChanges \in Nat
    /\ FreeLimit \in Nat /\ ProLimit \in Nat

VARIABLES
    month,     \* the current period
    plan,      \* the organization's plan
    changes,   \* of the plan, so far
    counted,   \* [month -> traces counted, over all of its workspaces]
    cached,    \* [month -> the cache entry of that period: a set of none or one]
    post,      \* [Posts -> a request at the gate]
    inForce    \* the caps that have been in force

quotaVars == <<month, plan, changes, counted, cached, post, inForce>>

Periods == 1..Months
Plans == {"free", "pro", "unlimited"}

\* A cap is the set of its one limit, or empty when uncapped.
Caps == {{}, {FreeLimit}, {ProLimit}}

\* trace_limit_for
TraceLimitFor(p) ==
    IF p = "unlimited" THEN {} ELSE IF p = "pro" THEN {ProLimit} ELSE {FreeLimit}

Entry(used, cap, ttl) == [used |-> used, cap |-> cap, ttl |-> ttl]

Entries == [used : Nat, cap : Caps, ttl : BOOLEAN]

NotHere == [at |-> "away", period |-> 1, used |-> 0, cap |-> {}]

QuotaTypeOK ==
    /\ month \in Periods
    /\ plan \in Plans
    /\ changes \in 0..MaxPlanChanges
    /\ counted \in [Periods -> Nat]
    /\ cached \in [Periods -> SUBSET Entries]
    /\ post \in [Posts ->
         [at : {"away", "lookup", "plan", "sum", "store", "decide", "refused"},
          period : Periods, used : Nat, cap : Caps]]
    /\ inForce \subseteq Caps

QuotaInit ==
    /\ month = 1
    /\ plan = "free" /\ changes = 0
    /\ counted = [m \in Periods |-> 0]
    /\ cached = [m \in Periods |-> {}]
    /\ post = [p \in Posts |-> NotHere]
    /\ inForce = {TraceLimitFor("free")}

outside == <<month, plan, changes, counted, inForce>>

-----------------------------------------------------------------------------
(* What happens beside the gate                                            *)

\* usage_increment, by a worker that may have asked for the period before the
\* month ended.
CountTrace(m) ==
    /\ m <= month
    /\ counted[m] < MaxCounted
    /\ counted' = [counted EXCEPT ![m] = @ + 1]
    /\ UNCHANGED <<month, plan, changes, cached, post, inForce>>

\* A Stripe event or an operator sets the plan.
ChangePlan(p) ==
    /\ changes < MaxPlanChanges
    /\ p # plan
    /\ plan' = p /\ changes' = changes + 1
    /\ inForce' = inForce \cup {TraceLimitFor(p)}
    /\ UNCHANGED <<month, counted, cached, post>>

MonthEnds ==
    /\ month < Months
    /\ month' = month + 1
    /\ UNCHANGED <<plan, changes, counted, cached, post, inForce>>

CacheExpires(m) ==
    /\ \E e \in cached[m] : e.ttl
    /\ cached' = [cached EXCEPT ![m] = {}]
    /\ UNCHANGED <<outside, post>>

-----------------------------------------------------------------------------
(* The gate                                                                *)

BeginPost(p) ==
    /\ post[p].at = "away"
    /\ post' = [post EXCEPT ![p].at = "lookup", ![p].period = month]
    /\ UNCHANGED <<outside, cached>>

\* The cached decision, if there is one and Redis answers.
Lookup(p) ==
    /\ post[p].at = "lookup"
    /\ \/ \E e \in cached[post[p].period] :
            post' = [post EXCEPT ![p].at = "decide",
                                 ![p].used = e.used, ![p].cap = e.cap]
       \/ post' = [post EXCEPT ![p].at = "plan"]
    /\ UNCHANGED <<outside, cached>>

\* _usage_from_pg, first statement: the plan, and from it the limit.
ReadPlan(p) ==
    /\ post[p].at = "plan"
    /\ post' = [post EXCEPT ![p].at = "sum", ![p].cap = TraceLimitFor(plan)]
    /\ UNCHANGED <<outside, cached>>

\* mutant: asks for the current month again.
ReadSum_Now(p) ==
    /\ post[p].at = "sum"
    /\ post' = [post EXCEPT ![p].at = "store", ![p].used = counted[month]]
    /\ UNCHANGED <<outside, cached>>

\* _usage_from_pg, second statement: the sum over the workspaces.
ReadSum(p) ==
    /\ post[p].at = "sum"
    /\ post' = [post EXCEPT ![p].at = "store",
                            ![p].used = counted[post[p].period]]
    /\ UNCHANGED <<outside, cached>>

\* mutant: set without ex.
Store_Forever(p) ==
    /\ post[p].at = "store"
    /\ post' = [post EXCEPT ![p].at = "decide"]
    /\ cached' = [cached EXCEPT ![post[p].period] =
                    {Entry(post[p].used, post[p].cap, FALSE)}]
    /\ UNCHANGED outside

\* The snapshot is cached for a minute; an error of Redis is passed over.
Store(p) ==
    /\ post[p].at = "store"
    /\ post' = [post EXCEPT ![p].at = "decide"]
    /\ cached' \in {cached, [cached EXCEPT ![post[p].period] =
                               {Entry(post[p].used, post[p].cap, TRUE)}]}
    /\ UNCHANGED outside

Decide429(p) ==
    /\ post[p].at = "decide"
    /\ post' = [post EXCEPT ![p] =
         IF \E limit \in @.cap : @.used >= limit
         THEN [@ EXCEPT !.at = "refused"] ELSE NotHere]
    /\ UNCHANGED <<outside, cached>>

\* Postgres fails: fail open.
PostgresFails(p) ==
    /\ post[p].at \in {"plan", "sum"}
    /\ post' = [post EXCEPT ![p] = NotHere]
    /\ UNCHANGED <<outside, cached>>

Refused(p) ==
    /\ post[p].at = "refused"
    /\ post' = [post EXCEPT ![p] = NotHere]
    /\ UNCHANGED <<outside, cached>>

GateStep(p) ==
    Lookup(p) \/ ReadPlan(p) \/ ReadSum(p) \/ Store(p) \/ Decide429(p) \/ Refused(p)

QuotaNext ==
    \/ \E m \in Periods : CountTrace(m) \/ CacheExpires(m)
    \/ \E q \in Plans : ChangePlan(q)
    \/ MonthEnds
    \/ \E p \in Posts : BeginPost(p) \/ GateStep(p) \/ PostgresFails(p)

QuotaSpec == QuotaInit /\ [][QuotaNext]_quotaVars

\* Redis expires the entry; a request at the gate goes on.
QuotaFairness ==
    /\ \A m \in Periods : WF_quotaVars(CacheExpires(m))
    /\ \A p \in Posts : WF_quotaVars(GateStep(p) \/ PostgresFails(p))

QuotaFairSpec == QuotaSpec /\ QuotaFairness

-----------------------------------------------------------------------------
\* Whatever is cached, by whom and when, a request is refused only for a limit
\* that was in force, reached by the traces of the month it was asked for: no
\* entry of another month, no limit paired with a count that never was.
RefusalJustified ==
    \A p \in Posts : post[p].at = "refused" =>
        /\ post[p].cap \in inForce
        /\ \A limit \in post[p].cap : counted[post[p].period] >= limit

UnderCap == \A m \in Periods, limit \in TraceLimitFor(plan) : counted[m] < limit

\* After an upgrade that puts the organization below its cap for good, the
\* refusals end: what was cached before, and what requests then under way still
\* cache, expires.
UpgradeOpensGate ==
    <>[]UnderCap => <>[](\A p \in Posts : post[p].at # "refused")
=============================================================================
