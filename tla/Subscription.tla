------------------------------ MODULE Subscription ------------------------------
(***************************************************************************)
(* The plan of one organization (services/billing_service.py).  Checkout   *)
(* mints URLs; the plan follows the events Stripe sends of the             *)
(* subscriptions those URLs open.  Events are delivered at least once, in  *)
(* any order unless InOrder, and handled side by side, each handler on the *)
(* row as its session loaded it.                                           *)
(***************************************************************************)
EXTENDS Naturals, Sequences, FiniteSets

CONSTANTS
    Checkouts,         \* requests for a checkout URL
    NoId,              \* no such id
    Handlers,          \* webhook requests under way at once
    MaxStripeChanges,  \* bound: status changes of subscriptions at Stripe
    InOrder            \* events arrive one after the other, as they were made

ASSUME SubscriptionAssumption ==
    /\ NoId \notin Checkouts
    /\ IsFiniteSet(Checkouts)
    /\ MaxStripeChanges \in Nat
    /\ InOrder \in BOOLEAN

VARIABLES
    org,        \* the columns of the organization's row that billing uses
    checkout,   \* [Checkouts -> where it is, and the customer it goes on with]
    stripe,     \* [Checkouts -> status of the subscription its URL opened]
    made,       \* status changes at Stripe so far
    events,     \* the events Stripe has made, oldest first
    handled,    \* those answered with 200, as positions in events
    handler,    \* [Handlers -> the event it handles, and the row it loaded]
    crossed     \* the operator's grant fell between a handler's load and commit

subscriptionVars ==
    <<org, checkout, stripe, made, events, handled, handler, crossed>>

\* A customer and a subscription are named by the checkout that created them.
Ids == Checkouts \cup {NoId}

\* "trialing" counts as "active", and what else Stripe says as "unpaid".
Paid == {"active", "past_due"}
Statuses == Paid \cup {"unpaid", "canceled"}
NoStatus == "none"

\* plan_for_subscription_status
PlanFor(status) == IF status \in Paid THEN "pro" ELSE "free"

Rows == [customer : Ids, sub : Ids, status : Statuses \cup {NoStatus},
         plan : {"free", "pro", "unlimited"}]

FreshRow == [customer |-> NoId, sub |-> NoId, status |-> NoStatus, plan |-> "free"]

Events == [type : {"completed", "subscription"}, sub : Checkouts, customer : Checkouts,
           status : Statuses]

Idle == [event |-> 0, row |-> FreshRow]

SubscriptionTypeOK ==
    /\ org \in Rows
    /\ checkout \in [Checkouts ->
         [at : {"none", "loaded", "customer", "open", "over"}, customer : Ids]]
    /\ stripe \in [Checkouts -> Statuses \cup {NoStatus}]
    /\ made \in 0..MaxStripeChanges
    /\ events \in Seq(Events)
    /\ handled \subseteq 1..Len(events)
    /\ handler \in [Handlers -> [event : 0..Len(events), row : Rows]]
    /\ crossed \in BOOLEAN

SubscriptionInit ==
    /\ org = FreshRow
    /\ checkout = [c \in Checkouts |-> [at |-> "none", customer |-> NoId]]
    /\ stripe = [c \in Checkouts |-> NoStatus]
    /\ made = 0
    /\ events = <<>> /\ handled = {}
    /\ handler = [h \in Handlers |-> Idle]
    /\ crossed = FALSE

\* SQLAlchemy's UPDATE: the columns whose value is not the one that was loaded.
Written(loaded, new, row) ==
    [k \in DOMAIN row |-> IF new[k] # loaded[k] THEN new[k] ELSE row[k]]

-----------------------------------------------------------------------------
(* create_checkout_session                                                 *)

\* The row is loaded; an organization with a paid subscription is refused.
LoadForCheckout(c) ==
    /\ checkout[c].at = "none"
    /\ org.status \notin Paid
    /\ checkout' = [checkout EXCEPT ![c] = [at |-> "loaded", customer |-> org.customer]]
    /\ UNCHANGED <<org, stripe, made, events, handled, handler, crossed>>

\* The row had no customer: one is created at Stripe, stored and committed.
CreateCustomer(c) ==
    /\ checkout[c].at = "loaded"
    /\ checkout[c].customer = NoId
    /\ org' = [org EXCEPT !.customer = c]
    /\ checkout' = [checkout EXCEPT ![c] = [at |-> "customer", customer |-> c]]
    /\ UNCHANGED <<stripe, made, events, handled, handler, crossed>>

\* checkout.Session.create: there is a URL now.
CreateSession(c) ==
    /\ checkout[c].at \in {"loaded", "customer"}
    /\ checkout[c].customer # NoId
    /\ checkout' = [checkout EXCEPT ![c].at = "open"]
    /\ UNCHANGED <<org, stripe, made, events, handled, handler, crossed>>

-----------------------------------------------------------------------------
(* Stripe, and an operator                                                 *)

SubscriptionEvent(c, status) ==
    [type |-> "subscription", sub |-> c, customer |-> checkout[c].customer,
     status |-> status]

\* The customer pays: a subscription, and two events, in either order.
Pay(c) ==
    LET completed == [SubscriptionEvent(c, "active") EXCEPT !.type = "completed"]
        updated == SubscriptionEvent(c, "active")
    IN /\ checkout[c].at = "open"
       /\ checkout' = [checkout EXCEPT ![c].at = "over"]
       /\ stripe' = [stripe EXCEPT ![c] = "active"]
       /\ events' \in {events \o <<completed, updated>>, events \o <<updated, completed>>}
       /\ UNCHANGED <<org, made, handled, handler, crossed>>

\* A card fails or recovers, dunning gives up, the customer cancels.
StatusChanges(c, status) ==
    /\ made < MaxStripeChanges
    /\ stripe[c] \notin {NoStatus, "canceled", status}
    /\ stripe' = [stripe EXCEPT ![c] = status]
    /\ made' = made + 1
    /\ events' = Append(events, SubscriptionEvent(c, status))
    /\ UNCHANGED <<org, checkout, handled, handler, crossed>>

\* An operator's SQL.
GrantUnlimited ==
    /\ org.plan # "unlimited"
    /\ org' = [org EXCEPT !.plan = "unlimited"]
    /\ crossed' = (\E h \in Handlers : handler[h].event # 0)
    /\ UNCHANGED <<checkout, stripe, made, events, handled, handler>>

-----------------------------------------------------------------------------
(* handle_webhook_event                                                    *)

\* What is delivered: anything, again and again; in order, what comes next or
\* once more what came last.
Deliverable(i) ==
    \/ ~InOrder
    \/ /\ \A h \in Handlers : handler[h].event = 0
       /\ handled = 1..(i - 1) \/ handled = 1..i

\* The row is found, by client_reference_id, or by the customer and else by the
\* metadata of the subscription: the organization's own in each case.
Load(h, i) ==
    /\ handler[h].event = 0
    /\ Deliverable(i)
    /\ handler' = [handler EXCEPT ![h] = [event |-> i, row |-> org]]
    /\ UNCHANGED <<org, checkout, stripe, made, events, handled, crossed>>

\* mutant: the operator's plan is not looked at.
Applied_Always(row, e) ==
    [customer |-> e.customer, sub |-> e.sub, status |-> e.status,
     plan |-> PlanFor(e.status)]

\* _apply_subscription
Applied(row, e) ==
    [customer |-> e.customer, sub |-> e.sub, status |-> e.status,
     plan |-> IF row.plan = "unlimited" THEN row.plan ELSE PlanFor(e.status)]

\* mutant: the plan is left for a canceled subscription.
Apply_Keep(h) ==
    LET e == events[handler[h].event]
        row == handler[h].row
        new == Applied(row, e)
    IN /\ handler[h].event # 0
       /\ org' = Written(row, IF e.status = "canceled" THEN [new EXCEPT !.plan = row.plan]
                              ELSE new, org)
       /\ handled' = handled \cup {handler[h].event}
       /\ handler' = [handler EXCEPT ![h] = Idle]
       /\ UNCHANGED <<checkout, stripe, made, events, crossed>>

\* The row is committed, and 200.
Apply(h) ==
    LET e == events[handler[h].event]
        row == handler[h].row
    IN /\ handler[h].event # 0
       /\ org' = Written(row, Applied(row, e), org)
       /\ handled' = handled \cup {handler[h].event}
       /\ handler' = [handler EXCEPT ![h] = Idle]
       /\ UNCHANGED <<checkout, stripe, made, events, crossed>>

\* Any error is a 5xx, and Stripe delivers again.
HandlerFails(h) ==
    /\ handler[h].event # 0
    /\ handler' = [handler EXCEPT ![h] = Idle]
    /\ UNCHANGED <<org, checkout, stripe, made, events, handled, crossed>>

SubscriptionNext ==
    \/ \E c \in Checkouts :
         \/ LoadForCheckout(c) \/ CreateCustomer(c) \/ CreateSession(c) \/ Pay(c)
         \/ \E status \in Statuses : StatusChanges(c, status)
    \/ GrantUnlimited
    \/ \E h \in Handlers :
         \/ \E i \in 1..Len(events) : Load(h, i)
         \/ Apply(h) \/ HandlerFails(h)

SubscriptionSpec == SubscriptionInit /\ [][SubscriptionNext]_subscriptionVars

-----------------------------------------------------------------------------
Subscribed == {c \in Checkouts : stripe[c] # NoStatus}

\* Every event has been handled, and nobody is at work.
BillingSettled ==
    /\ handled = 1..Len(events)
    /\ \A h \in Handlers : handler[h].event = 0

\* With all its events handled, an organization with one subscription has the
\* plan that the subscription's status at Stripe pays for, whatever was
\* replayed, failed or left half done.
SettledPlanIsRight ==
    BillingSettled /\ org.plan # "unlimited" =>
        /\ Subscribed = {} => org.plan = "free"
        /\ \A c \in Checkouts : Subscribed = {c} => org.plan = PlanFor(stripe[c])

\* An operator's unlimited plan outlives every event, short of one that was
\* between its load and its commit when the plan was granted.
UnlimitedKept ==
    [][org.plan = "unlimited" /\ ~crossed => org'.plan = "unlimited"]_subscriptionVars
=============================================================================
