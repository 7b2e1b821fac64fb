SPECIFICATION SubscriptionSpec
CONSTANTS
    Checkouts = {c1}
    NoId = NoId
    Handlers = {h1}
    MaxStripeChanges = 1
    InOrder = FALSE
INVARIANTS
    SettledPlanIsRight
CHECK_DEADLOCK FALSE
