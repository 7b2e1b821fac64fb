SPECIFICATION ServicesSpec
CONSTANTS
    Requests = {r1, r2, r3}
    PerMinute = 2
    MaxHits = 4
    MaxWindows = 2
    Posts = {p1, p2}
    Months = 2
    MaxCounted = 1
    MaxPlanChanges = 1
    FreeLimit = 1
    ProLimit = 2
    t1 = t1
    t2 = t2
    t3 = t3
    Workspaces = {1, 2}
    Traces = {t1}
    Batches = {b1, b2}
    TracesOf <- SharedTrace
    WorkspaceOf <- Newer
    Deleters = {d1, d2}
    CountedMonths = 2
    Checkouts = {c1, c2}
    NoId = NoId
    Handlers = {h1}
    MaxStripeChanges = 1
    InOrder = TRUE
    Failing = {t1, t2, t3}
    SignatureOf <- TwoSignatures
    Alike <- SaysTheSame
    Evaluators = {e1, e2}
    MaxClusters = 1
    NoTrace = NoTrace
    Channels = {mc}
    Flows = {mf}
    Runs = {q1, q2}
    MinInterval = 2
    MaxNow = 3
    MaxStarts = 2
    Spans = {1, 2, 3}
    TraceOf <- Overlapping
    Builders = {s1, s2}
    Users = {u1, u2}
    Companies = {acme}
    WorkspaceIds = {w1, w2, w3}
    InviteIds = {i1, i2}
    Slots = {n1, n2}
    SeatLimit = 2
    WorkspaceLimit = 2
    MaxOrganizations = 1
    MaxCalls = 4
    Nobody = Nobody
    Nothing = Nothing
INVARIANTS
    ServicesTypeOK
    AdmittedWithinLimit
    RefusalJustified
    NeverOvercounts
    ExactWithoutFaults
    SettledPlanIsRight
    CountFollowsMembers
    OneAlertPerCluster
    QuietWithinInterval
    RecordedFiringActed
    OnlyLateSpansMissing
    SeatsWithinCap
    OrgKeepsOwnerAndWorkspace
    NobodyStranded
PROPERTIES
    RefusalsEnd
    UpgradeOpensGate
    UnlimitedKept
    JoinsByPendingInvite
CHECK_DEADLOCK FALSE
