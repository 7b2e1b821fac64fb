------------------------------ MODULE Limits_proof ------------------------------
(***************************************************************************)
(* Theorems about the limits on requests, what is counted against them,    *)
(* and the plan that sets them.  RateLimit: for every finite set of        *)
(* requests, every limit and every number of windows.  QuotaGate: for      *)
(* every number of requests and months and every pair of limits.           *)
(* UsageCount: for every finite set of workspaces, traces and batches,     *)
(* any number of deletions and of months.  Subscription: for every set of  *)
(* checkouts and of webhook requests, every number of changes at Stripe    *)
(* and either order of events.                                             *)
(***************************************************************************)
EXTENDS RateLimit, QuotaGate, UsageCount, Subscription, FiniteSetTheorems,
        SequenceTheorems, SumTheorems, TLAPS

-----------------------------------------------------------------------------
(* The rate limit, and the gate of the monthly quota                       *)

\* The requests that INCR told that they are within the limit of window w, and
\* that have not been answered.
Promised(w) ==
    {r \in Requests : /\ request[r].at \in {"expire", "decide"}
                      /\ request[r].win = w /\ request[r].n <= PerMinute}

\* Those let through and those that will be never exceed the limit.
NotOverpromised ==
    \A w \in Windows : admitted[w] + Cardinality(Promised(w)) <= PerMinute

\* In the present window each of them is one of the requests that were counted.
EachWasCounted ==
    \A w \in Windows :
        w = window => admitted[w] + Cardinality(Promised(w)) <= count

\* No window that has not begun was promised to, or has admitted, anyone.
NothingOfLaterWindows ==
    \A w \in Windows : w > window => admitted[w] = 0 /\ Promised(w) = {}

RateInv == RateTypeOK /\ NotOverpromised /\ EachWasCounted /\ NothingOfLaterWindows

-----------------------------------------------------------------------------
\* The first state is well typed.
LEMMA RateInitType ==
    ASSUME RateInit
    PROVE  RateTypeOK
  <1>1. 1 \in Windows
    BY RateAssumption DEF Windows
  <1>2. Away \in [at : {"away", "expire", "decide"}, n : Nat, win : Windows]
    BY <1>1 DEF Away
  <1> QED
    BY <1>1, <1>2 DEF RateInit, RateTypeOK

\* Every step keeps the types.
LEMMA RateTypeStep ==
    ASSUME RateTypeOK, [RateNext]_rateVars
    PROVE  RateTypeOK'
  <1> USE RateAssumption DEF RateTypeOK, Windows
  <1>1. CASE UNCHANGED rateVars
    BY <1>1 DEF rateVars
  <1>2. CASE WindowEnds
    <2>1. window' \in Windows
      BY <1>2 DEF WindowEnds
    <2>2. /\ count' \in Nat /\ expiring' \in BOOLEAN
          /\ UNCHANGED <<request, admitted, orphaned>>
      BY <1>2 DEF WindowEnds
    <2> QED
      BY <2>1, <2>2
  <1>3. ASSUME NEW r \in Requests, Incr(r)
        PROVE  RateTypeOK'
    BY <1>3 DEF Incr
  <1>4. ASSUME NEW r \in Requests, SetExpiry(r)
        PROVE  RateTypeOK'
    BY <1>4 DEF SetExpiry
  <1>5. ASSUME NEW r \in Requests, ExpiryLost(r)
        PROVE  RateTypeOK'
    BY <1>5 DEF ExpiryLost, Leaves, Away
  <1>6. ASSUME NEW r \in Requests, Decide(r)
        PROVE  RateTypeOK'
    BY <1>6 DEF Decide, Leaves, Away
  <1>7. ASSUME NEW r \in Requests, RequestDies(r)
        PROVE  RateTypeOK'
    BY <1>7 DEF RequestDies, Leaves, Away
  <1> QED
    BY <1>1, <1>2, <1>3, <1>4, <1>5, <1>6, <1>7 DEF RateNext

\* Sets of requests are finite, so that they can be counted.
LEMMA PromisedCount ==
    ASSUME NEW w
    PROVE  IsFiniteSet(Promised(w)) /\ Cardinality(Promised(w)) \in Nat
  <1>1. Promised(w) \subseteq Requests
    BY DEF Promised
  <1> QED
    BY <1>1, RateAssumption, FS_Subset, FS_CardinalityType

\* The same of the set after the step.
LEMMA PromisedCountNext ==
    ASSUME NEW w
    PROVE  IsFiniteSet(Promised(w)') /\ Cardinality(Promised(w)') \in Nat
  <1>1. Promised(w)' \subseteq Requests
    BY DEF Promised
  <1> QED
    BY <1>1, RateAssumption, FS_Subset, FS_CardinalityType

\* A step that promises nothing new and admits nobody keeps the three facts.
LEMMA NothingNew ==
    ASSUME RateInv, RateTypeOK', UNCHANGED <<count, window, admitted>>,
           \A w \in Windows : Promised(w)' \subseteq Promised(w)
    PROVE  NotOverpromised' /\ EachWasCounted' /\ NothingOfLaterWindows'
  <1>1. \A w \in Windows : /\ Cardinality(Promised(w)') <= Cardinality(Promised(w))
                           /\ Cardinality(Promised(w)') \in Nat
                           /\ Cardinality(Promised(w)) \in Nat
    BY PromisedCount, PromisedCountNext, FS_Subset
  <1>2. window \in Windows /\ PerMinute \in Nat /\ count \in Nat
        /\ admitted \in [Windows -> Nat]
    BY RateAssumption DEF RateInv, RateTypeOK
  <1>3. NotOverpromised'
    BY <1>1, <1>2 DEF RateInv, NotOverpromised
  <1>4. EachWasCounted'
    BY <1>1, <1>2 DEF RateInv, EachWasCounted
  <1>5. NothingOfLaterWindows'
    BY <1>1, <1>2 DEF RateInv, NothingOfLaterWindows
  <1> QED
    BY <1>3, <1>4, <1>5

-----------------------------------------------------------------------------
\* The window begins with nobody promised or admitted anything.
LEMMA RateInitInv ==
    ASSUME RateInit
    PROVE  RateInv
  <1>1. RateTypeOK
    BY RateInitType
  <1>2. \A w \in Windows : Promised(w) = {} /\ admitted[w] = 0
    BY DEF RateInit, Promised, Away
  <1>3. \A w \in Windows : Cardinality(Promised(w)) = 0
    BY <1>2, FS_EmptySet
  <1>4. PerMinute \in Nat /\ window \in Windows /\ count = 0
    BY <1>1, RateAssumption DEF RateInit, RateTypeOK
  <1> QED
    BY <1>1, <1>2, <1>3, <1>4
       DEF RateInv, NotOverpromised, EachWasCounted, NothingOfLaterWindows

\* INCR promises to the request that it counted at most, in the present window,
\* and then the count grows as well.
LEMMA IncrKeeps ==
    ASSUME RateInv, RateTypeOK', NEW r \in Requests, Incr(r)
    PROVE  NotOverpromised' /\ EachWasCounted' /\ NothingOfLaterWindows'
  <1>1. /\ count' = count + 1 /\ UNCHANGED <<window, admitted>>
        /\ request[r].at = "away"
        /\ request'[r].n = count + 1 /\ request'[r].win = window
        /\ \A q \in Requests : q # r => request'[q] = request[q]
    BY DEF Incr, RateInv, RateTypeOK
  <1>2. window \in Windows /\ PerMinute \in Nat /\ count \in Nat
        /\ admitted \in [Windows -> Nat]
    BY RateAssumption DEF RateInv, RateTypeOK
  <1>3. \A w \in Windows : w # window => Promised(w)' = Promised(w)
    BY <1>1 DEF Promised
  <1>4. PICK v \in Windows : v = window
    BY <1>2
  <1>5. r \notin Promised(v)
    BY <1>1 DEF Promised
  <1>6. \/ Promised(v)' = Promised(v)
        \/ /\ Promised(v)' = Promised(v) \cup {r}
           /\ count + 1 <= PerMinute
    BY <1>1, <1>2, <1>4 DEF Promised
  <1>7. /\ Cardinality(Promised(v)) \in Nat
        /\ Cardinality(Promised(v) \cup {r}) = Cardinality(Promised(v)) + 1
    BY <1>5, PromisedCount, FS_AddElement
  <1>8. admitted[v] + Cardinality(Promised(v)) <= count
        /\ admitted[v] + Cardinality(Promised(v)) <= PerMinute /\ admitted[v] \in Nat
    BY <1>2, <1>4 DEF RateInv, EachWasCounted, NotOverpromised
  <1>9. /\ admitted'[v] + Cardinality(Promised(v)') <= count'
        /\ admitted'[v] + Cardinality(Promised(v)') <= PerMinute
    <2>1. admitted'[v] = admitted[v] /\ count' = count + 1
      BY <1>1
    <2>2. CASE Promised(v)' = Promised(v)
      BY <1>2, <1>7, <1>8, <2>1, <2>2
    <2>3. CASE Promised(v)' = Promised(v) \cup {r} /\ count + 1 <= PerMinute
      BY <1>2, <1>7, <1>8, <2>1, <2>3
    <2> QED
      BY <1>6, <2>2, <2>3
  <1>10. NotOverpromised' /\ EachWasCounted'
    BY <1>1, <1>3, <1>4, <1>9 DEF RateInv, NotOverpromised, EachWasCounted
  <1>11. NothingOfLaterWindows'
    <2>1. \A w \in Windows : w > window => w # window
      BY <1>2 DEF Windows
    <2> QED
      BY <1>1, <1>3, <2>1 DEF RateInv, NothingOfLaterWindows
  <1> QED
    BY <1>10, <1>11

\* An answer admits, at most, one that it was promised to.
LEMMA DecideKeeps ==
    ASSUME RateInv, RateTypeOK', NEW r \in Requests, Decide(r)
    PROVE  NotOverpromised' /\ EachWasCounted' /\ NothingOfLaterWindows'
  <1>1. /\ UNCHANGED <<window, count>>
        /\ request[r].at = "decide" /\ request'[r].at = "away"
        /\ \A q \in Requests : q # r => request'[q] = request[q]
    BY DEF Decide, Leaves, Away, RateInv, RateTypeOK
  <1>2. /\ window \in Windows /\ PerMinute \in Nat /\ count \in Nat
        /\ admitted \in [Windows -> Nat] /\ request[r].win \in Windows
        /\ request[r].n \in Nat
    BY RateAssumption DEF RateInv, RateTypeOK
  <1> PICK v \in Windows : v = request[r].win
    BY <1>2
  <1>3. \A w \in Windows : Promised(w)' = Promised(w) \ {r}
    BY <1>1 DEF Promised
  <1>4. CASE OverLimit(request[r].n)
    <2>1. UNCHANGED <<count, window, admitted>>
      BY <1>1, <1>4 DEF Decide
    <2> QED
      BY <1>3, <2>1, NothingNew
  <1>5. CASE ~OverLimit(request[r].n)
    <2>1. admitted' = [admitted EXCEPT ![v] = @ + 1]
      BY <1>5 DEF Decide
    <2>2. r \in Promised(v)
      BY <1>1, <1>2, <1>5 DEF OverLimit, Promised
    <2>3. /\ Cardinality(Promised(v)) \in Nat
          /\ Cardinality(Promised(v)') = Cardinality(Promised(v)) - 1
      BY <1>2, <1>3, <2>2, PromisedCount, FS_RemoveElement
    <2>4. \A w \in Windows : w # v => /\ r \notin Promised(w)
                                      /\ Promised(w)' = Promised(w)
                                      /\ admitted'[w] = admitted[w]
      BY <1>2, <1>3, <2>1 DEF Promised
    <2>5. admitted'[v] = admitted[v] + 1
      BY <1>2, <2>1
    <2>6. \A w \in Windows : admitted'[w] + Cardinality(Promised(w)')
                             = admitted[w] + Cardinality(Promised(w))
      <3>1. admitted[v] \in Nat
        BY <1>2
      <3>2. admitted'[v] + Cardinality(Promised(v)')
            = admitted[v] + Cardinality(Promised(v))
        BY <2>3, <2>5, <3>1
      <3> QED
        BY <2>4, <3>2
    <2>7. NotOverpromised'
      BY <1>1, <2>6 DEF RateInv, NotOverpromised
    <2>8. EachWasCounted'
      BY <1>1, <1>2, <2>6 DEF RateInv, EachWasCounted
    <2>9. ~(v > window)
      BY <1>2, <2>2 DEF RateInv, NothingOfLaterWindows
    <2>10. NothingOfLaterWindows'
      BY <1>1, <1>2, <2>4, <2>9 DEF RateInv, NothingOfLaterWindows
    <2> QED
      BY <2>7, <2>8, <2>10
  <1> QED
    BY <1>4, <1>5

\* A new window counts from none.
LEMMA WindowEndsKeeps ==
    ASSUME RateInv, RateTypeOK', WindowEnds
    PROVE  NotOverpromised' /\ EachWasCounted' /\ NothingOfLaterWindows'
  <1>1. /\ count' = 0 /\ window' = window + 1
        /\ UNCHANGED <<request, admitted>> /\ window' \in Windows
    BY DEF WindowEnds, RateTypeOK
  <1>2. \A w : Promised(w)' = Promised(w)
    BY <1>1 DEF Promised
  <1>3. window \in Windows /\ window \in Nat /\ \A w \in Windows : w \in Nat
    BY DEF RateInv, RateTypeOK, Windows
  <1>4. \A w \in Windows : w = window' => admitted[w] = 0 /\ Promised(w) = {}
    BY <1>1, <1>3 DEF RateInv, NothingOfLaterWindows
  <1>5. Cardinality({}) = 0
    BY FS_EmptySet
  <1>6. NotOverpromised'
    BY <1>1, <1>2 DEF RateInv, NotOverpromised
  <1>7. EachWasCounted'
    BY <1>1, <1>2, <1>4, <1>5 DEF EachWasCounted
  <1>8. NothingOfLaterWindows'
    BY <1>1, <1>2, <1>3 DEF RateInv, NothingOfLaterWindows
  <1> QED
    BY <1>6, <1>7, <1>8

\* Every step keeps the invariant.
LEMMA RateInvStep ==
    ASSUME RateInv, [RateNext]_rateVars
    PROVE  RateInv'
  <1>1. RateTypeOK'
    BY RateTypeStep DEF RateInv
  <1>2. CASE UNCHANGED rateVars
    <2>1. \A w \in Windows : Promised(w)' \subseteq Promised(w)
      BY <1>2 DEF rateVars, Promised
    <2> QED
      BY <1>1, <1>2, <2>1, NothingNew DEF rateVars, RateInv
  <1>3. CASE WindowEnds
    BY <1>1, <1>3, WindowEndsKeeps DEF RateInv
  <1>4. ASSUME NEW r \in Requests, Incr(r)
        PROVE  RateInv'
    BY <1>1, <1>4, IncrKeeps DEF RateInv
  <1>5. ASSUME NEW r \in Requests, SetExpiry(r)
        PROVE  RateInv'
    <2>1. \A w \in Windows : Promised(w)' \subseteq Promised(w)
      BY <1>5 DEF SetExpiry, Promised, RateInv, RateTypeOK
    <2> QED
      BY <1>1, <1>5, <2>1, NothingNew DEF SetExpiry, RateInv
  <1>6. ASSUME NEW r \in Requests, ExpiryLost(r) \/ RequestDies(r)
        PROVE  RateInv'
    <2>1. /\ request' = [request EXCEPT ![r] = Away]
          /\ UNCHANGED <<count, window, admitted>>
      BY <1>6 DEF ExpiryLost, RequestDies, Leaves
    <2>2. \A w \in Windows : Promised(w)' \subseteq Promised(w)
      BY <2>1 DEF Promised, Away, RateInv, RateTypeOK
    <2> QED
      BY <1>1, <2>1, <2>2, NothingNew DEF RateInv
  <1>7. ASSUME NEW r \in Requests, Decide(r)
        PROVE  RateInv'
    BY <1>1, <1>7, DecideKeeps DEF RateInv
  <1> QED
    BY <1>2, <1>3, <1>4, <1>5, <1>6, <1>7 DEF RateNext

-----------------------------------------------------------------------------
\* The window's key, the requests and the counters of what was let through stay
\* well typed (hits and limit in api/ratelimit.py).
THEOREM RateTypes == RateSpec => []RateTypeOK
  <1>1. RateInit => RateTypeOK
    BY RateInitType
  <1>2. RateTypeOK /\ [RateNext]_rateVars => RateTypeOK'
    BY RateTypeStep
  <1> QED
    BY <1>1, <1>2, PTL DEF RateSpec

\* However many requests are between their INCR and their answer, no window lets
\* more of those it counted through than the limit (hits and limit in
\* api/ratelimit.py).
THEOREM LimitHolds == RateSpec => []AdmittedWithinLimit
  <1>1. RateInit => RateInv
    BY RateInitInv
  <1>2. RateInv /\ [RateNext]_rateVars => RateInv'
    BY RateInvStep
  <1>3. RateInv => AdmittedWithinLimit
    <2> SUFFICES ASSUME RateInv, NEW w \in Windows
                 PROVE  admitted[w] <= PerMinute
      BY DEF AdmittedWithinLimit
    <2>1. admitted[w] + Cardinality(Promised(w)) <= PerMinute
          /\ Cardinality(Promised(w)) \in Nat /\ admitted[w] \in Nat
          /\ PerMinute \in Nat
      BY PromisedCount, RateAssumption DEF RateInv, NotOverpromised, RateTypeOK
    <2> QED
      BY <2>1
  <1> QED
    BY <1>1, <1>2, <1>3, PTL DEF RateSpec

-----------------------------------------------------------------------------
(* QuotaGate *)

PostRecords ==
    [at : {"away", "lookup", "plan", "sum", "store", "decide", "refused"},
     period : Periods, used : Nat, cap : Caps]

\* The plan's limit is one that is in force.
PlanInForce == TraceLimitFor(plan) \in inForce

\* What is cached for a month was read in it: traces it counts, a limit in force.
CacheIsPast ==
    \A m \in Periods : \A e \in cached[m] : e.used <= counted[m] /\ e.cap \in inForce

\* The same of what a request has read: the limit first, then the traces; and a
\* request that is refused had reached the one by the other.
IsPast(q) ==
    /\ q.at \in {"sum", "store", "decide", "refused"} => q.cap \in inForce
    /\ q.at \in {"store", "decide", "refused"} => q.used <= counted[q.period]
    /\ q.at = "refused" => \E limit \in q.cap : q.used >= limit

PostIsPast == \A p \in Posts : IsPast(post[p])

QuotaInv == QuotaTypeOK /\ PlanInForce /\ CacheIsPast /\ PostIsPast

-----------------------------------------------------------------------------
\* The limit of a plan is a cap.
LEMMA LimitType == \A p : TraceLimitFor(p) \in Caps
  BY DEF TraceLimitFor, Caps

\* A request whose place, month, count or cap is another is a request.
LEMMA PostType ==
    ASSUME NEW p \in PostRecords, NEW a \in {"away", "lookup", "plan", "sum",
                                             "store", "decide", "refused"},
           NEW m \in Periods, NEW u \in Nat, NEW c \in Caps
    PROVE  /\ [p EXCEPT !.at = a] \in PostRecords
           /\ [p EXCEPT !.at = a, !.period = m] \in PostRecords
           /\ [p EXCEPT !.at = a, !.used = u] \in PostRecords
           /\ [p EXCEPT !.at = a, !.cap = c] \in PostRecords
           /\ [p EXCEPT !.at = a, !.used = u, !.cap = c] \in PostRecords
  BY DEF PostRecords

\* A request that is not there is a request.
LEMMA NotHereType == NotHere \in PostRecords
  BY QuotaAssumption DEF NotHere, PostRecords, Periods, Caps

\* The first state is well typed.
LEMMA QuotaInitType ==
    ASSUME QuotaInit
    PROVE  QuotaTypeOK
  <1>1. 1 \in Periods /\ 0 \in 0..MaxPlanChanges /\ "free" \in Plans
    BY QuotaAssumption DEF Periods, Plans
  <1>2. inForce \subseteq Caps
    BY LimitType DEF QuotaInit
  <1>3. post \in [Posts -> PostRecords]
    BY NotHereType DEF QuotaInit
  <1> QED
    BY <1>1, <1>2, <1>3 DEF QuotaInit, QuotaTypeOK, PostRecords

\* What the gate does to one request and, for one month, to the cache.
AtGate(p, new, m, entries) ==
    /\ post' = [post EXCEPT ![p] = new]
    /\ cached' \in {cached, [cached EXCEPT ![m] = entries]}
    /\ UNCHANGED outside

\* If both are of the past, all is.
LEMMA AtGateKeeps ==
    ASSUME QuotaInv, NEW p \in Posts, NEW new \in PostRecords, IsPast(new),
           NEW m \in Periods, NEW entries \in SUBSET Entries,
           \A e \in entries : e.used <= counted[m] /\ e.cap \in inForce,
           AtGate(p, new, m, entries)
    PROVE  QuotaInv'
  <1>1. UNCHANGED <<month, plan, changes, counted, inForce>>
    BY DEF AtGate, outside
  <1>2. /\ post \in [Posts -> PostRecords] /\ cached \in [Periods -> SUBSET Entries]
        /\ post' = [post EXCEPT ![p] = new]
        /\ cached' = cached \/ cached' = [cached EXCEPT ![m] = entries]
    BY DEF QuotaInv, QuotaTypeOK, PostRecords, AtGate
  <1>3. post' \in [Posts -> PostRecords] /\ cached' \in [Periods -> SUBSET Entries]
    BY <1>2
  <1>4. QuotaTypeOK'
    BY <1>1, <1>3 DEF QuotaInv, QuotaTypeOK, PostRecords
  <1>5. PlanInForce'
    BY <1>1 DEF QuotaInv, PlanInForce, TraceLimitFor
  <1>6. CacheIsPast'
    BY <1>1, <1>2 DEF QuotaInv, CacheIsPast
  <1>7. PostIsPast'
    BY <1>1, <1>2 DEF QuotaInv, PostIsPast, IsPast
  <1> QED
    BY <1>4, <1>5, <1>6, <1>7 DEF QuotaInv

\* What a request at the gate is, and what is cached for its month.
LEMMA PostFacts ==
    ASSUME QuotaInv, NEW p \in Posts
    PROVE  /\ post[p] \in PostRecords /\ post[p].period \in Periods
           /\ post[p].cap \in Caps /\ post[p].used \in Nat
           /\ IsPast(post[p])
           /\ \A m \in Periods : counted[m] \in Nat /\ cached[m] \in SUBSET Entries
  BY DEF QuotaInv, QuotaTypeOK, PostIsPast, PostRecords

\* A step of a request that leaves the cache alone.
LEMMA OnlyThePost ==
    ASSUME QuotaInv, NEW p \in Posts, NEW new \in PostRecords, IsPast(new),
           post' = [post EXCEPT ![p] = new], UNCHANGED <<outside, cached>>
    PROVE  QuotaInv'
  <1>1. AtGate(p, new, post[p].period, {})
    BY DEF AtGate
  <1> QED
    BY <1>1, PostFacts, AtGateKeeps

\* The requests' own steps.
LEMMA PostStep ==
    ASSUME QuotaInv, NEW p \in Posts,
           BeginPost(p) \/ GateStep(p) \/ PostgresFails(p)
    PROVE  QuotaInv'
  <1> DEFINE q == post[p]
  <1>0. /\ q \in PostRecords /\ q.period \in Periods /\ q.cap \in Caps /\ q.used \in Nat
        /\ IsPast(q)
        /\ \A m \in Periods : counted[m] \in Nat /\ cached[m] \in SUBSET Entries
    BY PostFacts
  <1>1. IsPast(NotHere)
    BY DEF IsPast, NotHere
  <1>2. CASE BeginPost(p)
    <2>1. month \in Periods
      BY DEF QuotaInv, QuotaTypeOK
    <2>2. post' = [post EXCEPT ![p] = [q EXCEPT !.at = "lookup", !.period = month]]
      BY <1>2 DEF BeginPost
    <2>3. [q EXCEPT !.at = "lookup", !.period = month] \in PostRecords
      BY <1>0, <2>1, PostType
    <2>4. IsPast([q EXCEPT !.at = "lookup", !.period = month])
      BY <1>0 DEF IsPast, PostRecords
    <2> QED
      BY <1>2, <2>2, <2>3, <2>4, OnlyThePost DEF BeginPost
  <1>3. CASE Lookup(p)
    <2>1. ASSUME NEW e \in cached[q.period],
                 post' = [post EXCEPT ![p].at = "decide",
                                      ![p].used = e.used, ![p].cap = e.cap]
          PROVE  QuotaInv'
      <3>1. e \in Entries /\ e.used \in Nat /\ e.cap \in Caps
            /\ e.used <= counted[q.period] /\ e.cap \in inForce
        BY <1>0, <2>1 DEF Entries, QuotaInv, CacheIsPast
      <3>2. post' = [post EXCEPT ![p] =
                       [q EXCEPT !.at = "decide", !.used = e.used, !.cap = e.cap]]
        BY <2>1
      <3>3. [q EXCEPT !.at = "decide", !.used = e.used, !.cap = e.cap] \in PostRecords
        BY <1>0, <3>1, PostType
      <3>4. IsPast([q EXCEPT !.at = "decide", !.used = e.used, !.cap = e.cap])
        BY <1>0, <3>1 DEF IsPast, PostRecords
      <3> QED
        BY <1>3, <3>2, <3>3, <3>4, OnlyThePost DEF Lookup
    <2>2. ASSUME post' = [post EXCEPT ![p].at = "plan"]
          PROVE  QuotaInv'
      <3>1. [q EXCEPT !.at = "plan"] \in PostRecords
        BY <1>0, PostType
      <3>2. IsPast([q EXCEPT !.at = "plan"])
        BY <1>0 DEF IsPast, PostRecords
      <3>3. post' = [post EXCEPT ![p] = [q EXCEPT !.at = "plan"]]
        BY <2>2
      <3> QED
        BY <1>3, <3>1, <3>2, <3>3, OnlyThePost DEF Lookup
    <2> QED
      BY <1>3, <2>1, <2>2 DEF Lookup
  <1>4. CASE ReadPlan(p)
    <2> DEFINE new == [q EXCEPT !.at = "sum", !.cap = TraceLimitFor(plan)]
    <2>1. post' = [post EXCEPT ![p] = new]
      BY <1>4 DEF ReadPlan
    <2>2. TraceLimitFor(plan) \in Caps /\ TraceLimitFor(plan) \in inForce
      BY LimitType DEF QuotaInv, PlanInForce
    <2>3. new \in PostRecords
      BY <1>0, <2>2, PostType
    <2>4. IsPast(new)
      BY <1>0, <2>2 DEF IsPast, PostRecords
    <2> QED
      BY <1>4, <2>1, <2>3, <2>4, OnlyThePost DEF ReadPlan
  <1>5. CASE ReadSum(p)
    <2> DEFINE new == [q EXCEPT !.at = "store", !.used = counted[q.period]]
    <2>1. post' = [post EXCEPT ![p] = new] /\ q.at = "sum"
      BY <1>5 DEF ReadSum
    <2>2. new \in PostRecords
      BY <1>0, PostType
    <2>3. IsPast(new)
      BY <1>0, <2>1 DEF IsPast, PostRecords
    <2> QED
      BY <1>5, <2>1, <2>2, <2>3, OnlyThePost DEF ReadSum
  <1>6. CASE Store(p)
    <2> DEFINE new == [q EXCEPT !.at = "decide"]
               entries == {Entry(q.used, q.cap, TRUE)}
    <2>1. q.at = "store" /\ AtGate(p, new, q.period, entries)
      BY <1>6 DEF Store, AtGate
    <2>2. new \in PostRecords
      BY <1>0, PostType
    <2>3. q.used <= counted[q.period] /\ q.cap \in inForce
      BY <1>0, <2>1 DEF IsPast
    <2>4. IsPast(new)
      BY <1>0, <2>3 DEF IsPast, PostRecords
    <2>5. /\ entries \in SUBSET Entries
          /\ \A e \in entries : e.used <= counted[q.period] /\ e.cap \in inForce
      BY <1>0, <2>3 DEF Entry, Entries
    <2> HIDE DEF new, entries
    <2> QED
      BY <1>0, <2>1, <2>2, <2>4, <2>5, AtGateKeeps
  <1>7. CASE Decide429(p)
    <2>1. CASE \E limit \in q.cap : q.used >= limit
      <3>1. post' = [post EXCEPT ![p] = [q EXCEPT !.at = "refused"]] /\ q.at = "decide"
        BY <1>7, <2>1 DEF Decide429
      <3>2. [q EXCEPT !.at = "refused"] \in PostRecords
        BY <1>0, PostType
      <3>3. IsPast([q EXCEPT !.at = "refused"])
        BY <1>0, <2>1, <3>1 DEF IsPast, PostRecords
      <3> QED
        BY <1>7, <3>1, <3>2, <3>3, OnlyThePost DEF Decide429
    <2>2. CASE ~\E limit \in q.cap : q.used >= limit
      <3>1. post' = [post EXCEPT ![p] = NotHere]
        BY <1>7, <2>2 DEF Decide429
      <3> QED
        BY <1>1, <1>7, <3>1, NotHereType, OnlyThePost DEF Decide429
    <2> QED
      BY <2>1, <2>2
  <1>8. CASE PostgresFails(p) \/ Refused(p)
    BY <1>1, <1>8, NotHereType, OnlyThePost DEF PostgresFails, Refused
  <1> QED
    BY <1>2, <1>3, <1>4, <1>5, <1>6, <1>7, <1>8 DEF GateStep

-----------------------------------------------------------------------------
\* Traces are counted, never uncounted.
LEMMA CountKeeps ==
    ASSUME QuotaInv, NEW n \in Periods, CountTrace(n)
    PROVE  QuotaInv'
  <1>1. /\ counted \in [Periods -> Nat] /\ counted' = [counted EXCEPT ![n] = @ + 1]
        /\ UNCHANGED <<month, plan, changes, cached, post, inForce>>
    BY DEF QuotaInv, QuotaTypeOK, CountTrace
  <1>2. \A m \in Periods : \A u \in Nat : u <= counted[m] => u <= counted'[m]
    BY <1>1
  <1>3. QuotaTypeOK'
    BY <1>1 DEF QuotaInv, QuotaTypeOK
  <1>4. PlanInForce'
    BY <1>1 DEF QuotaInv, PlanInForce, TraceLimitFor
  <1>5. CacheIsPast'
    BY <1>1, <1>2 DEF QuotaInv, QuotaTypeOK, CacheIsPast, Entries
  <1>6. PostIsPast'
    <2> SUFFICES ASSUME NEW p \in Posts
                 PROVE  IsPast(post[p])'
      BY DEF PostIsPast
    <2>1. post[p].used \in Nat /\ post[p].period \in Periods /\ IsPast(post[p])
      BY PostFacts
    <2> QED
      BY <1>1, <1>2, <2>1 DEF IsPast
  <1> QED
    BY <1>3, <1>4, <1>5, <1>6 DEF QuotaInv

\* A new plan's limit is in force, as those before it were.
LEMMA PlanKeeps ==
    ASSUME QuotaInv, NEW new \in Plans, ChangePlan(new)
    PROVE  QuotaInv'
  <1>1. /\ plan' = new /\ inForce' = inForce \cup {TraceLimitFor(new)}
        /\ UNCHANGED <<month, counted, cached, post>>
        /\ changes < MaxPlanChanges /\ changes' = changes + 1
    BY DEF ChangePlan
  <1>2. changes' \in 0..MaxPlanChanges
    BY <1>1, QuotaAssumption DEF QuotaInv, QuotaTypeOK
  <1>3. QuotaTypeOK'
    BY <1>1, <1>2, LimitType DEF QuotaInv, QuotaTypeOK
  <1>4. PlanInForce'
    BY <1>1 DEF PlanInForce, TraceLimitFor
  <1>5. CacheIsPast'
    BY <1>1 DEF QuotaInv, CacheIsPast
  <1>6. PostIsPast'
    BY <1>1 DEF QuotaInv, PostIsPast, IsPast
  <1> QED
    BY <1>3, <1>4, <1>5, <1>6 DEF QuotaInv

\* Every step keeps the invariant.
LEMMA QuotaInvStep ==
    ASSUME QuotaInv, [QuotaNext]_quotaVars
    PROVE  QuotaInv'
  <1>1. CASE UNCHANGED quotaVars
    BY <1>1 DEF quotaVars, QuotaInv, QuotaTypeOK, PlanInForce, TraceLimitFor,
                CacheIsPast, PostIsPast, IsPast
  <1>2. CASE MonthEnds
    <2>1. month' \in Periods
      BY <1>2, QuotaAssumption DEF MonthEnds, Periods, QuotaInv, QuotaTypeOK
    <2> QED
      BY <1>2, <2>1 DEF MonthEnds, QuotaInv, QuotaTypeOK, PlanInForce, TraceLimitFor,
                        CacheIsPast, PostIsPast, IsPast
  <1>3. ASSUME NEW m \in Periods, CacheExpires(m)
        PROVE  QuotaInv'
    BY <1>3 DEF CacheExpires, outside, QuotaInv, QuotaTypeOK, PlanInForce,
                TraceLimitFor, CacheIsPast, PostIsPast, IsPast
  <1>4. ASSUME NEW m \in Periods, CountTrace(m)
        PROVE  QuotaInv'
    BY <1>4, CountKeeps
  <1>5. ASSUME NEW q \in Plans, ChangePlan(q)
        PROVE  QuotaInv'
    BY <1>5, PlanKeeps
  <1>6. ASSUME NEW p \in Posts, BeginPost(p) \/ GateStep(p) \/ PostgresFails(p)
        PROVE  QuotaInv'
    BY <1>6, PostStep
  <1> QED
    BY <1>1, <1>2, <1>3, <1>4, <1>5, <1>6 DEF QuotaNext

\* The first state satisfies it.
LEMMA QuotaInitInv ==
    ASSUME QuotaInit
    PROVE  QuotaInv
  <1>1. QuotaTypeOK
    BY QuotaInitType
  <1>2. PlanInForce /\ CacheIsPast
    BY DEF QuotaInit, PlanInForce, CacheIsPast
  <1>3. PostIsPast
    BY DEF QuotaInit, PostIsPast, IsPast, NotHere
  <1> QED
    BY <1>1, <1>2, <1>3 DEF QuotaInv

-----------------------------------------------------------------------------
\* The counters, the cache of quota_gate and the requests at it stay well typed:
\* what is cached is a count and a cap (services/quota_service.py).
THEOREM QuotaTypes == QuotaSpec => []QuotaTypeOK
  <1>1. QuotaInit => QuotaInv
    BY QuotaInitInv
  <1>2. QuotaInv /\ [QuotaNext]_quotaVars => QuotaInv'
    BY QuotaInvStep
  <1>3. QuotaInv => QuotaTypeOK
    BY DEF QuotaInv
  <1> QED
    BY <1>1, <1>2, <1>3, PTL DEF QuotaSpec

\* Whatever is cached, by whom and when, quota_gate refuses a request only for a
\* limit that was in force and that the traces of its month have reached.
THEOREM RefusalsAreJustified == QuotaSpec => []RefusalJustified
  <1>1. QuotaInit => QuotaInv
    BY QuotaInitInv
  <1>2. QuotaInv /\ [QuotaNext]_quotaVars => QuotaInv'
    BY QuotaInvStep
  <1>3. QuotaInv => RefusalJustified
    <2> SUFFICES ASSUME QuotaInv, NEW p \in Posts, post[p].at = "refused"
                 PROVE  /\ post[p].cap \in inForce
                        /\ \A limit \in post[p].cap : counted[post[p].period] >= limit
      BY DEF RefusalJustified
    <2>1. /\ IsPast(post[p]) /\ post[p].cap \in Caps /\ post[p].used \in Nat
          /\ counted[post[p].period] \in Nat
      BY PostFacts
    <2>2. post[p].cap \in inForce /\ post[p].used <= counted[post[p].period]
      BY <2>1 DEF IsPast
    <2>3. PICK limit \in post[p].cap : post[p].used >= limit
      BY <2>1 DEF IsPast
    <2>4. \A l \in post[p].cap : l = limit /\ l \in Nat
      BY <2>1, <2>3, QuotaAssumption DEF Caps
    <2> QED
      BY <2>1, <2>2, <2>3, <2>4
  <1> QED
    BY <1>1, <1>2, <1>3, PTL DEF QuotaSpec

-----------------------------------------------------------------------------
(* The monthly counter                                                     *)

\* The least of some workspaces is one of them.
LEMMA OldestIsThere ==
    ASSUME NEW S \in SUBSET Workspaces, S # {}
    PROVE  Min(S) \in S
  <1> DEFINE upto(a) == {z \in S : z <= a}
             B == {upto(a) : a \in S}
  <1>1. IsFiniteSet(S) /\ \A z \in S : z \in Nat
    BY UsageAssumption, FS_Subset
  <1>2. PICK T \in B : \A U \in B : U \subseteq T => U = T
    <2>1. B \in SUBSET (SUBSET S) /\ B # {}
      OBVIOUS
    <2> HIDE DEF B
    <2> QED
      BY <1>1, <2>1, SmallestSubset
  <1>3. PICK x \in S : T = upto(x)
    BY <1>2
  <1>4. ASSUME NEW y \in S, ~(x <= y)
        PROVE  FALSE
    <2>1. y < x /\ \A z \in S : z <= y => z <= x
      BY <1>1, <1>4
    <2>2. upto(y) \subseteq upto(x) /\ x \in upto(x) /\ x \notin upto(y)
      BY <1>1, <1>4, <2>1
    <2> QED
      BY <1>2, <1>3, <2>2
  <1> QED
    BY <1>4 DEF Min

\* A request to delete works on a workspace and others to inherit from it; the
\* counters it has read are no more than what the workspace still has.
DeletionSound(d) ==
    /\ deletion[d].at \in {"siblings", "rows"} =>
         deletion[d].heirs # {} /\ deletion[d].of \notin deletion[d].heirs
    /\ deletion[d].at = "rows" /\ deletion[d].of \in alive =>
         \A m \in CounterMonths : deletion[d].rows[m] <= used[deletion[d].of][m]

UsageInv ==
    /\ UsageTypeOK
    /\ \A d \in Deleters : DeletionSound(d)
    /\ \A w \in Workspaces \ alive : used[w] = NoneUsed
    /\ \A b \in Batches : batch[b].at # "counting" => batch[b].n = 0
    /\ NeverOvercounts /\ ExactWithoutFaults

\* What SeenIn, UsedIn and AboutIn are the sums of.
SeenBy(m) == [w \in Workspaces |-> Cardinality(seen[w][m])]
UsedBy(m) == [w \in Workspaces |-> used[w][m]]
AboutBy(m) == [b \in Batches |-> IF batch[b].period = m THEN batch[b].n ELSE 0]

\* They are counters.
LEMMA CountersType ==
    ASSUME UsageTypeOK, NEW m \in CounterMonths
    PROVE  /\ SeenBy(m) \in [Workspaces -> Nat] /\ UsedBy(m) \in [Workspaces -> Nat]
           /\ AboutBy(m) \in [Batches -> Nat]
           /\ SeenIn(m) \in Nat /\ UsedIn(m) \in Nat /\ AboutIn(m) \in Nat
  <1>1. \A w \in Workspaces : Cardinality(seen[w][m]) \in Nat
    <2> SUFFICES ASSUME NEW w \in Workspaces PROVE Cardinality(seen[w][m]) \in Nat
      OBVIOUS
    <2>1. seen[w][m] \subseteq Traces
      BY DEF UsageTypeOK
    <2> QED
      BY <2>1, UsageAssumption, FS_Subset, FS_CardinalityType
  <1>2. SeenBy(m) \in [Workspaces -> Nat] /\ UsedBy(m) \in [Workspaces -> Nat]
        /\ AboutBy(m) \in [Batches -> Nat]
    BY <1>1 DEF UsageTypeOK, SeenBy, UsedBy, AboutBy
  <1>3. SumFunction(SeenBy(m)) \in Nat /\ SumFunction(UsedBy(m)) \in Nat
        /\ SumFunction(AboutBy(m)) \in Nat
    BY <1>2, UsageAssumption, SumType
  <1> QED
    BY <1>2, <1>3 DEF SeenBy, UsedBy, AboutBy, SeenIn, UsedIn, AboutIn

\* What a step adds to the count it adds to what was seen, or less; it is the
\* same unless the step is one that loses or doubles a count.
Balanced ==
    /\ lost => lost'
    /\ doubled => doubled'
    /\ \A m \in CounterMonths :
         doubled' \/ /\ CountedIn(m)' + SeenIn(m) <= CountedIn(m) + SeenIn(m)'
                     /\ lost' \/ CountedIn(m)' + SeenIn(m) = CountedIn(m) + SeenIn(m)'

\* The totals are natural numbers.
LEMMA TotalsType ==
    UsageTypeOK => \A m \in CounterMonths :
        /\ SeenIn(m) \in Nat /\ CountedIn(m) \in Nat
        /\ UsedIn(m) \in Nat /\ AboutIn(m) \in Nat
  BY CountersType DEF CountedIn

LEMMA TotalsTypeNext ==
    ASSUME UsageTypeOK'
    PROVE  \A m \in CounterMonths :
             /\ SeenIn(m)' \in Nat /\ CountedIn(m)' \in Nat
             /\ UsedIn(m)' \in Nat /\ AboutIn(m)' \in Nat
  <1>1. (UsageTypeOK => \A m \in CounterMonths :
            /\ SeenIn(m) \in Nat /\ CountedIn(m) \in Nat
            /\ UsedIn(m) \in Nat /\ AboutIn(m) \in Nat)'
    BY TotalsType, PTL
  <1> QED
    BY <1>1 DEF CounterMonths

\* Then the totals stay right.
LEMMA BalancedKeeps ==
    ASSUME UsageTypeOK, UsageTypeOK', NeverOvercounts, ExactWithoutFaults, Balanced
    PROVE  NeverOvercounts' /\ ExactWithoutFaults'
  <1>1. \A m \in CounterMonths : SeenIn(m) \in Nat /\ CountedIn(m) \in Nat
    BY TotalsType
  <1>2. \A m \in CounterMonths : SeenIn(m)' \in Nat /\ CountedIn(m)' \in Nat
    BY TotalsTypeNext
  <1>3. NeverOvercounts'
    BY <1>1, <1>2 DEF Balanced, NeverOvercounts, CounterMonths
  <1>4. ExactWithoutFaults'
    BY <1>1, <1>2 DEF Balanced, ExactWithoutFaults, CounterMonths
  <1> QED
    BY <1>3, <1>4

-----------------------------------------------------------------------------
\* At first nothing is counted.
LEMMA UsageInitInv == UsageInit => UsageInv
  <1> SUFFICES ASSUME UsageInit PROVE UsageInv
    OBVIOUS
  <1>1. Min(Workspaces) \in Workspaces /\ 1 \in CounterMonths
    BY UsageAssumption, OldestIsThere DEF CounterMonths
  <1>2. NoneUsed \in [CounterMonths -> Nat]
    BY DEF NoneUsed
  <1>3. UsageTypeOK
    <2>1. NoDeletion \in [at : {"none", "siblings", "rows", "done"}, of : Workspaces,
                          heirs : SUBSET Workspaces, rows : [CounterMonths -> Nat]]
      BY <1>1, <1>2 DEF NoDeletion
    <2>2. Queued \in [at : {"queued", "ingested", "counting", "done"},
                      period : CounterMonths, n : Nat]
      BY <1>1 DEF Queued
    <2> QED
      BY <1>1, <1>2, <2>1, <2>2 DEF UsageInit, UsageTypeOK
  <1>4. \A d \in Deleters : DeletionSound(d)
    BY DEF UsageInit, DeletionSound, NoDeletion
  <1>5. ASSUME NEW m \in CounterMonths
        PROVE  CountedIn(m) = SeenIn(m)
    <2>1. \A w \in Workspaces : seen[w][m] = {} /\ used[w][m] = 0
      BY DEF UsageInit, NoneUsed
    <2>2. SumFunction(SeenBy(m)) = 0
      <3>1. \A w \in Workspaces : SeenBy(m)[w] = 0
        BY <2>1, FS_EmptySet DEF SeenBy
      <3>2. DOMAIN SeenBy(m) = Workspaces
        BY DEF SeenBy
      <3> QED
        BY <3>1, <3>2, UsageAssumption, SumZero
    <2>3. SumFunction(UsedBy(m)) = 0
      <3>1. \A w \in Workspaces : UsedBy(m)[w] = 0
        BY <2>1 DEF UsedBy
      <3>2. DOMAIN UsedBy(m) = Workspaces
        BY DEF UsedBy
      <3> QED
        BY <3>1, <3>2, UsageAssumption, SumZero
    <2>4. SumFunction(AboutBy(m)) = 0
      <3>1. \A b \in Batches : AboutBy(m)[b] = 0
        BY DEF AboutBy, UsageInit, Queued
      <3>2. DOMAIN AboutBy(m) = Batches
        BY DEF AboutBy
      <3> QED
        BY <3>1, <3>2, UsageAssumption, SumZero
    <2> QED
      BY <2>2, <2>3, <2>4 DEF SeenBy, UsedBy, AboutBy, SeenIn, UsedIn, AboutIn, CountedIn
  <1>6. NeverOvercounts /\ ExactWithoutFaults
    <2>1. \A m \in CounterMonths : SeenIn(m) \in Nat
      BY <1>3, TotalsType
    <2> QED
      BY <1>5, <2>1 DEF NeverOvercounts, ExactWithoutFaults
  <1> QED
    BY <1>3, <1>4, <1>6 DEF UsageInit, UsageInv, Queued

\* How many new ids a batch has.
LEMMA NewIdsCount ==
    ASSUME UsageTypeOK, NEW w \in Workspaces, NEW m \in CounterMonths, NEW T \in SUBSET Traces
    PROVE  /\ Cardinality(NewIds(w, m, T)) \in Nat
           /\ Cardinality(seen[w][m]) \in Nat
           /\ Cardinality(seen[w][m] \cup T)
                = Cardinality(seen[w][m]) + Cardinality(NewIds(w, m, T))
  <1>1. seen[w][m] \subseteq Traces /\ IsFiniteSet(Traces)
    BY UsageAssumption DEF UsageTypeOK
  <1>2. IsFiniteSet(seen[w][m]) /\ IsFiniteSet(NewIds(w, m, T))
    BY <1>1, FS_Subset DEF NewIds
  <1>3. seen[w][m] \cap NewIds(w, m, T) = {}
        /\ seen[w][m] \cup NewIds(w, m, T) = seen[w][m] \cup T
    BY DEF NewIds
  <1>4. Cardinality({}) = 0
    BY FS_EmptySet
  <1>5. Cardinality(seen[w][m]) \in Nat /\ Cardinality(NewIds(w, m, T)) \in Nat
    BY <1>2, FS_CardinalityType
  <1>6. Cardinality(seen[w][m] \cup NewIds(w, m, T))
          = Cardinality(seen[w][m]) + Cardinality(NewIds(w, m, T))
            - Cardinality(seen[w][m] \cap NewIds(w, m, T))
    BY <1>2, FS_Union
  <1>7. Cardinality(seen[w][m] \cap NewIds(w, m, T)) = 0
    BY <1>3, <1>4
  <1>8. Cardinality(seen[w][m] \cup NewIds(w, m, T)) = Cardinality(seen[w][m] \cup T)
    BY <1>3
  <1> QED
    BY <1>5, <1>6, <1>7, <1>8

\* A total changes by as much as the one counter that changes.
LEMMA UsedChange ==
    ASSUME UsageTypeOK, UsageTypeOK', NEW m \in CounterMonths, NEW w \in Workspaces,
           \A v \in Workspaces \ {w} : used'[v] = used[v]
    PROVE  UsedIn(m)' + used[w][m] = UsedIn(m) + used'[w][m]
  <1> DEFINE f == [v \in Workspaces |-> used[v][m]]
             g == [v \in Workspaces |-> used'[v][m]]
  <1>1. f \in [Workspaces -> Nat] /\ g \in [Workspaces -> Nat]
    <2>1. used \in [Workspaces -> [CounterMonths -> Nat]]
          /\ used' \in [Workspaces -> [CounterMonths -> Nat]]
      BY DEF UsageTypeOK, CounterMonths
    <2> QED
      BY <2>1
  <1>2. \A v \in Workspaces \ {w} : f[v] = g[v]
    OBVIOUS
  <1>3. f[w] = used[w][m] /\ g[w] = used'[w][m]
    OBVIOUS
  <1>4. UsedIn(m) = SumFunction(f) /\ UsedIn(m)' = SumFunction(g)
    BY DEF UsedIn
  <1>5. IsFiniteSet(Workspaces)
    BY UsageAssumption
  <1> HIDE DEF f, g
  <1>6. SumFunction(g) + f[w] = SumFunction(f) + g[w]
    BY <1>1, <1>2, <1>5, SumChange
  <1> QED
    BY <1>3, <1>4, <1>6

LEMMA SeenChange ==
    ASSUME UsageTypeOK, UsageTypeOK', NEW m \in CounterMonths, NEW w \in Workspaces,
           \A v \in Workspaces \ {w} : seen'[v] = seen[v]
    PROVE  SeenIn(m)' + Cardinality(seen[w][m]) = SeenIn(m) + Cardinality(seen'[w][m])
  <1> DEFINE f == [v \in Workspaces |-> Cardinality(seen[v][m])]
             g == [v \in Workspaces |-> Cardinality(seen'[v][m])]
  <1>1. f \in [Workspaces -> Nat] /\ g \in [Workspaces -> Nat]
    <2>1. seen \in [Workspaces -> [CounterMonths -> SUBSET Traces]]
          /\ seen' \in [Workspaces -> [CounterMonths -> SUBSET Traces]]
      BY DEF UsageTypeOK, CounterMonths
    <2>2. \A T \in SUBSET Traces : Cardinality(T) \in Nat
      BY UsageAssumption, FS_Subset, FS_CardinalityType
    <2> QED
      BY <2>1, <2>2
  <1>2. \A v \in Workspaces \ {w} : f[v] = g[v]
    OBVIOUS
  <1>3. f[w] = Cardinality(seen[w][m]) /\ g[w] = Cardinality(seen'[w][m])
    OBVIOUS
  <1>4. SeenIn(m) = SumFunction(f) /\ SeenIn(m)' = SumFunction(g)
    BY DEF SeenIn
  <1>5. IsFiniteSet(Workspaces)
    BY UsageAssumption
  <1> HIDE DEF f, g
  <1>6. SumFunction(g) + f[w] = SumFunction(f) + g[w]
    BY <1>1, <1>2, <1>5, SumChange
  <1> QED
    BY <1>3, <1>4, <1>6

\* What the task of a batch is about to count for a month.
About(b, m) == IF batch[b].period = m THEN batch[b].n ELSE 0

LEMMA AboutChange ==
    ASSUME UsageTypeOK, UsageTypeOK', NEW m \in CounterMonths, NEW b \in Batches,
           \A c \in Batches \ {b} : batch'[c] = batch[c]
    PROVE  /\ AboutIn(m)' + About(b, m) = AboutIn(m) + About(b, m)'
           /\ About(b, m) \in Nat /\ About(b, m)' \in Nat
  <1> DEFINE f == [c \in Batches |-> IF batch[c].period = m THEN batch[c].n ELSE 0]
             g == [c \in Batches |-> IF batch'[c].period = m THEN batch'[c].n ELSE 0]
  <1>1. f \in [Batches -> Nat] /\ g \in [Batches -> Nat]
    <2>1. \A c \in Batches : batch[c].n \in Nat /\ batch'[c].n \in Nat
      BY DEF UsageTypeOK
    <2> QED
      BY <2>1
  <1>2. \A c \in Batches \ {b} : f[c] = g[c]
    OBVIOUS
  <1>3. f[b] = About(b, m) /\ g[b] = About(b, m)'
    BY DEF About
  <1>4. AboutIn(m) = SumFunction(f) /\ AboutIn(m)' = SumFunction(g)
    BY DEF AboutIn
  <1>5. IsFiniteSet(Batches)
    BY UsageAssumption
  <1> HIDE DEF f, g
  <1>6. SumFunction(g) + f[b] = SumFunction(f) + g[b]
    BY <1>1, <1>2, <1>5, SumChange
  <1> QED
    BY <1>1, <1>3, <1>4, <1>6

-----------------------------------------------------------------------------
(* Types                                                                   *)

BatchRecords ==
    [at : {"queued", "ingested", "counting", "done"}, period : CounterMonths, n : Nat]

DeletionRecords ==
    [at : {"none", "siblings", "rows", "done"}, of : Workspaces,
     heirs : SUBSET Workspaces, rows : [CounterMonths -> Nat]]

\* A step that gives one batch another record keeps the types, whatever it does
\* to what is seen, used and lost.
LEMMA BatchStepType ==
    ASSUME UsageTypeOK, NEW b \in Batches, NEW r \in BatchRecords,
           batch' = [batch EXCEPT ![b] = r], UNCHANGED <<period, alive, deletion>>,
           seen' \in [Workspaces -> [CounterMonths -> SUBSET Traces]],
           used' \in [Workspaces -> [CounterMonths -> Nat]],
           lost' \in BOOLEAN, doubled' \in BOOLEAN
    PROVE  UsageTypeOK'
  BY DEF UsageTypeOK, BatchRecords, CounterMonths

\* The same for one deletion.
LEMMA DeletionStepType ==
    ASSUME UsageTypeOK, NEW d \in Deleters, NEW r \in DeletionRecords,
           deletion' = [deletion EXCEPT ![d] = r], UNCHANGED <<period, seen, batch>>,
           alive' \subseteq Workspaces,
           used' \in [Workspaces -> [CounterMonths -> Nat]],
           lost' \in BOOLEAN, doubled' \in BOOLEAN
    PROVE  UsageTypeOK'
  BY DEF UsageTypeOK, DeletionRecords, CounterMonths

\* A request that is over has the record it had before, but for that.
LEMMA NoDeletionType ==
    NoDeletion \in DeletionRecords /\ [NoDeletion EXCEPT !.at = "done"] \in DeletionRecords
  <1>1. Min(Workspaces) \in Workspaces
    BY UsageAssumption, OldestIsThere
  <1> QED
    BY <1>1 DEF NoDeletion, DeletionRecords, NoneUsed

\* The month, the batch and the set its ids go to.
LEMMA BatchFacts ==
    ASSUME UsageTypeOK, NEW b \in Batches
    PROVE  /\ batch[b] \in BatchRecords /\ batch[b].period \in CounterMonths
           /\ batch[b].n \in Nat
           /\ WorkspaceOf[b] \in Workspaces /\ TracesOf[b] \in SUBSET Traces
           /\ Queued \in BatchRecords
           /\ batch = [batch EXCEPT ![b] = batch[b]]
  BY UsageAssumption DEF UsageTypeOK, BatchRecords, Queued, CounterMonths

LEMMA DeletionFacts ==
    ASSUME UsageTypeOK, NEW d \in Deleters
    PROVE  /\ deletion[d] \in DeletionRecords /\ deletion[d].of \in Workspaces
           /\ deletion[d].heirs \in SUBSET Workspaces
           /\ deletion[d].rows \in [CounterMonths -> Nat]
  BY DEF UsageTypeOK, DeletionRecords

\* Adding to one counter, or to one set, keeps its kind.
LEMMA AddedType ==
    ASSUME UsageTypeOK, NEW w \in Workspaces, NEW m \in CounterMonths, NEW n \in Nat
    PROVE  /\ Added(used, w, m, n) \in [Workspaces -> [CounterMonths -> Nat]]
           /\ Added(used, w, m, n)[w][m] = used[w][m] + n
           /\ \A k \in CounterMonths \ {m} : Added(used, w, m, n)[w][k] = used[w][k]
           /\ \A v \in Workspaces \ {w} : Added(used, w, m, n)[v] = used[v]
  BY DEF UsageTypeOK, Added

LEMMA MarkedType ==
    ASSUME UsageTypeOK, NEW w \in Workspaces, NEW m \in CounterMonths, NEW T \in SUBSET Traces,
           seen' = [seen EXCEPT ![w][m] = @ \cup T]
    PROVE  /\ seen' \in [Workspaces -> [CounterMonths -> SUBSET Traces]]
           /\ seen'[w][m] = seen[w][m] \cup T
           /\ \A k \in CounterMonths \ {m} : seen'[w][k] = seen[w][k]
           /\ \A v \in Workspaces \ {w} : seen'[v] = seen[v]
  BY DEF UsageTypeOK

\* So does handing the counters of one workspace to another.
LEMMA BequeathedType ==
    ASSUME UsageTypeOK, NEW w \in Workspaces, NEW heir \in Workspaces, heir # w,
           NEW rows \in [CounterMonths -> Nat]
    PROVE  LET u == Bequeathed(used, w, heir, rows)
           IN  /\ u \in [Workspaces -> [CounterMonths -> Nat]]
               /\ u[w] = NoneUsed
               /\ heir \notin alive => u[heir] = used[heir]
               /\ heir \in alive =>
                    \A m \in CounterMonths : u[heir][m] = used[heir][m] + rows[m]
               /\ \A v \in Workspaces \ {w, heir} : u[v] = used[v]
  <1> DEFINE new == IF heir \in alive
                    THEN [m \in CounterMonths |-> used[heir][m] + rows[m]] ELSE used[heir]
  <1>1. used \in [Workspaces -> [CounterMonths -> Nat]]
    BY DEF UsageTypeOK
  <1>2. NoneUsed \in [CounterMonths -> Nat]
    BY DEF NoneUsed
  <1>3. new \in [CounterMonths -> Nat]
    BY <1>1
  <1>4. Bequeathed(used, w, heir, rows) = [used EXCEPT ![w] = NoneUsed, ![heir] = new]
    BY <1>1 DEF Bequeathed
  <1>5. heir \in alive => \A m \in CounterMonths : new[m] = used[heir][m] + rows[m]
    OBVIOUS
  <1>6. heir \notin alive => new = used[heir]
    OBVIOUS
  <1> HIDE DEF new
  <1> QED
    BY <1>1, <1>2, <1>3, <1>4, <1>5, <1>6

-----------------------------------------------------------------------------
(* The task of a batch                                                     *)

\* The numbers that a step compares.
LEMMA StepNumbers ==
    ASSUME UsageTypeOK, UsageTypeOK', NEW w \in Workspaces, NEW m \in CounterMonths
    PROVE  /\ used[w][m] \in Nat /\ used'[w][m] \in Nat
           /\ Cardinality(seen[w][m]) \in Nat /\ Cardinality(seen'[w][m]) \in Nat
           /\ SeenIn(m) \in Nat /\ UsedIn(m) \in Nat /\ AboutIn(m) \in Nat
           /\ SeenIn(m)' \in Nat /\ UsedIn(m)' \in Nat /\ AboutIn(m)' \in Nat
           /\ CountedIn(m) = UsedIn(m) + AboutIn(m)
           /\ CountedIn(m)' = UsedIn(m)' + AboutIn(m)'
  <1>1. used \in [Workspaces -> [CounterMonths -> Nat]]
        /\ seen \in [Workspaces -> [CounterMonths -> SUBSET Traces]]
    BY DEF UsageTypeOK
  <1>2. used' \in [Workspaces -> [CounterMonths -> Nat]]
        /\ seen' \in [Workspaces -> [CounterMonths -> SUBSET Traces]]
    BY DEF UsageTypeOK, CounterMonths
  <1>3. used[w][m] \in Nat /\ used'[w][m] \in Nat
    BY <1>1, <1>2
  <1>4. Cardinality(seen[w][m]) \in Nat /\ Cardinality(seen'[w][m]) \in Nat
    <2>1. seen[w][m] \in SUBSET Traces /\ seen'[w][m] \in SUBSET Traces
      BY <1>1, <1>2
    <2> QED
      BY <2>1, UsageAssumption, FS_Subset, FS_CardinalityType
  <1> QED
    BY <1>3, <1>4, TotalsType, TotalsTypeNext DEF CountedIn

\* A batch, with its workspace, balances if it does so in every month.
LEMMA BatchBalances ==
    ASSUME UsageTypeOK, UsageTypeOK', NEW b \in Batches, NEW w \in Workspaces,
           \A c \in Batches \ {b} : batch'[c] = batch[c],
           \A v \in Workspaces \ {w} : used'[v] = used[v] /\ seen'[v] = seen[v],
           lost => lost', UNCHANGED doubled,
           \A m \in CounterMonths :
             LET more == used'[w][m] + About(b, m)' + Cardinality(seen[w][m])
                 most == used[w][m] + About(b, m) + Cardinality(seen'[w][m])
             IN more <= most /\ (lost' \/ more = most)
    PROVE  Balanced
  <1> SUFFICES ASSUME NEW m \in CounterMonths
               PROVE  /\ CountedIn(m)' + SeenIn(m) <= CountedIn(m) + SeenIn(m)'
                      /\ lost' \/ CountedIn(m)' + SeenIn(m) = CountedIn(m) + SeenIn(m)'
    BY DEF Balanced
  <1>1. UsedIn(m)' + used[w][m] = UsedIn(m) + used'[w][m]
    BY UsedChange
  <1>2. SeenIn(m)' + Cardinality(seen[w][m]) = SeenIn(m) + Cardinality(seen'[w][m])
    BY SeenChange
  <1>3. /\ AboutIn(m)' + About(b, m) = AboutIn(m) + About(b, m)'
        /\ About(b, m) \in Nat /\ About(b, m)' \in Nat
    BY AboutChange
  <1>4. /\ used[w][m] \in Nat /\ used'[w][m] \in Nat
        /\ Cardinality(seen[w][m]) \in Nat /\ Cardinality(seen'[w][m]) \in Nat
        /\ SeenIn(m) \in Nat /\ UsedIn(m) \in Nat /\ AboutIn(m) \in Nat
        /\ SeenIn(m)' \in Nat /\ UsedIn(m)' \in Nat /\ AboutIn(m)' \in Nat
        /\ CountedIn(m) = UsedIn(m) + AboutIn(m)
        /\ CountedIn(m)' = UsedIn(m)' + AboutIn(m)'
    BY StepNumbers
  <1> QED
    BY <1>1, <1>2, <1>3, <1>4

\* No workspace is charged less than before: what a request to delete has read
\* is still there.
LEMMA ReadRowsStay ==
    ASSUME UsageInv, UsageTypeOK', UNCHANGED <<alive, deletion>>,
           NEW w \in Workspaces, \A v \in Workspaces \ {w} : used'[v] = used[v],
           \A m \in CounterMonths : used[w][m] <= used'[w][m],
           NEW d \in Deleters
    PROVE  DeletionSound(d)'
  <1>1. DeletionSound(d)
    BY DEF UsageInv
  <1>2. deletion[d].of \in Workspaces /\ deletion[d].rows \in [CounterMonths -> Nat]
    BY DeletionFacts DEF UsageInv
  <1>3. used \in [Workspaces -> [CounterMonths -> Nat]]
    BY DEF UsageInv, UsageTypeOK
  <1>4. used' \in [Workspaces -> [CounterMonths -> Nat]]
    BY DEF UsageTypeOK, CounterMonths
  <1>5. \A v \in Workspaces : \A m \in CounterMonths : used[v][m] <= used'[v][m]
    BY <1>3, <1>4
  <1>6. ASSUME deletion[d].at = "rows", deletion[d].of \in alive, NEW m \in CounterMonths
        PROVE  deletion[d].rows[m] <= used'[deletion[d].of][m]
    <2>1. deletion[d].rows[m] <= used[deletion[d].of][m]
      BY <1>1, <1>6 DEF DeletionSound
    <2>2. used[deletion[d].of][m] <= used'[deletion[d].of][m]
      BY <1>2, <1>5
    <2>3. deletion[d].rows[m] \in Nat /\ used[deletion[d].of][m] \in Nat
          /\ used'[deletion[d].of][m] \in Nat
      BY <1>2, <1>3, <1>4
    <2> QED
      BY <2>1, <2>2, <2>3
  <1> QED
    BY <1>1, <1>6 DEF DeletionSound, CounterMonths

\* A step of a batch's task gives it a record, and its workspace's set and
\* counters new values; the values balance, or what is missing is lost.
TaskStep(b, w, r, s, u) ==
    /\ batch' = [batch EXCEPT ![b] = r]
    /\ seen' = [seen EXCEPT ![w] = s]
    /\ used' = [used EXCEPT ![w] = u]
    /\ UNCHANGED <<period, alive, deletion, doubled>>
    /\ lost' \in BOOLEAN /\ (lost => lost')
    /\ r.at # "counting" => r.n = 0
    /\ u = used[w] \/ w \in alive
    /\ \A m \in CounterMonths :
         /\ used[w][m] <= u[m]
         /\ LET next == IF r.period = m THEN r.n ELSE 0
                more == u[m] + next + Cardinality(seen[w][m])
                most == used[w][m] + About(b, m) + Cardinality(s[m])
            IN more <= most /\ (lost' \/ more = most)

\* Such a step keeps the invariant.
LEMMA BatchStep ==
    ASSUME UsageInv, NEW b \in Batches, NEW w \in Workspaces, NEW r \in BatchRecords,
           NEW s \in [CounterMonths -> SUBSET Traces], NEW u \in [CounterMonths -> Nat],
           TaskStep(b, w, r, s, u)
    PROVE  UsageInv'
  <1>1. UsageTypeOK
    BY DEF UsageInv
  <1> USE DEF TaskStep
  <1>2. /\ used \in [Workspaces -> [CounterMonths -> Nat]]
        /\ seen \in [Workspaces -> [CounterMonths -> SUBSET Traces]]
        /\ doubled \in BOOLEAN /\ batch \in [Batches -> BatchRecords]
    BY <1>1 DEF UsageTypeOK, BatchRecords
  <1>3. /\ used' \in [Workspaces -> [CounterMonths -> Nat]]
        /\ seen' \in [Workspaces -> [CounterMonths -> SUBSET Traces]]
        /\ used'[w] = u /\ seen'[w] = s
        /\ \A v \in Workspaces \ {w} : used'[v] = used[v] /\ seen'[v] = seen[v]
    BY <1>2
  <1>4. batch'[b] = r /\ \A c \in Batches \ {b} : batch'[c] = batch[c]
    BY <1>2
  <1>5. UsageTypeOK'
    BY <1>1, <1>2, <1>3, BatchStepType
  <1>6. \A m \in CounterMonths : About(b, m)' = IF r.period = m THEN r.n ELSE 0
    BY <1>4 DEF About
  <1>7. Balanced
    BY <1>1, <1>3, <1>4, <1>5, <1>6, BatchBalances
  <1>8. NeverOvercounts' /\ ExactWithoutFaults'
    BY <1>1, <1>5, <1>7, BalancedKeeps DEF UsageInv
  <1>9. \A d \in Deleters : DeletionSound(d)'
    BY <1>3, <1>5, ReadRowsStay
  <1>10. \A v \in Workspaces \ alive' : used'[v] = NoneUsed
    BY <1>3 DEF UsageInv
  <1>11. \A c \in Batches : batch'[c].at # "counting" => batch'[c].n = 0
    BY <1>4 DEF UsageInv
  <1>12. NoneUsed' = NoneUsed
    BY DEF NoneUsed, CounterMonths
  <1> QED
    BY <1>5, <1>8, <1>9, <1>10, <1>11, <1>12 DEF UsageInv

\* What a task's lemma below needs of the state it starts from.
LEMMA BatchState ==
    ASSUME UsageInv, NEW b \in Batches
    PROVE  LET w == WorkspaceOf[b]
               m == batch[b].period
           IN /\ w \in Workspaces /\ m \in CounterMonths
              /\ TracesOf[b] \in SUBSET Traces
              /\ batch[b] \in BatchRecords /\ batch[b].n \in Nat
              /\ period \in CounterMonths /\ lost \in BOOLEAN
              /\ used[w] \in [CounterMonths -> Nat]
              /\ seen[w] \in [CounterMonths -> SUBSET Traces]
              /\ used = [used EXCEPT ![w] = used[w]]
              /\ seen = [seen EXCEPT ![w] = seen[w]]
              /\ \A k \in CounterMonths : Cardinality(seen[w][k]) \in Nat
              /\ batch[b].at # "counting" => batch[b].n = 0
  <1>1. UsageTypeOK
    BY DEF UsageInv
  <1>2. /\ WorkspaceOf[b] \in Workspaces /\ batch[b].period \in CounterMonths
        /\ TracesOf[b] \in SUBSET Traces /\ batch[b] \in BatchRecords /\ batch[b].n \in Nat
    BY <1>1, BatchFacts
  <1>3. /\ used \in [Workspaces -> [CounterMonths -> Nat]]
        /\ seen \in [Workspaces -> [CounterMonths -> SUBSET Traces]]
        /\ period \in CounterMonths /\ lost \in BOOLEAN
    BY <1>1 DEF UsageTypeOK
  <1>4. \A k \in CounterMonths : Cardinality(seen[WorkspaceOf[b]][k]) \in Nat
    BY <1>1, <1>2, NewIdsCount
  <1> QED
    BY <1>2, <1>3, <1>4 DEF UsageInv

\* A task that asks for the month counts nothing.
LEMMA AskPeriodKeeps ==
    ASSUME UsageInv, NEW b \in Batches, AskPeriod(b)
    PROVE  UsageInv'
  <1> DEFINE r == [batch[b] EXCEPT !.at = "ingested", !.period = period]
             w == WorkspaceOf[b]
  <1>1. /\ batch[b].at = "queued" /\ batch' = [batch EXCEPT ![b] = r]
        /\ UNCHANGED <<period, alive, seen, used, deletion, lost, doubled>>
    BY DEF AskPeriod
  <1>2. /\ w \in Workspaces /\ batch[b] \in BatchRecords /\ batch[b].n = 0
        /\ period \in CounterMonths /\ lost \in BOOLEAN
        /\ used[w] \in [CounterMonths -> Nat]
        /\ seen[w] \in [CounterMonths -> SUBSET Traces]
        /\ used = [used EXCEPT ![w] = used[w]] /\ seen = [seen EXCEPT ![w] = seen[w]]
        /\ \A k \in CounterMonths : Cardinality(seen[w][k]) \in Nat
    BY <1>1, BatchState
  <1>3. r \in BatchRecords /\ r.n = 0
    BY <1>2 DEF BatchRecords
  <1>4. \A m \in CounterMonths : About(b, m) = 0
    BY <1>2 DEF About
  <1> HIDE DEF r, w
  <1>5. TaskStep(b, w, r, seen[w], used[w])
    BY <1>1, <1>2, <1>3, <1>4 DEF TaskStep
  <1> QED
    BY <1>2, <1>3, <1>5, BatchStep

\* The ids that SADD adds are what the task is about to count.
LEMMA MarkSeenKeeps ==
    ASSUME UsageInv, NEW b \in Batches, MarkSeen(b)
    PROVE  UsageInv'
  <1> DEFINE w == WorkspaceOf[b]
             m == batch[b].period
             T == TracesOf[b]
             n == Cardinality(NewIds(w, m, T))
             at == IF n > 0 THEN "counting" ELSE "done"
             r == [batch[b] EXCEPT !.at = at, !.n = n]
             s == [seen[w] EXCEPT ![m] = @ \cup T]
  <1>1. /\ batch[b].at = "ingested"
        /\ batch' = [batch EXCEPT ![b] = r]
        /\ UNCHANGED <<period, alive, used, deletion, lost, doubled>>
    BY DEF MarkSeen
  <1>2. /\ w \in Workspaces /\ batch[b] \in BatchRecords /\ batch[b].n = 0
        /\ m \in CounterMonths /\ lost \in BOOLEAN /\ T \in SUBSET Traces
        /\ used[w] \in [CounterMonths -> Nat]
        /\ seen[w] \in [CounterMonths -> SUBSET Traces]
        /\ used = [used EXCEPT ![w] = used[w]]
        /\ \A k \in CounterMonths : Cardinality(seen[w][k]) \in Nat
    BY <1>1, BatchState
  <1>3. /\ n \in Nat
        /\ Cardinality(seen[w][m] \cup T) = Cardinality(seen[w][m]) + n
    BY <1>2, NewIdsCount DEF UsageInv
  <1>4. seen' = [seen EXCEPT ![w] = s]
    BY DEF MarkSeen
  <1>5. /\ s \in [CounterMonths -> SUBSET Traces] /\ s[m] = seen[w][m] \cup T
        /\ \A k \in CounterMonths \ {m} : s[k] = seen[w][k]
    BY <1>2
  <1> HIDE DEF w, n, T, s
  <1>6. r \in BatchRecords /\ r.n = n /\ r.period = m /\ (r.at # "counting" => n = 0)
    <2>1. at \in {"queued", "ingested", "counting", "done"} /\ (at # "counting" => n = 0)
      BY <1>3
    <2>2. n \in Nat /\ batch[b] \in BatchRecords /\ batch[b].period = m
      BY <1>2, <1>3
    <2> HIDE DEF at, m
    <2>3. r \in BatchRecords
      BY <2>1, <2>2 DEF BatchRecords
    <2>4. r.n = n /\ r.at = at /\ r.period = m
      BY <2>2 DEF BatchRecords
    <2> QED
      BY <2>1, <2>3, <2>4
  <1>7. \A k \in CounterMonths : About(b, k) = 0
    BY <1>2 DEF About
  <1> HIDE DEF r, m
  <1>8. \A k \in CounterMonths :
          Cardinality(s[k]) = Cardinality(seen[w][k]) + IF m = k THEN n ELSE 0
    <2> SUFFICES ASSUME NEW k \in CounterMonths
                 PROVE  Cardinality(s[k]) = Cardinality(seen[w][k]) + IF m = k THEN n ELSE 0
      OBVIOUS
    <2>1. CASE k = m
      BY <1>2, <1>3, <1>5, <2>1
    <2>2. CASE k # m
      BY <1>2, <1>5, <2>2
    <2> QED
      BY <2>1, <2>2
  <1>9. TaskStep(b, w, r, s, used[w])
    BY <1>1, <1>2, <1>3, <1>4, <1>6, <1>7, <1>8 DEF TaskStep
  <1> QED
    BY <1>2, <1>5, <1>6, <1>9, BatchStep

\* What the commit counts is what the task was about to count; for a deleted
\* workspace it is lost.
LEMMA IncrementKeeps ==
    ASSUME UsageInv, NEW b \in Batches, Increment(b)
    PROVE  UsageInv'
  <1> DEFINE w == WorkspaceOf[b]
             m == batch[b].period
             n == batch[b].n
             r == [batch[b] EXCEPT !.at = "done", !.n = 0]
             u == [used[w] EXCEPT ![m] = @ + n]
  <1>1. /\ batch' = [batch EXCEPT ![b] = r]
        /\ UNCHANGED <<period, alive, seen, deletion, doubled>>
    BY DEF Increment
  <1>2. /\ w \in Workspaces /\ batch[b] \in BatchRecords /\ n \in Nat
        /\ m \in CounterMonths /\ lost \in BOOLEAN
        /\ used[w] \in [CounterMonths -> Nat]
        /\ seen[w] \in [CounterMonths -> SUBSET Traces]
        /\ used = [used EXCEPT ![w] = used[w]] /\ seen = [seen EXCEPT ![w] = seen[w]]
        /\ \A k \in CounterMonths : Cardinality(seen[w][k]) \in Nat
    BY BatchState
  <1>3. r \in BatchRecords /\ r.n = 0
    BY <1>2 DEF BatchRecords
  <1>4. \A k \in CounterMonths : About(b, k) = IF m = k THEN n ELSE 0
    BY DEF About
  <1>5. /\ u \in [CounterMonths -> Nat] /\ u[m] = used[w][m] + n
        /\ \A k \in CounterMonths \ {m} : u[k] = used[w][k]
    BY <1>2
  <1>6. CASE w \in alive
    <2>1. used' = [used EXCEPT ![w] = u] /\ lost' = lost
      BY <1>6 DEF Increment, Added
    <2> HIDE DEF r, w, m, n, u
    <2>2. TaskStep(b, w, r, seen[w], u)
      BY <1>1, <1>2, <1>3, <1>4, <1>5, <1>6, <2>1 DEF TaskStep
    <2> QED
      BY <1>2, <1>3, <1>5, <2>2, BatchStep
  <1>7. CASE w \notin alive
    <2>1. used' = used /\ lost' = TRUE
      BY <1>7 DEF Increment
    <2> HIDE DEF r, w, m, n, u
    <2>2. TaskStep(b, w, r, seen[w], used[w])
      BY <1>1, <1>2, <1>3, <1>4, <2>1 DEF TaskStep
    <2> QED
      BY <1>2, <1>3, <2>2, BatchStep
  <1> QED
    BY <1>6, <1>7

\* Ids that are in the set and not in the counter are lost to it.
LEMMA RedisFailsKeeps ==
    ASSUME UsageInv, NEW b \in Batches, RedisFails(b)
    PROVE  UsageInv'
  <1> DEFINE w == WorkspaceOf[b]
             m == batch[b].period
             T == TracesOf[b]
             n == Cardinality(NewIds(w, m, T))
             r == [batch[b] EXCEPT !.at = "done"]
             s == [seen[w] EXCEPT ![m] = @ \cup T]
  <1>1. /\ batch[b].at = "ingested"
        /\ batch' = [batch EXCEPT ![b] = r]
        /\ UNCHANGED <<period, alive, used, deletion, doubled>> /\ lost' = TRUE
    BY DEF RedisFails
  <1>2. /\ w \in Workspaces /\ batch[b] \in BatchRecords /\ batch[b].n = 0
        /\ m \in CounterMonths /\ lost \in BOOLEAN /\ T \in SUBSET Traces
        /\ used[w] \in [CounterMonths -> Nat]
        /\ seen[w] \in [CounterMonths -> SUBSET Traces]
        /\ used = [used EXCEPT ![w] = used[w]] /\ seen = [seen EXCEPT ![w] = seen[w]]
        /\ \A k \in CounterMonths : Cardinality(seen[w][k]) \in Nat
    BY <1>1, BatchState
  <1>3. n \in Nat /\ Cardinality(seen[w][m] \cup T) = Cardinality(seen[w][m]) + n
    BY <1>2, NewIdsCount DEF UsageInv
  <1>4. r \in BatchRecords /\ r.n = 0
    BY <1>2 DEF BatchRecords
  <1>5. \A k \in CounterMonths : About(b, k) = 0
    BY <1>2 DEF About
  <1>6. seen' = seen \/ seen' = [seen EXCEPT ![w] = s]
    BY DEF RedisFails
  <1>7. /\ s \in [CounterMonths -> SUBSET Traces] /\ s[m] = seen[w][m] \cup T
        /\ \A k \in CounterMonths \ {m} : s[k] = seen[w][k]
    BY <1>2
  <1> HIDE DEF w, m, T, n, r, s
  <1>8. CASE seen' = seen
    <2>1. TaskStep(b, w, r, seen[w], used[w])
      BY <1>1, <1>2, <1>4, <1>5, <1>8 DEF TaskStep
    <2> QED
      BY <1>2, <1>4, <2>1, BatchStep
  <1>9. CASE seen' = [seen EXCEPT ![w] = s]
    <2>1. \A k \in CounterMonths :
            Cardinality(s[k]) \in Nat /\ Cardinality(seen[w][k]) <= Cardinality(s[k])
      <3> SUFFICES ASSUME NEW k \in CounterMonths
                   PROVE  /\ Cardinality(s[k]) \in Nat
                          /\ Cardinality(seen[w][k]) <= Cardinality(s[k])
        OBVIOUS
      <3>1. CASE k = m
        <4>1. Cardinality(seen[w][m]) \in Nat
          BY <1>2
        <4>2. Cardinality(s[m]) = Cardinality(seen[w][m]) + n
          BY <1>3, <1>7
        <4>3. Cardinality(s[m]) \in Nat /\ Cardinality(seen[w][m]) <= Cardinality(s[m])
          BY <1>3, <4>1, <4>2
        <4> QED
          BY <3>1, <4>3
      <3>2. CASE k # m
        BY <1>2, <1>7, <3>2
      <3> QED
        BY <3>1, <3>2
    <2>2. TaskStep(b, w, r, s, used[w])
      BY <1>1, <1>2, <1>4, <1>5, <1>9, <2>1 DEF TaskStep
    <2> QED
      BY <1>2, <1>4, <1>7, <2>2, BatchStep
  <1> QED
    BY <1>6, <1>8, <1>9

\* So is what a task was about to count when Postgres fails.
LEMMA PostgresFailsKeeps ==
    ASSUME UsageInv, NEW b \in Batches, PostgresFailsToCount(b)
    PROVE  UsageInv'
  <1> DEFINE w == WorkspaceOf[b]
             r == [batch[b] EXCEPT !.at = "done", !.n = 0]
  <1>1. /\ batch' = [batch EXCEPT ![b] = r]
        /\ UNCHANGED <<period, alive, seen, used, deletion, doubled>> /\ lost' = TRUE
    BY DEF PostgresFailsToCount
  <1>2. /\ w \in Workspaces /\ batch[b] \in BatchRecords /\ batch[b].n \in Nat
        /\ used[w] \in [CounterMonths -> Nat]
        /\ seen[w] \in [CounterMonths -> SUBSET Traces]
        /\ used = [used EXCEPT ![w] = used[w]] /\ seen = [seen EXCEPT ![w] = seen[w]]
        /\ \A k \in CounterMonths : Cardinality(seen[w][k]) \in Nat
    BY BatchState
  <1>3. r \in BatchRecords /\ r.n = 0
    BY <1>2 DEF BatchRecords
  <1>4. \A k \in CounterMonths : About(b, k) \in Nat
    BY <1>2 DEF About
  <1> HIDE DEF r, w
  <1>5. TaskStep(b, w, r, seen[w], used[w])
    BY <1>1, <1>2, <1>3, <1>4 DEF TaskStep
  <1> QED
    BY <1>2, <1>3, <1>5, BatchStep

\* And when the worker dies before the commit.
LEMMA BatchRedeliveredKeeps ==
    ASSUME UsageInv, NEW b \in Batches, BatchRedelivered(b)
    PROVE  UsageInv'
  <1> DEFINE w == WorkspaceOf[b]
  <1>1. /\ batch' = [batch EXCEPT ![b] = Queued]
        /\ UNCHANGED <<period, alive, seen, used, deletion, doubled>>
        /\ lost' = (lost \/ batch[b].at = "counting")
    BY DEF BatchRedelivered
  <1>2. /\ w \in Workspaces /\ batch[b].n \in Nat
        /\ used[w] \in [CounterMonths -> Nat] /\ lost \in BOOLEAN
        /\ seen[w] \in [CounterMonths -> SUBSET Traces]
        /\ used = [used EXCEPT ![w] = used[w]] /\ seen = [seen EXCEPT ![w] = seen[w]]
        /\ \A k \in CounterMonths : Cardinality(seen[w][k]) \in Nat
        /\ batch[b].at # "counting" => batch[b].n = 0
    BY BatchState
  <1>3. Queued \in BatchRecords /\ Queued.n = 0
    BY UsageAssumption DEF Queued, BatchRecords, CounterMonths
  <1>4. \A k \in CounterMonths : About(b, k) \in Nat
                                 /\ (batch[b].at # "counting" => About(b, k) = 0)
    BY <1>2 DEF About
  <1> HIDE DEF w
  <1>5. lost' \in BOOLEAN /\ (lost => lost') /\ (batch[b].at = "counting" => lost')
    BY <1>1
  <1>6. TaskStep(b, w, Queued, seen[w], used[w])
    <2>1. /\ batch' = [batch EXCEPT ![b] = Queued]
          /\ UNCHANGED <<period, alive, seen, used, deletion, doubled>>
      BY <1>1
    <2>2. lost' \/ \A k \in CounterMonths : About(b, k) = 0
      BY <1>4, <1>5
    <2> QED
      BY <1>2, <1>3, <1>4, <1>5, <2>1, <2>2 DEF TaskStep
  <1> QED
    BY <1>2, <1>3, <1>6, BatchStep

-----------------------------------------------------------------------------
(* The deletion of a workspace, and the end of the month                   *)

\* A step that touches neither sets nor counters, and what it leaves a request
\* with is sound.
LEMMA QuietUsageStep ==
    ASSUME UsageInv, UsageTypeOK',
           UNCHANGED <<alive, seen, used, batch, lost, doubled>>,
           \A d \in Deleters : DeletionSound(d)'
    PROVE  UsageInv'
  <1>1. CounterMonths' = CounterMonths /\ NoneUsed' = NoneUsed
    BY DEF CounterMonths, NoneUsed
  <1>2. \A m \in CounterMonths : SeenIn(m)' = SeenIn(m) /\ CountedIn(m)' = CountedIn(m)
    BY DEF SeenIn, CountedIn, UsedIn, AboutIn
  <1>3. NeverOvercounts' /\ ExactWithoutFaults'
    BY <1>1, <1>2 DEF UsageInv, NeverOvercounts, ExactWithoutFaults
  <1> QED
    BY <1>1, <1>3 DEF UsageInv

\* So is the step of one request alone.
LEMMA QuietDeletionStep ==
    ASSUME UsageInv, NEW d \in Deleters, NEW r \in DeletionRecords,
           deletion' = [deletion EXCEPT ![d] = r],
           UNCHANGED <<period, alive, seen, used, batch, lost, doubled>>,
           r.at \in {"siblings", "rows"} => r.heirs # {} /\ r.of \notin r.heirs,
           r.at = "rows" /\ r.of \in alive =>
             \A m \in CounterMonths : r.rows[m] <= used[r.of][m]
    PROVE  UsageInv'
  <1>1. UsageTypeOK
    BY DEF UsageInv
  <1>2. UsageTypeOK'
    <2>1. /\ alive \subseteq Workspaces /\ used \in [Workspaces -> [CounterMonths -> Nat]]
          /\ lost \in BOOLEAN /\ doubled \in BOOLEAN
      BY <1>1 DEF UsageTypeOK
    <2> QED
      BY <1>1, <2>1, DeletionStepType
  <1>3. deletion'[d] = r /\ \A e \in Deleters \ {d} : deletion'[e] = deletion[e]
    BY <1>1 DEF UsageTypeOK
  <1>4. ASSUME NEW e \in Deleters
        PROVE  DeletionSound(e)'
    <2>1. CASE e = d
      BY <1>3, <2>1 DEF DeletionSound, CounterMonths
    <2>2. CASE e # d
      <3>1. DeletionSound(e) /\ deletion'[e] = deletion[e]
        BY <1>3, <2>2 DEF UsageInv
      <3> QED
        BY <3>1 DEF DeletionSound, CounterMonths
    <2> QED
      BY <2>1, <2>2
  <1> QED
    BY <1>2, <1>4, QuietUsageStep

LEMMA LoadSiblingsKeeps ==
    ASSUME UsageInv, NEW d \in Deleters, NEW w \in Workspaces, LoadSiblings(d, w)
    PROVE  UsageInv'
  <1> DEFINE r == [deletion[d] EXCEPT !.at = "siblings", !.of = w, !.heirs = alive \ {w}]
  <1>1. /\ deletion' = [deletion EXCEPT ![d] = r]
        /\ UNCHANGED <<period, alive, seen, used, batch, lost, doubled>>
        /\ w \in alive /\ alive # {w}
    BY DEF LoadSiblings
  <1>2. deletion[d] \in DeletionRecords /\ alive \ {w} \in SUBSET Workspaces
    BY DeletionFacts DEF UsageInv, UsageTypeOK
  <1>3. r \in DeletionRecords
    BY <1>2 DEF DeletionRecords
  <1>4. r.at = "siblings" /\ r.of = w /\ r.heirs = alive \ {w}
    BY <1>2 DEF DeletionRecords
  <1> HIDE DEF r
  <1>5. r.heirs # {} /\ r.of \notin r.heirs
    BY <1>1, <1>4
  <1> QED
    BY <1>1, <1>3, <1>4, <1>5, QuietDeletionStep

LEMMA ReadCountersKeeps ==
    ASSUME UsageInv, NEW d \in Deleters, ReadCounters(d)
    PROVE  UsageInv'
  <1> DEFINE r == [deletion[d] EXCEPT !.at = "rows", !.rows = used[deletion[d].of]]
  <1>1. /\ deletion' = [deletion EXCEPT ![d] = r] /\ deletion[d].at = "siblings"
        /\ UNCHANGED <<period, alive, seen, used, batch, lost, doubled>>
    BY DEF ReadCounters
  <1>2. deletion[d] \in DeletionRecords /\ deletion[d].of \in Workspaces
    BY DeletionFacts DEF UsageInv
  <1>3. used[deletion[d].of] \in [CounterMonths -> Nat]
    BY <1>2 DEF UsageInv, UsageTypeOK
  <1>4. deletion[d].heirs # {} /\ deletion[d].of \notin deletion[d].heirs
    BY <1>1 DEF UsageInv, DeletionSound
  <1>5. r \in DeletionRecords
    BY <1>2, <1>3 DEF DeletionRecords
  <1>6. /\ r.at = "rows" /\ r.of = deletion[d].of /\ r.heirs = deletion[d].heirs
        /\ r.rows = used[deletion[d].of]
    BY <1>2 DEF DeletionRecords
  <1> HIDE DEF r
  <1>7. \A m \in CounterMonths : r.rows[m] <= used[r.of][m]
    BY <1>3, <1>6
  <1> QED
    BY <1>1, <1>4, <1>5, <1>6, <1>7, QuietDeletionStep

LEMMA DeleteFailsKeeps ==
    ASSUME UsageInv, NEW d \in Deleters, DeleteFails(d)
    PROVE  UsageInv'
  <1> DEFINE r == [NoDeletion EXCEPT !.at = "done"]
  <1>1. /\ deletion' = [deletion EXCEPT ![d] = r]
        /\ UNCHANGED <<period, alive, seen, used, batch, lost, doubled>>
    BY DEF DeleteFails
  <1>2. r \in DeletionRecords /\ r.at = "done"
    BY NoDeletionType DEF NoDeletion
  <1> HIDE DEF r
  <1> QED
    BY <1>1, <1>2, QuietDeletionStep

LEMMA NextPeriodKeeps ==
    ASSUME UsageInv, NextPeriod
    PROVE  UsageInv'
  <1>1. UsageTypeOK'
    BY UsageAssumption DEF UsageInv, UsageTypeOK, NextPeriod, CounterMonths
  <1>2. \A d \in Deleters : DeletionSound(d)'
    BY DEF UsageInv, NextPeriod, DeletionSound, CounterMonths
  <1> QED
    BY <1>1, <1>2, QuietUsageStep DEF NextPeriod

\* The total when two counters change.
LEMMA UsedChangeTwo ==
    ASSUME UsageTypeOK, UsageTypeOK', NEW m \in CounterMonths,
           NEW w \in Workspaces, NEW v \in Workspaces, w # v,
           \A x \in Workspaces \ {w, v} : used'[x] = used[x]
    PROVE  UsedIn(m)' + used[w][m] + used[v][m] = UsedIn(m) + used'[w][m] + used'[v][m]
  <1> DEFINE f == [x \in Workspaces |-> used[x][m]]
             g == [x \in Workspaces |-> used'[x][m]]
             h == [x \in Workspaces |-> IF x = w THEN used'[x][m] ELSE used[x][m]]
  <1>1. /\ f \in [Workspaces -> Nat] /\ g \in [Workspaces -> Nat]
        /\ h \in [Workspaces -> Nat]
    <2>1. used \in [Workspaces -> [CounterMonths -> Nat]]
          /\ used' \in [Workspaces -> [CounterMonths -> Nat]]
      BY DEF UsageTypeOK, CounterMonths
    <2> QED
      BY <2>1
  <1>2. /\ \A x \in Workspaces \ {w} : f[x] = h[x]
        /\ \A x \in Workspaces \ {v} : h[x] = g[x]
    OBVIOUS
  <1>3. /\ f[w] = used[w][m] /\ h[w] = used'[w][m]
        /\ h[v] = used[v][m] /\ g[v] = used'[v][m]
    OBVIOUS
  <1>4. UsedIn(m) = SumFunction(f) /\ UsedIn(m)' = SumFunction(g)
    BY DEF UsedIn
  <1>5. IsFiniteSet(Workspaces)
    BY UsageAssumption
  <1> HIDE DEF f, g, h
  <1>6. SumFunction(h) + f[w] = SumFunction(f) + h[w]
    BY <1>1, <1>2, <1>5, SumChange
  <1>7. SumFunction(g) + h[v] = SumFunction(h) + g[v]
    BY <1>1, <1>2, <1>5, SumChange
  <1>8. /\ SumFunction(f) \in Nat /\ SumFunction(g) \in Nat /\ SumFunction(h) \in Nat
        /\ f[w] \in Nat /\ h[w] \in Nat /\ h[v] \in Nat /\ g[v] \in Nat
    BY <1>1, <1>5, SumType
  <1>9. SumFunction(g) + f[w] + h[v] = SumFunction(f) + h[w] + g[v]
    BY <1>6, <1>7, <1>8
  <1> QED
    BY <1>3, <1>4, <1>9

\* The heir is charged what the request has read, which is no more than the
\* workspace still had: less is lost, and a second request doubles it.
LEMMA CommitDeleteBalances ==
    ASSUME UsageInv, UsageTypeOK', NEW d \in Deleters, CommitDelete(d)
    PROVE  Balanced
  <1> DEFINE w == deletion[d].of
             heir == Min(deletion[d].heirs)
             rows == deletion[d].rows
  <1>1. /\ used' = Bequeathed(used, w, heir, rows) /\ UNCHANGED <<seen, batch>>
        /\ deletion[d].at = "rows"
        /\ lost' = (lost \/ heir \notin alive \/ (w \in alive /\ used[w] # rows))
        /\ doubled' = (doubled \/ (w \notin alive /\ rows # NoneUsed))
    BY DEF CommitDelete
  <1>2. DeletionSound(d) /\ UsageTypeOK /\ (w \notin alive => used[w] = NoneUsed)
        /\ w \in Workspaces /\ rows \in [CounterMonths -> Nat]
    BY DeletionFacts DEF UsageInv
  <1>3. heir \in Workspaces /\ heir # w
    BY <1>1, <1>2, DeletionFacts, OldestIsThere DEF DeletionSound
  <1>4. w \in alive => \A m \in CounterMonths : rows[m] <= used[w][m]
    BY <1>1, <1>2 DEF DeletionSound
  <1> HIDE DEF w, heir, rows
  <1>5. /\ used'[w] = NoneUsed
        /\ heir \notin alive => used'[heir] = used[heir]
        /\ heir \in alive =>
             \A m \in CounterMonths : used'[heir][m] = used[heir][m] + rows[m]
        /\ \A v \in Workspaces \ {w, heir} : used'[v] = used[v]
    BY <1>1, <1>2, <1>3, BequeathedType
  <1>6. ASSUME NEW m \in CounterMonths
        PROVE  doubled' \/ /\ CountedIn(m)' + SeenIn(m) <= CountedIn(m) + SeenIn(m)'
                           /\ lost' \/ CountedIn(m)' + SeenIn(m) = CountedIn(m) + SeenIn(m)'
    <2>1. SeenIn(m)' = SeenIn(m) /\ AboutIn(m)' = AboutIn(m)
      BY <1>1 DEF SeenIn, AboutIn
    <2>2. /\ SeenIn(m) \in Nat /\ UsedIn(m) \in Nat /\ AboutIn(m) \in Nat
          /\ UsedIn(m)' \in Nat /\ used[w][m] \in Nat /\ used[heir][m] \in Nat
          /\ CountedIn(m) = UsedIn(m) + AboutIn(m)
          /\ CountedIn(m)' = UsedIn(m)' + AboutIn(m)'
      BY <1>2, <1>3, StepNumbers
    <2>3. UsedIn(m)' + used[w][m] + used[heir][m]
            = UsedIn(m) + used'[w][m] + used'[heir][m]
      BY <1>2, <1>3, <1>5, UsedChangeTwo
    <2>4. used'[w][m] = 0 /\ NoneUsed[m] = 0 /\ rows[m] \in Nat
      BY <1>2, <1>5 DEF NoneUsed
    <2>5. CASE heir \notin alive
      <3>1. lost'
        BY <1>1, <2>5
      <3> QED
        BY <1>5, <2>1, <2>2, <2>3, <2>4, <2>5, <3>1
    <2>6. CASE heir \in alive /\ w \in alive
      <3>1. rows[m] <= used[w][m] /\ used'[heir][m] = used[heir][m] + rows[m]
        BY <1>4, <1>5, <2>6
      <3>2. lost' \/ rows[m] = used[w][m]
        BY <1>1, <2>6
      <3> QED
        BY <2>1, <2>2, <2>3, <2>4, <3>1, <3>2
    <2>7. CASE heir \in alive /\ w \notin alive /\ rows = NoneUsed
      <3>1. used[w][m] = 0 /\ used'[heir][m] = used[heir][m]
        BY <1>2, <1>5, <2>2, <2>4, <2>7
      <3> QED
        BY <2>1, <2>2, <2>3, <2>4, <3>1
    <2>8. CASE w \notin alive /\ rows # NoneUsed
      BY <1>1, <2>8
    <2> QED
      BY <2>5, <2>6, <2>7, <2>8
  <1>7. (lost => lost') /\ (doubled => doubled')
    BY <1>1
  <1> QED
    BY <1>6, <1>7 DEF Balanced

LEMMA CommitDeleteKeeps ==
    ASSUME UsageInv, NEW d \in Deleters, CommitDelete(d)
    PROVE  UsageInv'
  <1> DEFINE w == deletion[d].of
             heir == Min(deletion[d].heirs)
             rows == deletion[d].rows
             r == [NoDeletion EXCEPT !.at = "done"]
  <1>1. /\ used' = Bequeathed(used, w, heir, rows) /\ UNCHANGED <<period, seen, batch>>
        /\ deletion[d].at = "rows" /\ alive' = alive \ {w}
        /\ deletion' = [deletion EXCEPT ![d] = r]
        /\ lost' \in BOOLEAN /\ doubled' \in BOOLEAN
    BY DEF CommitDelete
  <1>2. DeletionSound(d) /\ UsageTypeOK
        /\ w \in Workspaces /\ rows \in [CounterMonths -> Nat]
        /\ r \in DeletionRecords /\ r.at = "done"
    BY DeletionFacts, NoDeletionType DEF UsageInv, NoDeletion
  <1>3. heir \in Workspaces /\ heir # w
    BY <1>1, <1>2, DeletionFacts, OldestIsThere DEF DeletionSound
  <1> HIDE DEF w, heir, rows, r
  <1>4. /\ used' \in [Workspaces -> [CounterMonths -> Nat]] /\ used'[w] = NoneUsed
        /\ heir \notin alive => used'[heir] = used[heir]
        /\ heir \in alive =>
             \A m \in CounterMonths : used'[heir][m] = used[heir][m] + rows[m]
        /\ \A v \in Workspaces \ {w, heir} : used'[v] = used[v]
    BY <1>1, <1>2, <1>3, BequeathedType
  <1>5. UsageTypeOK'
    <2>1. alive' \subseteq Workspaces
      BY <1>1, <1>2 DEF UsageTypeOK
    <2> QED
      BY <1>1, <1>2, <1>4, <2>1, DeletionStepType
  <1>6. NeverOvercounts' /\ ExactWithoutFaults'
    BY <1>2, <1>5, CommitDeleteBalances, BalancedKeeps DEF UsageInv
  <1>7. deletion'[d] = r /\ \A e \in Deleters \ {d} : deletion'[e] = deletion[e]
    BY <1>1, <1>2 DEF UsageTypeOK
  <1>8. ASSUME NEW e \in Deleters
        PROVE  DeletionSound(e)'
    <2>1. CASE e = d
      BY <1>2, <1>7, <2>1 DEF DeletionSound
    <2>2. CASE e # d
      <3> DEFINE v == deletion[e].of
      <3>1. DeletionSound(e) /\ deletion'[e] = deletion[e]
            /\ v \in Workspaces /\ deletion[e].rows \in [CounterMonths -> Nat]
        BY <1>2, <1>7, <2>2, DeletionFacts DEF UsageInv
      <3>2. ASSUME deletion[e].at = "rows", v \in alive', NEW m \in CounterMonths
            PROVE  deletion[e].rows[m] <= used'[v][m]
        <4>1. v # w /\ v \in alive
          BY <1>1, <3>2
        <4>2. deletion[e].rows[m] <= used[v][m]
          BY <3>1, <3>2, <4>1 DEF DeletionSound
        <4>3. used[v][m] \in Nat /\ rows[m] \in Nat /\ deletion[e].rows[m] \in Nat
          BY <1>2, <3>1 DEF UsageTypeOK
        <4> HIDE DEF v
        <4>4. used'[v][m] = used[v][m] \/ used'[v][m] = used[v][m] + rows[m]
          BY <1>4, <3>1, <4>1
        <4> QED
          BY <4>2, <4>3, <4>4
      <3> QED
        BY <3>1, <3>2 DEF DeletionSound, CounterMonths
    <2> QED
      BY <2>1, <2>2
  <1>9. \A v \in Workspaces \ alive' : used'[v] = NoneUsed
    BY <1>1, <1>4 DEF UsageInv
  <1>10. \A b \in Batches : batch'[b].at # "counting" => batch'[b].n = 0
    BY <1>1 DEF UsageInv
  <1>11. NoneUsed' = NoneUsed
    BY DEF NoneUsed, CounterMonths
  <1> QED
    BY <1>5, <1>6, <1>8, <1>9, <1>10, <1>11 DEF UsageInv

-----------------------------------------------------------------------------
LEMMA UsageStep ==
    ASSUME UsageInv, [UsageNext]_usageVars
    PROVE  UsageInv'
  <1>1. CASE NextPeriod
    BY <1>1, NextPeriodKeeps
  <1>2. ASSUME NEW b \in Batches,
               \/ AskPeriod(b) \/ MarkSeen(b) \/ Increment(b)
               \/ RedisFails(b) \/ PostgresFailsToCount(b) \/ BatchRedelivered(b)
        PROVE  UsageInv'
    BY <1>2, AskPeriodKeeps, MarkSeenKeeps, IncrementKeeps, RedisFailsKeeps,
       PostgresFailsKeeps, BatchRedeliveredKeeps
  <1>3. ASSUME NEW d \in Deleters, NEW w \in Workspaces, LoadSiblings(d, w)
        PROVE  UsageInv'
    BY <1>3, LoadSiblingsKeeps
  <1>4. ASSUME NEW d \in Deleters, ReadCounters(d) \/ CommitDelete(d) \/ DeleteFails(d)
        PROVE  UsageInv'
    BY <1>4, ReadCountersKeeps, CommitDeleteKeeps, DeleteFailsKeeps
  <1>5. CASE UNCHANGED usageVars
    <2>1. UsageTypeOK'
      BY <1>5 DEF UsageInv, UsageTypeOK, usageVars, CounterMonths
    <2>2. \A d \in Deleters : DeletionSound(d)'
      BY <1>5 DEF UsageInv, DeletionSound, usageVars, CounterMonths
    <2> QED
      BY <1>5, <2>1, <2>2, QuietUsageStep DEF usageVars
  <1> QED
    BY <1>1, <1>2, <1>3, <1>4, <1>5 DEF UsageNext

LEMMA UsageInvariant == UsageSpec => []UsageInv
  BY UsageInitInv, UsageStep, PTL DEF UsageSpec

\* The counters keep their types.
THEOREM UsageTypes == UsageSpec => []UsageTypeOK
  <1>1. UsageInv => UsageTypeOK
    BY DEF UsageInv
  <1> QED
    BY <1>1, UsageInvariant, PTL

\* Whatever is retried, redelivered, lost or deleted, a trace is never counted
\* twice in a month, but by two requests that delete one workspace at once.
THEOREM UsageNeverOvercounts == UsageSpec => []NeverOvercounts
  <1>1. UsageInv => NeverOvercounts
    BY DEF UsageInv
  <1> QED
    BY <1>1, UsageInvariant, PTL

\* Short of a fault or a race with a deletion, what is counted is what was seen.
THEOREM UsageExactWithoutFaults == UsageSpec => []ExactWithoutFaults
  <1>1. UsageInv => ExactWithoutFaults
    BY DEF UsageInv
  <1> QED
    BY <1>1, UsageInvariant, PTL

-----------------------------------------------------------------------------
(* The plan of an organization                                             *)

CheckoutRecords ==
    [at : {"none", "loaded", "customer", "open", "over"}, customer : Ids]

\* A checkout that has a URL has a customer, and only one that was paid has a
\* subscription.
CustomerFirst ==
    \A c \in Checkouts :
        /\ checkout[c].at \in {"customer", "open", "over"} => checkout[c].customer # NoId
        /\ stripe[c] # NoStatus => checkout[c].at = "over"

\* While an operator's grant stands uncrossed, each handler at work has loaded it.
GrantSeen ==
    org.plan = "unlimited" /\ ~crossed =>
        \A h \in Handlers : handler[h].event # 0 => handler[h].row.plan = "unlimited"

GrantInv == SubscriptionTypeOK /\ CustomerFirst /\ GrantSeen

-----------------------------------------------------------------------------
\* The organization's row has these columns.
LEMMA RowColumns ==
    ASSUME NEW row \in Rows
    PROVE  DOMAIN row = {"customer", "sub", "status", "plan"}
  BY DEF Rows

\* An UPDATE of a row leaves a row.
LEMMA WrittenType ==
    ASSUME NEW loaded \in Rows, NEW new \in Rows, NEW row \in Rows
    PROVE  Written(loaded, new, row) \in Rows
  <1>1. /\ DOMAIN Written(loaded, new, row) = {"customer", "sub", "status", "plan"}
        /\ \A k \in {"customer", "sub", "status", "plan"} :
             Written(loaded, new, row)[k] \in {new[k], row[k]}
    BY RowColumns DEF Written
  <1>2. Written(loaded, new, row) =
          [customer |-> Written(loaded, new, row).customer,
           sub |-> Written(loaded, new, row).sub,
           status |-> Written(loaded, new, row).status,
           plan |-> Written(loaded, new, row).plan]
    BY RowColumns DEF Written
  <1>3. /\ Written(loaded, new, row).customer \in Ids
        /\ Written(loaded, new, row).sub \in Ids
        /\ Written(loaded, new, row).status \in Statuses \cup {NoStatus}
        /\ Written(loaded, new, row).plan \in {"free", "pro", "unlimited"}
    BY <1>1 DEF Rows
  <1> HIDE DEF Written
  <1> QED
    BY <1>2, <1>3 DEF Rows

\* The plan is written if the new one is not the loaded one.
LEMMA WrittenPlan ==
    ASSUME NEW loaded \in Rows, NEW new \in Rows, NEW row \in Rows
    PROVE  Written(loaded, new, row).plan =
             IF new.plan # loaded.plan THEN new.plan ELSE row.plan
  BY RowColumns DEF Written

\* What an event makes of a row is a row; the operator's plan is left, and no
\* other becomes it.
LEMMA AppliedType ==
    ASSUME NEW row \in Rows, NEW e \in Events
    PROVE  /\ Applied(row, e) \in Rows
           /\ Applied(row, e).plan = "unlimited" <=> row.plan = "unlimited"
  BY DEF Applied, PlanFor, Rows, Events, Ids

\* The event that a handler works on is one that Stripe has made.
LEMMA HandlerFacts ==
    ASSUME SubscriptionTypeOK, NEW h \in Handlers
    PROVE  /\ handler[h].row \in Rows
           /\ handler[h].event \in 0..Len(events)
           /\ handler[h].event # 0 => events[handler[h].event] \in Events
  BY DEF SubscriptionTypeOK

\* An idle handler is a handler.
LEMMA IdleType ==
    /\ FreshRow \in Rows
    /\ \A n \in Nat : Idle \in [event : 0..n, row : Rows]
  BY DEF Idle, FreshRow, Rows, Ids

\* What an event leaves in the organization's row is a row.
LEMMA ApplyFacts ==
    ASSUME SubscriptionTypeOK, NEW h \in Handlers, Apply(h)
    PROVE  /\ handler[h].event # 0
           /\ handler[h].event \in 1..Len(events)
           /\ org' \in Rows
           /\ handler[h].row.plan = "unlimited" => org'.plan = org.plan
           /\ handler[h].row.plan # "unlimited" /\ org.plan # "unlimited"
                => org'.plan # "unlimited"
  <1> DEFINE e == events[handler[h].event]
             row == handler[h].row
  <1>1. handler[h].event # 0 /\ org' = Written(row, Applied(row, e), org)
    BY DEF Apply
  <1>2. row \in Rows /\ e \in Events /\ org \in Rows
    BY <1>1, HandlerFacts DEF SubscriptionTypeOK
  <1>3. handler[h].event \in 1..Len(events)
    BY <1>1, HandlerFacts DEF SubscriptionTypeOK
  <1>4. /\ Applied(row, e) \in Rows
        /\ Applied(row, e).plan = "unlimited" <=> row.plan = "unlimited"
    BY <1>2, AppliedType
  <1>5. org' \in Rows
    BY <1>1, <1>2, <1>4, WrittenType
  <1>6. org'.plan = IF Applied(row, e).plan # row.plan THEN Applied(row, e).plan
                    ELSE org.plan
    BY <1>1, <1>2, <1>4, WrittenPlan
  <1> QED
    BY <1>1, <1>3, <1>4, <1>5, <1>6

-----------------------------------------------------------------------------
\* More events leave handlers and what was handled well typed.
LEMMA MoreEvents ==
    ASSUME SubscriptionTypeOK, events' \in Seq(Events), Len(events') >= Len(events),
           UNCHANGED <<handled, handler>>
    PROVE  /\ handled' \subseteq 1..Len(events')
           /\ handler' \in [Handlers -> [event : 0..Len(events'), row : Rows]]
  <1>1. Len(events) \in Nat /\ Len(events') \in Nat
    BY DEF SubscriptionTypeOK
  <1>2. /\ 1..Len(events) \subseteq 1..Len(events')
        /\ 0..Len(events) \subseteq 0..Len(events')
    BY <1>1
  <1>3. handled' \subseteq 1..Len(events')
    BY <1>2 DEF SubscriptionTypeOK
  <1>4. [event : 0..Len(events), row : Rows] \subseteq [event : 0..Len(events'), row : Rows]
    BY <1>2
  <1> QED
    BY <1>3, <1>4 DEF SubscriptionTypeOK

\* A subscription that a checkout opened has an event to report.
LEMMA EventType ==
    ASSUME SubscriptionTypeOK, NEW c \in Checkouts, checkout[c].customer # NoId,
           NEW status \in Statuses
    PROVE  /\ SubscriptionEvent(c, status) \in Events
           /\ [SubscriptionEvent(c, status) EXCEPT !.type = "completed"] \in Events
  <1>1. checkout[c].customer \in Checkouts
    BY DEF SubscriptionTypeOK, Ids
  <1> QED
    BY <1>1 DEF SubscriptionEvent, Events

\* A checkout goes on, and what is left of the state stays.
LEMMA CheckoutType ==
    ASSUME SubscriptionTypeOK, NEW c \in Checkouts, NEW new \in CheckoutRecords,
           checkout' = [checkout EXCEPT ![c] = new]
    PROVE  checkout' \in [Checkouts -> CheckoutRecords]
  BY DEF SubscriptionTypeOK, CheckoutRecords

\* Checkouts keep the types, and have a customer before they have a URL.
LEMMA CheckoutStep ==
    ASSUME SubscriptionTypeOK, CustomerFirst, NEW c \in Checkouts,
           LoadForCheckout(c) \/ CreateCustomer(c) \/ CreateSession(c)
    PROVE  SubscriptionTypeOK' /\ CustomerFirst'
  <1>1. checkout \in [Checkouts -> CheckoutRecords] /\ org \in Rows
    BY DEF SubscriptionTypeOK, CheckoutRecords
  <1>2. CASE LoadForCheckout(c)
    <2> DEFINE new == [at |-> "loaded", customer |-> org.customer]
    <2>1. /\ checkout' = [checkout EXCEPT ![c] = new] /\ checkout[c].at = "none"
          /\ UNCHANGED <<org, stripe, made, events, handled, handler, crossed>>
      BY <1>2 DEF LoadForCheckout
    <2>2. new \in CheckoutRecords
      BY <1>1 DEF Rows, CheckoutRecords
    <2>3. SubscriptionTypeOK'
      BY <2>1, <2>2, CheckoutType DEF SubscriptionTypeOK, CheckoutRecords
    <2>4. CustomerFirst'
      BY <1>1, <2>1 DEF CustomerFirst
    <2> QED
      BY <2>3, <2>4
  <1>3. CASE CreateCustomer(c)
    <2> DEFINE new == [at |-> "customer", customer |-> c]
    <2>1. /\ checkout' = [checkout EXCEPT ![c] = new] /\ checkout[c].at = "loaded"
          /\ org' = [org EXCEPT !.customer = c]
          /\ UNCHANGED <<stripe, made, events, handled, handler, crossed>>
      BY <1>3 DEF CreateCustomer
    <2>2. new \in CheckoutRecords /\ org' \in Rows
      BY <1>1, <2>1 DEF Rows, CheckoutRecords, Ids
    <2>3. SubscriptionTypeOK'
      BY <2>1, <2>2, CheckoutType DEF SubscriptionTypeOK, CheckoutRecords
    <2>4. CustomerFirst'
      BY <1>1, <2>1, SubscriptionAssumption DEF CustomerFirst
    <2> QED
      BY <2>3, <2>4
  <1>4. CASE CreateSession(c)
    <2> DEFINE new == [checkout[c] EXCEPT !.at = "open"]
    <2>1. /\ checkout' = [checkout EXCEPT ![c] = new]
          /\ checkout[c].at \in {"loaded", "customer"} /\ checkout[c].customer # NoId
          /\ UNCHANGED <<org, stripe, made, events, handled, handler, crossed>>
      BY <1>4 DEF CreateSession
    <2>2. new \in CheckoutRecords
      BY <1>1 DEF CheckoutRecords
    <2>3. SubscriptionTypeOK'
      BY <2>1, <2>2, CheckoutType DEF SubscriptionTypeOK, CheckoutRecords
    <2>4. new.at = "open" /\ new.customer # NoId
      BY <1>1, <2>1 DEF CheckoutRecords
    <2> HIDE DEF new
    <2>5. CustomerFirst'
      BY <1>1, <2>1, <2>4 DEF CustomerFirst
    <2> QED
      BY <2>3, <2>5
  <1> QED
    BY <1>2, <1>3, <1>4

\* Stripe makes events of subscriptions that have a customer.
LEMMA StripeStep ==
    ASSUME SubscriptionTypeOK, CustomerFirst, NEW c \in Checkouts,
           Pay(c) \/ \E status \in Statuses : StatusChanges(c, status)
    PROVE  SubscriptionTypeOK' /\ CustomerFirst'
  <1>1. /\ checkout \in [Checkouts -> CheckoutRecords] /\ events \in Seq(Events)
        /\ stripe \in [Checkouts -> Statuses \cup {NoStatus}] /\ made \in Nat
    BY SubscriptionAssumption DEF SubscriptionTypeOK, CheckoutRecords
  <1>2. CASE Pay(c)
    <2> DEFINE one == [SubscriptionEvent(c, "active") EXCEPT !.type = "completed"]
               two == SubscriptionEvent(c, "active")
               new == [checkout[c] EXCEPT !.at = "over"]
    <2>1. /\ checkout[c].at = "open"
          /\ checkout' = [checkout EXCEPT ![c] = new]
          /\ stripe' = [stripe EXCEPT ![c] = "active"]
          /\ events' = events \o <<one, two>> \/ events' = events \o <<two, one>>
          /\ UNCHANGED <<org, made, handled, handler, crossed>>
      BY <1>2 DEF Pay
    <2>2. checkout[c].customer # NoId /\ "active" \in Statuses
      BY <2>1 DEF CustomerFirst, Statuses, Paid
    <2>3. one \in Events /\ two \in Events
      BY <2>2, EventType
    <2> HIDE DEF one, two
    <2>4. /\ <<one, two>> \in Seq(Events) /\ <<two, one>> \in Seq(Events)
          /\ Len(<<one, two>>) = 2 /\ Len(<<two, one>>) = 2
      BY <2>3
    <2>5. events' \in Seq(Events) /\ Len(events') = Len(events) + 2
      <3>1. PICK more \in Seq(Events) : Len(more) = 2 /\ events' = events \o more
        BY <2>1, <2>4
      <3>2. /\ events \o more \in Seq(Events)
            /\ Len(events \o more) = Len(events) + Len(more)
        BY <1>1, <3>1, ConcatProperties
      <3> QED
        BY <3>1, <3>2
    <2>6. Len(events') >= Len(events)
      BY <1>1, <2>5
    <2>7. /\ handled' \subseteq 1..Len(events')
          /\ handler' \in [Handlers -> [event : 0..Len(events'), row : Rows]]
      BY <2>1, <2>5, <2>6, MoreEvents
    <2>8. new \in CheckoutRecords
      BY <1>1 DEF CheckoutRecords
    <2>9. new.at = "over" /\ new.customer # NoId
      BY <1>1, <2>2 DEF CheckoutRecords
    <2>10. stripe' \in [Checkouts -> Statuses \cup {NoStatus}]
      BY <1>1, <2>1, <2>2
    <2> HIDE DEF new
    <2>11. SubscriptionTypeOK'
      BY <2>1, <2>5, <2>7, <2>8, <2>10, CheckoutType DEF SubscriptionTypeOK, CheckoutRecords
    <2>12. CustomerFirst'
      BY <1>1, <2>1, <2>9 DEF CustomerFirst
    <2> QED
      BY <2>11, <2>12
  <1>3. ASSUME NEW status \in Statuses, StatusChanges(c, status)
        PROVE  SubscriptionTypeOK' /\ CustomerFirst'
    <2>1. /\ made < MaxStripeChanges /\ made' = made + 1
          /\ stripe[c] # NoStatus
          /\ stripe' = [stripe EXCEPT ![c] = status]
          /\ events' = Append(events, SubscriptionEvent(c, status))
          /\ UNCHANGED <<org, checkout, handled, handler, crossed>>
      BY <1>3 DEF StatusChanges
    <2>2. SubscriptionEvent(c, status) \in Events
      BY <2>1, EventType DEF CustomerFirst
    <2>3. events' \in Seq(Events) /\ Len(events') = Len(events) + 1
      BY <1>1, <2>1, <2>2, AppendProperties
    <2>4. Len(events') >= Len(events)
      BY <1>1, <2>3
    <2>5. /\ handled' \subseteq 1..Len(events')
          /\ handler' \in [Handlers -> [event : 0..Len(events'), row : Rows]]
      BY <2>1, <2>3, <2>4, MoreEvents
    <2>6. made' \in 0..MaxStripeChanges
      BY <1>1, <2>1, SubscriptionAssumption
    <2>7. stripe' \in [Checkouts -> Statuses \cup {NoStatus}]
      BY <1>1, <2>1
    <2>8. SubscriptionTypeOK'
      BY <2>1, <2>3, <2>5, <2>6, <2>7 DEF SubscriptionTypeOK
    <2>9. CustomerFirst'
      BY <1>1, <2>1 DEF CustomerFirst
    <2> QED
      BY <2>8, <2>9
  <1> QED
    BY <1>2, <1>3

\* The operator and the handlers keep the types.
LEMMA HandlerStep ==
    ASSUME SubscriptionTypeOK, CustomerFirst,
           \/ GrantUnlimited
           \/ \E h \in Handlers : \/ \E i \in 1..Len(events) : Load(h, i)
                                  \/ Apply(h) \/ HandlerFails(h)
    PROVE  SubscriptionTypeOK' /\ CustomerFirst'
  <1>1. handler \in [Handlers -> [event : 0..Len(events), row : Rows]]
        /\ org \in Rows /\ Len(events) \in Nat /\ handled \subseteq 1..Len(events)
    BY DEF SubscriptionTypeOK
  <1>2. CASE GrantUnlimited
    <2>1. org' \in Rows /\ crossed' \in BOOLEAN
      BY <1>1, <1>2 DEF GrantUnlimited, Rows
    <2> QED
      BY <1>2, <2>1 DEF GrantUnlimited, SubscriptionTypeOK, CustomerFirst
  <1>3. ASSUME NEW h \in Handlers, NEW i \in 1..Len(events), Load(h, i)
        PROVE  SubscriptionTypeOK' /\ CustomerFirst'
    <2>1. [event |-> i, row |-> org] \in [event : 0..Len(events), row : Rows]
      BY <1>1
    <2>2. handler' \in [Handlers -> [event : 0..Len(events), row : Rows]]
      BY <1>1, <1>3, <2>1 DEF Load
    <2> QED
      BY <1>3, <2>2 DEF Load, SubscriptionTypeOK, CustomerFirst
  <1>4. ASSUME NEW h \in Handlers, Apply(h) \/ HandlerFails(h)
        PROVE  SubscriptionTypeOK' /\ CustomerFirst'
    <2>1. /\ handler' = [handler EXCEPT ![h] = Idle]
          /\ UNCHANGED <<checkout, stripe, made, events, crossed>>
      BY <1>4 DEF Apply, HandlerFails
    <2>2. handler' \in [Handlers -> [event : 0..Len(events), row : Rows]]
      BY <1>1, <2>1, IdleType
    <2>3. org' \in Rows /\ handled' \subseteq 1..Len(events)
      BY <1>1, <1>4, ApplyFacts DEF Apply, HandlerFails
    <2> QED
      BY <2>1, <2>2, <2>3 DEF SubscriptionTypeOK, CustomerFirst
  <1> QED
    BY <1>2, <1>3, <1>4

\* Every step keeps them.
LEMMA SubscriptionTypeStep ==
    ASSUME SubscriptionTypeOK, CustomerFirst, [SubscriptionNext]_subscriptionVars
    PROVE  SubscriptionTypeOK' /\ CustomerFirst'
  <1>1. CASE UNCHANGED subscriptionVars
    BY <1>1 DEF subscriptionVars, SubscriptionTypeOK, CustomerFirst
  <1> QED
    BY <1>1, CheckoutStep, StripeStep, HandlerStep DEF SubscriptionNext

\* The first state is well typed.
LEMMA SubscriptionInitType ==
    ASSUME SubscriptionInit
    PROVE  GrantInv
  <1>1. [at |-> "none", customer |-> NoId] \in CheckoutRecords
    BY DEF CheckoutRecords, Ids
  <1>2. events \in Seq(Events) /\ Len(events) = 0
    BY DEF SubscriptionInit
  <1>3. /\ org \in Rows /\ org.plan # "unlimited"
        /\ handler \in [Handlers -> [event : 0..Len(events), row : Rows]]
        /\ handled \subseteq 1..Len(events)
    BY <1>2, IdleType DEF SubscriptionInit, FreshRow
  <1>4. /\ stripe \in [Checkouts -> Statuses \cup {NoStatus}]
        /\ made = 0 /\ crossed \in BOOLEAN
    BY DEF SubscriptionInit
  <1>5. SubscriptionTypeOK
    <2>1. made \in 0..MaxStripeChanges
      BY <1>4, SubscriptionAssumption
    <2>2. checkout \in [Checkouts -> CheckoutRecords]
      BY <1>1 DEF SubscriptionInit
    <2> QED
      BY <1>2, <1>3, <1>4, <2>1, <2>2 DEF SubscriptionTypeOK, CheckoutRecords
  <1>6. CustomerFirst
    BY DEF SubscriptionInit, CustomerFirst
  <1> QED
    BY <1>3, <1>5, <1>6 DEF GrantInv, GrantSeen

-----------------------------------------------------------------------------
\* A step that leaves the plan and crossed alone, and gives no handler an event
\* with another row, leaves the grant seen.
LEMMA GrantUntouched ==
    ASSUME GrantSeen, org'.plan = org.plan, crossed' = crossed,
           \A h \in Handlers : handler'[h] = handler[h] \/ handler'[h].event = 0
    PROVE  GrantSeen'
  BY DEF GrantSeen

\* Every step keeps the grant seen, and leaves the operator's plan unless a
\* handler crossed it.
LEMMA GrantStep ==
    ASSUME GrantInv, [SubscriptionNext]_subscriptionVars
    PROVE  /\ GrantSeen'
           /\ org.plan = "unlimited" /\ ~crossed => org'.plan = "unlimited"
  <1>1. /\ SubscriptionTypeOK /\ GrantSeen /\ org \in Rows
        /\ handler \in [Handlers -> [event : 0..Len(events), row : Rows]]
    BY DEF GrantInv, SubscriptionTypeOK
  <1>2. CASE UNCHANGED subscriptionVars
    BY <1>1, <1>2 DEF subscriptionVars, GrantSeen
  <1>3. ASSUME NEW c \in Checkouts,
               \/ LoadForCheckout(c) \/ CreateCustomer(c) \/ CreateSession(c) \/ Pay(c)
               \/ \E status \in Statuses : StatusChanges(c, status)
        PROVE  /\ GrantSeen'
               /\ org.plan = "unlimited" /\ ~crossed => org'.plan = "unlimited"
    <2>1. UNCHANGED <<handler, crossed>> /\ org'.plan = org.plan
      BY <1>1, <1>3 DEF LoadForCheckout, CreateCustomer, CreateSession, Pay,
                        StatusChanges, Rows
    <2> QED
      BY <1>1, <2>1, GrantUntouched
  <1>4. CASE GrantUnlimited
    BY <1>1, <1>4 DEF GrantUnlimited, GrantSeen
  <1>5. ASSUME NEW h \in Handlers, NEW i \in 1..Len(events), Load(h, i)
        PROVE  /\ GrantSeen'
               /\ org.plan = "unlimited" /\ ~crossed => org'.plan = "unlimited"
    <2>1. /\ handler' = [handler EXCEPT ![h] = [event |-> i, row |-> org]]
          /\ UNCHANGED <<org, crossed>>
      BY <1>5 DEF Load
    <2>2. \A g \in Handlers : \/ handler'[g] = handler[g]
                              \/ handler'[g].row.plan = org.plan
      BY <1>1, <2>1
    <2> QED
      BY <1>1, <2>1, <2>2 DEF GrantSeen
  <1>6. ASSUME NEW h \in Handlers, Apply(h)
        PROVE  /\ GrantSeen'
               /\ org.plan = "unlimited" /\ ~crossed => org'.plan = "unlimited"
    <2>1. /\ handler[h].event # 0
          /\ handler[h].row.plan = "unlimited" => org'.plan = org.plan
          /\ handler[h].row.plan # "unlimited" /\ org.plan # "unlimited"
               => org'.plan # "unlimited"
      BY <1>1, <1>6, ApplyFacts
    <2>2. crossed' = crossed /\ handler' = [handler EXCEPT ![h] = Idle]
      BY <1>6 DEF Apply
    <2>3. \A g \in Handlers : handler'[g] = handler[g] \/ handler'[g].event = 0
      BY <1>1, <2>2 DEF Idle
    <2>4. CASE org'.plan = org.plan
      BY <1>1, <2>2, <2>3, <2>4, GrantUntouched
    <2>5. CASE org'.plan # org.plan /\ (org.plan # "unlimited" \/ crossed)
      BY <1>1, <2>1, <2>2, <2>5 DEF GrantSeen
    <2>6. CASE org.plan = "unlimited" /\ ~crossed
      BY <1>1, <2>1, <2>2, <2>3, <2>6, GrantUntouched DEF GrantSeen
    <2> QED
      BY <2>4, <2>5, <2>6
  <1>7. ASSUME NEW h \in Handlers, HandlerFails(h)
        PROVE  /\ GrantSeen'
               /\ org.plan = "unlimited" /\ ~crossed => org'.plan = "unlimited"
    <2>1. UNCHANGED <<org, crossed>> /\ handler' = [handler EXCEPT ![h] = Idle]
      BY <1>7 DEF HandlerFails
    <2>2. \A g \in Handlers : handler'[g] = handler[g] \/ handler'[g].event = 0
      BY <1>1, <2>1 DEF Idle
    <2> QED
      BY <1>1, <2>1, <2>2, GrantUntouched
  <1> QED
    BY <1>2, <1>3, <1>4, <1>5, <1>6, <1>7 DEF SubscriptionNext

-----------------------------------------------------------------------------
\* The organization's row, the checkouts, Stripe's events and their handlers stay
\* well typed; no event lacks its customer (services/billing_service.py).
THEOREM SubscriptionTypes == SubscriptionSpec => []SubscriptionTypeOK
  <1>1. SubscriptionInit => GrantInv
    BY SubscriptionInitType
  <1>2. GrantInv /\ [SubscriptionNext]_subscriptionVars => GrantInv'
    BY SubscriptionTypeStep, GrantStep DEF GrantInv
  <1>3. GrantInv => SubscriptionTypeOK
    BY DEF GrantInv
  <1> QED
    BY <1>1, <1>2, <1>3, PTL DEF SubscriptionSpec

\* Whatever events arrive, in whatever order and however often, _apply_subscription
\* leaves the plan that an operator granted, short of an event that was being
\* handled when it was granted.
THEOREM GrantIsKept == SubscriptionSpec => UnlimitedKept
  <1>1. SubscriptionInit => GrantInv
    BY SubscriptionInitType
  <1>2. GrantInv /\ [SubscriptionNext]_subscriptionVars => GrantInv'
    BY SubscriptionTypeStep, GrantStep DEF GrantInv
  <1>3. GrantInv /\ [SubscriptionNext]_subscriptionVars =>
          [org.plan = "unlimited" /\ ~crossed => org'.plan = "unlimited"]_subscriptionVars
    BY GrantStep
  <1> QED
    BY <1>1, <1>2, <1>3, PTL DEF SubscriptionSpec, UnlimitedKept
-----------------------------------------------------------------------------
(* Events in order                                                         *)

\* The plan that the first n events make of a new organization's.
PlanAfter(n) == IF n = 0 THEN "free" ELSE PlanFor(events[n].status)

\* The first n events are handled, at most one handler is at work, on the last
\* of them once more or on the next, and the plan is theirs unless granted.
HandledUpTo(n) ==
    /\ handled = 1..n
    /\ \A h \in Handlers : handler[h].event # 0 =>
          /\ handler[h].event \in {n, n + 1}
          /\ handler[h].row.plan \in {"unlimited", PlanAfter(n)}
          /\ handler[h].row.plan = "unlimited" => org.plan = "unlimited"
          /\ \A g \in Handlers : handler[g].event # 0 => g = h
    /\ org.plan \in {"unlimited", PlanAfter(n)}

InTurn == \E n \in 0..Len(events) : HandledUpTo(n)

\* The last event of the only subscription has its status.
LastEvent ==
    /\ Subscribed = {} => Len(events) = 0
    /\ \A c \in Checkouts : Subscribed = {c} =>
          Len(events) > 0 /\ events[Len(events)].status = stripe[c]

\* Before any checkout no event is handled.
LEMMA InitInTurn ==
    ASSUME SubscriptionInit
    PROVE  InTurn /\ LastEvent
  <1>1. Len(events) = 0 /\ handled = {} /\ org.plan = "free"
        /\ \A h \in Handlers : handler[h].event = 0
    BY DEF SubscriptionInit, FreshRow, Idle
  <1>2. handled = 1..0
    BY <1>1
  <1>3. HandledUpTo(0)
    BY <1>1, <1>2 DEF HandledUpTo, PlanAfter
  <1>4. Subscribed = {}
    BY DEF SubscriptionInit, Subscribed
  <1> QED
    BY <1>1, <1>3, <1>4 DEF InTurn, LastEvent

\* More events leave what those before them made.
LEMMA MoreEventsInTurn ==
    ASSUME InTurn, Len(events) \in Nat, Len(events') \in Nat, Len(events') >= Len(events),
           \A i \in 1..Len(events) : events'[i] = events[i],
           org'.plan = org.plan, UNCHANGED <<handled, handler>>
    PROVE  InTurn'
  <1>1. PICK n \in 0..Len(events) : HandledUpTo(n)
    BY DEF InTurn
  <1>2. n = 0 \/ n \in 1..Len(events)
    OBVIOUS
  <1>3. PlanAfter(n)' = PlanAfter(n)
    BY <1>2 DEF PlanAfter
  <1>4. HandledUpTo(n)'
    BY <1>1, <1>3 DEF HandledUpTo
  <1>5. n \in 0..Len(events')
    OBVIOUS
  <1> QED
    BY <1>4, <1>5 DEF InTurn

\* What is paid, or changes, at Stripe is the last event.
LEMMA StripeInTurn ==
    ASSUME SubscriptionTypeOK, CustomerFirst, InTurn, LastEvent, NEW c \in Checkouts,
           Pay(c) \/ \E status \in Statuses : StatusChanges(c, status)
    PROVE  InTurn' /\ LastEvent'
  <1>1. events \in Seq(Events) /\ Len(events) \in Nat
        /\ stripe \in [Checkouts -> Statuses \cup {NoStatus}]
    BY DEF SubscriptionTypeOK
  <1>2. PICK status \in Statuses, more \in Seq(Events) :
          /\ stripe' = [stripe EXCEPT ![c] = status]
          /\ events' = events \o more
          /\ Len(more) > 0 /\ more[Len(more)].status = status
          /\ UNCHANGED <<org, handled, handler>>
    <2>1. CASE Pay(c)
      <3> DEFINE one == [SubscriptionEvent(c, "active") EXCEPT !.type = "completed"]
                 two == SubscriptionEvent(c, "active")
      <3>1. /\ checkout[c].at = "open" /\ stripe' = [stripe EXCEPT ![c] = "active"]
            /\ events' = events \o <<one, two>> \/ events' = events \o <<two, one>>
            /\ UNCHANGED <<org, handled, handler>>
        BY <2>1 DEF Pay
      <3>2. "active" \in Statuses /\ checkout[c].customer # NoId
        BY <3>1 DEF Statuses, Paid, CustomerFirst
      <3>3. one \in Events /\ two \in Events
        BY <3>2, EventType
      <3>4. one.status = "active" /\ two.status = "active"
        BY DEF SubscriptionEvent
      <3> HIDE DEF one, two
      <3>5. /\ <<one, two>> \in Seq(Events) /\ Len(<<one, two>>) = 2 /\ <<one, two>>[2] = two
            /\ <<two, one>> \in Seq(Events) /\ Len(<<two, one>>) = 2 /\ <<two, one>>[2] = one
        BY <3>3
      <3>6. PICK more \in Seq(Events) :
              events' = events \o more /\ Len(more) = 2 /\ more[2].status = "active"
        <4>1. CASE events' = events \o <<one, two>>
          BY <3>4, <3>5, <4>1
        <4>2. CASE events' = events \o <<two, one>>
          BY <3>4, <3>5, <4>2
        <4> QED
          BY <3>1, <4>1, <4>2
      <3>7. Len(more) > 0 /\ more[Len(more)].status = "active"
        BY <3>6
      <3> QED
        BY <3>1, <3>2, <3>6, <3>7
    <2>2. ASSUME NEW status \in Statuses, StatusChanges(c, status)
          PROVE  \E more \in Seq(Events) :
                   /\ stripe' = [stripe EXCEPT ![c] = status]
                   /\ events' = events \o more
                   /\ Len(more) > 0 /\ more[Len(more)].status = status
                   /\ UNCHANGED <<org, handled, handler>>
      <3> DEFINE e == SubscriptionEvent(c, status)
      <3>1. /\ stripe[c] # NoStatus /\ stripe' = [stripe EXCEPT ![c] = status]
            /\ events' = Append(events, e) /\ UNCHANGED <<org, handled, handler>>
        BY <2>2 DEF StatusChanges
      <3>2. e \in Events /\ e.status = status
        BY <3>1, EventType DEF CustomerFirst, SubscriptionEvent
      <3> HIDE DEF e
      <3>3. <<e>> \in Seq(Events) /\ Len(<<e>>) > 0 /\ <<e>>[Len(<<e>>)] = e
        BY <3>2
      <3>4. Append(events, e) = events \o <<e>>
        BY <1>1, <3>2
      <3> QED
        BY <3>1, <3>2, <3>3, <3>4
    <2> QED
      BY <2>1, <2>2
  <1>3. /\ Len(events') = Len(events) + Len(more) /\ Len(more) \in Nat
        /\ \A i \in 1..Len(events) + Len(more) :
              events'[i] = IF i <= Len(events) THEN events[i] ELSE more[i - Len(events)]
    BY <1>1, <1>2, ConcatProperties
  <1>4. /\ \A i \in 1..Len(events) : events'[i] = events[i]
        /\ Len(events') > Len(events) /\ Len(events') \in Nat
        /\ events'[Len(events')] = more[Len(more)]
    BY <1>1, <1>2, <1>3
  <1>5. InTurn'
    BY <1>1, <1>2, <1>4, MoreEventsInTurn
  <1>6. Subscribed' = Subscribed \cup {c} /\ stripe'[c] = status
    <2>1. NoStatus \notin Statuses
      BY DEF NoStatus, Statuses, Paid
    <2> QED
      BY <1>1, <1>2, <2>1 DEF Subscribed
  <1>7. LastEvent'
    <2>1. Len(events') > 0 /\ events'[Len(events')].status = stripe'[c]
      BY <1>1, <1>2, <1>4, <1>6
    <2>2. Subscribed' # {} /\ \A d \in Checkouts : Subscribed' = {d} => d = c
      BY <1>6
    <2> QED
      BY <2>1, <2>2 DEF LastEvent
  <1> QED
    BY <1>5, <1>7

\* The last number of an interval of naturals is its own.
LEMMA IntervalEnd ==
    ASSUME NEW m \in Nat, NEW n \in Nat, 1..m = 1..n
    PROVE  m = n
  <1>1. CASE m > n
    <2>1. m \in 1..m /\ m \notin 1..n
      BY <1>1
    <2> QED
      BY <2>1
  <1>2. CASE n > m
    <2>1. n \in 1..n /\ n \notin 1..m
      BY <1>2
    <2> QED
      BY <2>1
  <1> QED
    BY <1>1, <1>2

\* A handler takes the next event, or the last one again.
LEMMA LoadInTurn ==
    ASSUME SubscriptionTypeOK, InTurn, InOrder, NEW h \in Handlers, NEW i \in 1..Len(events),
           Load(h, i)
    PROVE  InTurn'
  <1>1. PICK n \in 0..Len(events) : HandledUpTo(n)
    BY DEF InTurn
  <1>2. /\ handler' = [handler EXCEPT ![h] = [event |-> i, row |-> org]]
        /\ \A g \in Handlers : handler[g].event = 0
        /\ handled = 1..(i - 1) \/ handled = 1..i
        /\ UNCHANGED <<org, events, handled>>
    BY DEF Load, Deliverable
  <1>3. i \in Nat /\ i - 1 \in Nat /\ n \in Nat /\ handled = 1..n
    BY <1>1 DEF SubscriptionTypeOK, HandledUpTo
  <1>4. i \in {n, n + 1}
    <2>1. CASE handled = 1..i
      BY <1>3, <2>1, IntervalEnd
    <2>2. CASE handled = 1..(i - 1)
      <3>1. n = i - 1
        BY <1>3, <2>2, IntervalEnd
      <3> QED
        BY <1>3, <3>1
    <2> QED
      BY <1>2, <2>1, <2>2
  <1>5. /\ handler'[h] = [event |-> i, row |-> org]
        /\ \A g \in Handlers : handler'[g].event # 0 => g = h
    BY <1>2 DEF SubscriptionTypeOK
  <1>6. PlanAfter(n)' = PlanAfter(n)
    BY <1>2 DEF PlanAfter
  <1>7. HandledUpTo(n)'
    BY <1>1, <1>2, <1>4, <1>5, <1>6 DEF HandledUpTo
  <1> QED
    BY <1>2, <1>7 DEF InTurn

\* What the handler commits is the plan of its event, unless it is granted.
LEMMA ApplyInTurn ==
    ASSUME SubscriptionTypeOK, InTurn, NEW h \in Handlers, Apply(h)
    PROVE  InTurn'
  <1>0. PICK m \in 0..Len(events), row \in Rows, e \in {events[handler[h].event]} :
          m = handler[h].event /\ row = handler[h].row /\ e = events[m]
    BY HandlerFacts
  <1>1. PICK n \in 0..Len(events) : HandledUpTo(n)
    BY DEF InTurn
  <1>2. /\ m # 0 /\ org' = Written(row, Applied(row, e), org)
        /\ handled' = handled \cup {m} /\ handler' = [handler EXCEPT ![h] = Idle]
        /\ events' = events
    BY <1>0 DEF Apply
  <1>3. /\ m \in 1..Len(events) /\ row \in Rows /\ e \in Events /\ org \in Rows
        /\ Len(events) \in Nat
    BY <1>0, <1>2, HandlerFacts DEF SubscriptionTypeOK
  <1>4. /\ m \in {n, n + 1} /\ row.plan \in {"unlimited", PlanAfter(n)}
        /\ row.plan = "unlimited" => org.plan = "unlimited"
        /\ \A g \in Handlers : handler[g].event # 0 => g = h
        /\ org.plan \in {"unlimited", PlanAfter(n)}
        /\ handled = 1..n
    BY <1>0, <1>1, <1>2 DEF HandledUpTo
  <1>5. /\ Applied(row, e) \in Rows
        /\ Applied(row, e).plan = IF row.plan = "unlimited" THEN row.plan ELSE PlanFor(e.status)
    BY <1>3, AppliedType DEF Applied
  <1>6. org'.plan = IF Applied(row, e).plan # row.plan THEN Applied(row, e).plan ELSE org.plan
    BY <1>2, <1>3, <1>5, WrittenPlan
  <1>7. PlanAfter(m)' = PlanFor(e.status) /\ PlanAfter(m) = PlanFor(e.status)
    BY <1>0, <1>2 DEF PlanAfter
  <1>8. PlanAfter(n) # "unlimited"
    BY DEF PlanAfter, PlanFor
  <1>9. org'.plan \in {"unlimited", PlanAfter(m)'}
    BY <1>4, <1>5, <1>6, <1>7, <1>8
  <1>10. handled' = 1..m
    BY <1>2, <1>3, <1>4
  <1>11. \A g \in Handlers : handler'[g].event = 0
    BY <1>2, <1>4 DEF Idle, SubscriptionTypeOK
  <1>12. HandledUpTo(m)'
    BY <1>9, <1>10, <1>11 DEF HandledUpTo
  <1>13. m \in 0..Len(events')
    BY <1>2, <1>3
  <1> QED
    BY <1>12, <1>13 DEF InTurn

\* Events in order, with what the types and the grant need.
OrderInv == GrantInv /\ InTurn /\ LastEvent

\* Every step keeps the events in turn, and the last one that of Stripe.
LEMMA InTurnStep ==
    ASSUME GrantInv, InTurn, LastEvent, InOrder, [SubscriptionNext]_subscriptionVars
    PROVE  InTurn' /\ LastEvent'
  <1>1. /\ SubscriptionTypeOK /\ CustomerFirst /\ org \in Rows /\ Len(events) \in Nat
        /\ handler \in [Handlers -> [event : 0..Len(events), row : Rows]]
    BY DEF GrantInv, SubscriptionTypeOK
  <1>2. ASSUME UNCHANGED <<stripe, events>>
        PROVE  LastEvent'
    BY <1>2 DEF LastEvent, Subscribed
  <1>3. CASE UNCHANGED subscriptionVars
    BY <1>1, <1>2, <1>3, MoreEventsInTurn DEF subscriptionVars
  <1>4. ASSUME NEW c \in Checkouts, LoadForCheckout(c) \/ CreateCustomer(c) \/ CreateSession(c)
        PROVE  InTurn' /\ LastEvent'
    <2>1. UNCHANGED <<stripe, events, handled, handler>> /\ org'.plan = org.plan
      BY <1>1, <1>4 DEF LoadForCheckout, CreateCustomer, CreateSession, Rows
    <2> QED
      BY <1>1, <1>2, <2>1, MoreEventsInTurn
  <1>5. ASSUME NEW c \in Checkouts, Pay(c) \/ \E status \in Statuses : StatusChanges(c, status)
        PROVE  InTurn' /\ LastEvent'
    BY <1>1, <1>5, StripeInTurn
  <1>6. CASE GrantUnlimited
    <2>1. UNCHANGED <<stripe, events, handled, handler>> /\ org'.plan = "unlimited"
      BY <1>1, <1>6 DEF GrantUnlimited, Rows
    <2>2. PICK n \in 0..Len(events) : HandledUpTo(n)
      BY DEF InTurn
    <2>3. HandledUpTo(n)'
      BY <2>1, <2>2 DEF HandledUpTo, PlanAfter
    <2> QED
      BY <1>2, <2>1, <2>3 DEF InTurn
  <1>7. ASSUME NEW h \in Handlers, NEW i \in 1..Len(events), Load(h, i)
        PROVE  InTurn' /\ LastEvent'
    BY <1>1, <1>2, <1>7, LoadInTurn DEF Load
  <1>8. ASSUME NEW h \in Handlers, Apply(h)
        PROVE  InTurn' /\ LastEvent'
    BY <1>1, <1>2, <1>8, ApplyInTurn DEF Apply
  <1>9. ASSUME NEW h \in Handlers, HandlerFails(h)
        PROVE  InTurn' /\ LastEvent'
    <2>1. /\ handler' = [handler EXCEPT ![h] = Idle]
          /\ UNCHANGED <<org, stripe, events, handled>>
      BY <1>9 DEF HandlerFails
    <2>2. \A g \in Handlers : handler'[g].event # 0 => handler'[g] = handler[g] /\ g # h
      BY <1>1, <2>1 DEF Idle
    <2>3. PICK n \in 0..Len(events) : HandledUpTo(n)
      BY DEF InTurn
    <2>4. PlanAfter(n)' = PlanAfter(n)
      BY <2>1 DEF PlanAfter
    <2>5. \A g \in Handlers : handler'[g].event # 0 => handler[g].event # 0
      BY <2>2
    <2>6. HandledUpTo(n)'
      BY <2>1, <2>2, <2>3, <2>4, <2>5 DEF HandledUpTo
    <2> QED
      BY <1>2, <2>1, <2>6 DEF InTurn
  <1> QED
    BY <1>3, <1>4, <1>5, <1>6, <1>7, <1>8, <1>9 DEF SubscriptionNext

\* With every event handled, the plan is that of the last one.
LEMMA InTurnIsRight ==
    ASSUME OrderInv
    PROVE  SettledPlanIsRight
  <1> SUFFICES ASSUME BillingSettled, org.plan # "unlimited"
               PROVE  /\ Subscribed = {} => org.plan = "free"
                      /\ \A c \in Checkouts : Subscribed = {c} => org.plan = PlanFor(stripe[c])
    BY DEF SettledPlanIsRight
  <1>1. PICK n \in 0..Len(events) : HandledUpTo(n)
    BY DEF OrderInv, InTurn
  <1>2. n \in Nat /\ Len(events) \in Nat /\ 1..n = 1..Len(events)
    BY <1>1 DEF OrderInv, GrantInv, SubscriptionTypeOK, HandledUpTo, BillingSettled
  <1>3. n = Len(events)
    BY <1>2, IntervalEnd
  <1>4. org.plan = PlanAfter(n)
    BY <1>1 DEF HandledUpTo
  <1>5. Subscribed = {} => org.plan = "free"
    BY <1>3, <1>4 DEF OrderInv, LastEvent, PlanAfter
  <1>6. ASSUME NEW c \in Checkouts, Subscribed = {c}
        PROVE  org.plan = PlanFor(stripe[c])
    <2>1. n > 0 /\ events[n].status = stripe[c]
      BY <1>3, <1>6 DEF OrderInv, LastEvent
    <2> QED
      BY <1>2, <1>4, <2>1 DEF PlanAfter
  <1> QED
    BY <1>5, <1>6

\* billing_service.py: when Stripe's events come one by one, in order, the plan
\* that is left when all are handled is that of the one subscription, however
\* many were replayed or failed on the way.
THEOREM PlanFollowsStripe ==
    ASSUME InOrder
    PROVE  SubscriptionSpec => []SettledPlanIsRight
  <1>1. SubscriptionInit => OrderInv
    BY SubscriptionInitType, InitInTurn DEF OrderInv
  <1>2. OrderInv /\ [SubscriptionNext]_subscriptionVars => OrderInv'
    BY SubscriptionTypeStep, GrantStep, InTurnStep DEF OrderInv, GrantInv
  <1>3. OrderInv => SettledPlanIsRight
    BY InTurnIsRight
  <1> QED
    BY <1>1, <1>2, <1>3, PTL DEF SubscriptionSpec
=============================================================================
