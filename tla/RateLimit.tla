------------------------------- MODULE RateLimit -------------------------------
(***************************************************************************)
(* The fixed window that brakes guessing at one route from one address     *)
(* (api/ratelimit.py): INCR a Redis key, EXPIRE it when it is new, refuse  *)
(* above the limit.  The two commands are not one transaction, a request   *)
(* may stop between them, and every Redis error lets the request through.  *)
(***************************************************************************)
EXTENDS Naturals, FiniteSets

CONSTANTS
    Requests,    \* requests that are under way at once
    PerMinute,   \* how many a window lets through
    MaxHits,     \* bound: requests counted in one window
    MaxWindows   \* bound: windows

ASSUME RateAssumption ==
    /\ IsFiniteSet(Requests)
    /\ PerMinute \in Nat /\ MaxHits \in Nat /\ MaxWindows \in Nat \ {0}

VARIABLES
    count,      \* the value of the key, 0 when there is none
    expiring,   \* the key has a time to live
    window,     \* windows so far, this one included
    request,    \* [Requests -> where it is, what INCR answered, in which window]
    admitted,   \* [window -> counted requests it let through]
    orphaned    \* the EXPIRE of the present key was lost

rateVars == <<count, expiring, window, request, admitted, orphaned>>

Windows == 1..MaxWindows

Away == [at |-> "away", n |-> 0, win |-> 1]

RateTypeOK ==
    /\ count \in Nat
    /\ expiring \in BOOLEAN /\ orphaned \in BOOLEAN
    /\ window \in Windows
    /\ request \in [Requests ->
         [at : {"away", "expire", "decide"}, n : Nat, win : Windows]]
    /\ admitted \in [Windows -> Nat]

RateInit ==
    /\ count = 0 /\ expiring = FALSE /\ orphaned = FALSE
    /\ window = 1
    /\ request = [r \in Requests |-> Away]
    /\ admitted = [w \in Windows |-> 0]

Leaves(r) == request' = [request EXCEPT ![r] = Away]

-----------------------------------------------------------------------------
\* r.incr(key); only the first of a window goes on to r.expire.
Incr(r) ==
    /\ request[r].at = "away"
    /\ count < MaxHits
    /\ count' = count + 1
    /\ request' = [request EXCEPT ![r] =
         [at |-> IF count' = 1 THEN "expire" ELSE "decide",
          n |-> count', win |-> window]]
    /\ UNCHANGED <<expiring, window, admitted, orphaned>>

\* mutant: the request takes a later count for the first.
SetExpiry_Late(r) ==
    /\ request[r].at = "expire"
    /\ request' = [request EXCEPT ![r].at = "decide"]
    /\ expiring' = (count > 1)
    /\ UNCHANGED <<count, window, admitted, orphaned>>

\* r.expire(key, WINDOW_SECONDS)
SetExpiry(r) ==
    /\ request[r].at = "expire"
    /\ request' = [request EXCEPT ![r].at = "decide"]
    /\ expiring' = TRUE
    /\ UNCHANGED <<count, window, admitted, orphaned>>

\* Redis fails at the EXPIRE (the request is let through, uncounted), or the
\* process dies there: the key stays, without a time to live.
ExpiryLost(r) ==
    /\ request[r].at = "expire"
    /\ orphaned' = TRUE
    /\ Leaves(r)
    /\ UNCHANGED <<count, expiring, window, admitted>>

\* mutant: off by one.
OverLimit_Late(n) == n > PerMinute + 1

OverLimit(n) == n > PerMinute

\* n > per_minute is a 429; anything else goes to the route.
Decide(r) ==
    /\ request[r].at = "decide"
    /\ admitted' = IF OverLimit(request[r].n) THEN admitted
                   ELSE [admitted EXCEPT ![request[r].win] = @ + 1]
    /\ Leaves(r)
    /\ UNCHANGED <<count, expiring, window, orphaned>>

\* The process dies with the answer not given.
RequestDies(r) ==
    /\ request[r].at = "decide"
    /\ Leaves(r)
    /\ UNCHANGED <<count, expiring, window, admitted, orphaned>>

\* Redis drops the key.
WindowEnds ==
    /\ expiring
    /\ window < MaxWindows
    /\ count' = 0 /\ expiring' = FALSE
    /\ window' = window + 1
    /\ UNCHANGED <<request, admitted, orphaned>>

RateNext ==
    \/ WindowEnds
    \/ \E r \in Requests :
         Incr(r) \/ SetExpiry(r) \/ ExpiryLost(r) \/ Decide(r) \/ RequestDies(r)

RateSpec == RateInit /\ [][RateNext]_rateVars

\* Redis expires keys; a request goes on, or is lost.
RateFairness ==
    /\ WF_rateVars(WindowEnds)
    /\ \A r \in Requests : WF_rateVars(SetExpiry(r) \/ ExpiryLost(r))

RateFairSpec == RateSpec /\ RateFairness

-----------------------------------------------------------------------------
\* However many requests are between their INCR and their answer, and whichever
\* window they answer in, a window lets no more than its limit through (those
\* that hits() could not count are not limited: it fails open).
AdmittedWithinLimit == \A w \in Windows : admitted[w] <= PerMinute

\* A window that refuses ends, so that an address is let in again: its key has a
\* time to live or the request that was the first is about to set it.  What the
\* code does not undo is an EXPIRE that was lost: then the key counts for good.
RefusalsEnd ==
    (count > PerMinute /\ ~orphaned /\ window < MaxWindows)
        ~> (count = 0 \/ orphaned)
=============================================================================
