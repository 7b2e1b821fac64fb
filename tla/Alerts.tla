--------------------------------- MODULE Alerts ---------------------------------
(***************************************************************************)
(* Firing the monitors of one project (services/monitoring_service.py):    *)
(* the beat's tick over the polled ones, a user's test of one, and the     *)
(* events that evaluations, gates and clusters raise.  Each works through  *)
(* the monitors as its session loaded them.  A monitor with a flow is      *)
(* recorded as fired first and acts after; one with channels acts first    *)
(* and is recorded after.  Whether a condition holds is a free choice, and *)
(* so is whether it is polled or waits for events: users edit it.          *)
(***************************************************************************)
EXTENDS Naturals

CONSTANTS
    Channels, Flows,   \* the monitors, by what they do when they fire
    Runs,              \* ticks, tests and events under way at once
    MinInterval,       \* min_interval_seconds
    MaxNow,            \* bound: time
    MaxStarts          \* bound: runs

Monitors == Channels \cup Flows

ASSUME AlertAssumption ==
    /\ Channels \cap Flows = {}
    /\ MinInterval \in Nat
    /\ MaxNow \in Nat \ {0} /\ MaxStarts \in Nat

VARIABLES
    now,        \* time
    lastFired,  \* [Monitors -> last_fired_at, 0 when never]
    run,        \* [Runs -> a run at work, and what its session knows]
    starts,     \* runs so far
    sentAt,     \* [Monitors -> the times under which it has acted]
    early,      \* monitors that acted within the interval of an earlier time
    overlapped, \* two runs have been at work at once
    broken      \* a run died or raised

alertVars == <<now, lastFired, run, starts, sentAt, early, overlapped, broken>>

Times == 1..MaxNow

\* left: the monitors to go, with the last_fired_at that was loaded of each;
\* fired: those fired and not committed; flow: the one whose flow runs next.
Done == [at |-> "done", kind |-> "tick", clock |-> 1,
         left |-> {}, loaded |-> [m \in Monitors |-> 0], fired |-> {}, flow |-> {}]

RunRecords ==
    [at : {"done", "loop", "commit", "flow"}, kind : {"tick", "event"},
     clock : Times, left : SUBSET Monitors, loaded : [Monitors -> 0..MaxNow],
     fired : SUBSET Monitors, flow : SUBSET Flows]

AlertTypeOK ==
    /\ now \in Times
    /\ lastFired \in [Monitors -> 0..MaxNow]
    /\ run \in [Runs -> RunRecords]
    /\ starts \in 0..MaxStarts
    /\ sentAt \in [Monitors -> SUBSET Times]
    /\ early \subseteq Monitors
    /\ overlapped \in BOOLEAN /\ broken \in BOOLEAN

AlertInit ==
    /\ now = 1
    /\ lastFired = [m \in Monitors |-> 0]
    /\ run = [r \in Runs |-> Done]
    /\ starts = 0
    /\ sentAt = [m \in Monitors |-> {}]
    /\ early = {}
    /\ overlapped = FALSE /\ broken = FALSE

alertGhosts == <<sentAt, early>>

TimePasses ==
    /\ now < MaxNow
    /\ now' = now + 1
    /\ UNCHANGED <<lastFired, run, starts, alertGhosts, overlapped, broken>>

-----------------------------------------------------------------------------
\* The monitors are loaded: all (a tick, and an event, which takes its time
\* here), or one (a test).
Start(r, kind, which) ==
    /\ run[r].at = "done"
    /\ starts < MaxStarts /\ starts' = starts + 1
    /\ run' = [run EXCEPT ![r] =
         [Done EXCEPT !.at = "loop", !.kind = kind, !.left = which,
                      !.clock = IF kind = "event" THEN now ELSE 1,
                      !.loaded = [m \in Monitors |->
                                    IF m \in which THEN lastFired[m] ELSE 0]]]
    /\ overlapped' = (overlapped \/ \E q \in Runs : run[q].at # "done")
    /\ UNCHANGED <<now, lastFired, alertGhosts, broken>>

EvaluateAll(r) == Start(r, "tick", Monitors)

EvaluateOne(r) == \E m \in Monitors : Start(r, "tick", {m})

NotifyEvent(r) == Start(r, "event", Monitors)

\* A tick takes the time anew for each monitor.
TimeOf(r) == IF run[r].kind = "tick" THEN now ELSE run[r].clock

\* mutant: the interval is not looked at.
ShouldNotify_Always(last, t) == TRUE

\* _should_notify
ShouldNotify(last, t) == last = 0 \/ t >= last + MinInterval

\* The monitor acts, under this time.
Acts(m, t) ==
    /\ sentAt' = [sentAt EXCEPT ![m] = @ \cup {t}]
    /\ early' = IF \E s \in sentAt[m] : t < s + MinInterval
                THEN early \cup {m} ELSE early

\* The run of r goes on with the next monitor but m.
Past(r, m) == [run[r] EXCEPT !.left = @ \ {m}, !.loaded[m] = 0]

\* The condition does not hold, the event is another's, the samples failed, or
\* the interval is not over: no more than last_evaluated_at is written.
Pass(r, m) ==
    /\ run[r].at = "loop" /\ m \in run[r].left
    /\ run' = [run EXCEPT ![r] = Past(r, m)]
    /\ UNCHANGED <<now, lastFired, starts, alertGhosts, overlapped, broken>>

\* mutant: recorded first.
FireChannels_Record(r, m) ==
    /\ run[r].at = "loop" /\ m \in run[r].left \cap Channels
    /\ ShouldNotify(run[r].loaded[m], TimeOf(r))
    /\ lastFired' = [lastFired EXCEPT ![m] = TimeOf(r)]
    /\ run' = [run EXCEPT ![r] = Past(r, m)]
    /\ UNCHANGED <<now, starts, alertGhosts, overlapped, broken>>

\* dispatch_alert; what it did is not recorded yet.
FireChannels(r, m) ==
    /\ run[r].at = "loop" /\ m \in run[r].left \cap Channels
    /\ ShouldNotify(run[r].loaded[m], TimeOf(r))
    /\ Acts(m, TimeOf(r))
    /\ run' = [run EXCEPT ![r] =
         [Past(r, m) EXCEPT !.clock = TimeOf(r), !.fired = @ \cup {m},
            !.at = IF run[r].kind = "tick" THEN "commit" ELSE "loop"]]
    /\ UNCHANGED <<now, lastFired, starts, overlapped, broken>>

\* s.commit() of what a session has fired.
Recorded(fired, t) ==
    lastFired' = [m \in Monitors |-> IF m \in fired THEN t ELSE lastFired[m]]

\* A flow's firing is committed first, with what the event has fired so far.
FireFlow(r, m) ==
    /\ run[r].at = "loop" /\ m \in run[r].left \cap Flows
    /\ ShouldNotify(run[r].loaded[m], TimeOf(r))
    /\ Recorded(run[r].fired \cup {m}, TimeOf(r))
    /\ run' = [run EXCEPT ![r] =
         [Past(r, m) EXCEPT !.clock = TimeOf(r), !.fired = {},
            !.at = "flow", !.flow = {m}]]
    /\ UNCHANGED <<now, starts, alertGhosts, overlapped, broken>>

\* What is left of the clock of a tick once it has fired: nothing.
NextClock(r) == IF run[r].kind = "tick" THEN 1 ELSE run[r].clock

\* run_flow: its execution row and its steps.
RunFlow(r) ==
    /\ run[r].at = "flow"
    /\ \E m \in run[r].flow : Acts(m, run[r].clock)
    /\ run' = [run EXCEPT ![r].at = "loop", ![r].flow = {}, ![r].clock = NextClock(r)]
    /\ UNCHANGED <<now, lastFired, starts, overlapped, broken>>

\* A tick's commit after each monitor.
CommitTick(r) ==
    /\ run[r].at = "commit"
    /\ Recorded(run[r].fired, run[r].clock)
    /\ run' = [run EXCEPT ![r].at = "loop", ![r].fired = {}, ![r].clock = NextClock(r)]
    /\ UNCHANGED <<now, starts, alertGhosts, overlapped, broken>>

\* The run has been through its monitors; an event commits now.
RunEnds(r) ==
    /\ run[r].at = "loop" /\ run[r].left = {}
    /\ Recorded(run[r].fired, run[r].clock)
    /\ run' = [run EXCEPT ![r] = Done]
    /\ UNCHANGED <<now, starts, alertGhosts, overlapped, broken>>

\* The process dies; or a commit fails and the run raises, which it does for a
\* monitor that was deleted after it was loaded.
Breaks(r) ==
    /\ run[r].at # "done"
    /\ run' = [run EXCEPT ![r] = Done]
    /\ broken' = TRUE
    /\ UNCHANGED <<now, lastFired, starts, alertGhosts, overlapped>>

AlertNext ==
    \/ TimePasses
    \/ \E r \in Runs :
         \/ EvaluateAll(r) \/ EvaluateOne(r) \/ NotifyEvent(r)
         \/ \E m \in Monitors : Pass(r, m) \/ FireChannels(r, m) \/ FireFlow(r, m)
         \/ RunFlow(r) \/ CommitTick(r) \/ RunEnds(r) \/ Breaks(r)

AlertSpec == AlertInit /\ [][AlertNext]_alertVars

-----------------------------------------------------------------------------
\* A monitor does not act twice within its interval, unless two runs were at
\* work at once, each on what it had loaded; or, for channels only, a run broke
\* between sending and recording.  A flow is never run again for a crash.
QuietWithinInterval ==
    /\ early # {} => overlapped \/ broken
    /\ early \cap Flows # {} => overlapped

\* Whatever overlaps or breaks, a firing that is recorded, and so
\* silences the monitor for an interval, has been acted on: for channels always,
\* for a flow unless it is about to be or its run broke.
RecordedFiringActed ==
    \A m \in Monitors : lastFired[m] # 0 =>
        \/ lastFired[m] \in sentAt[m]
        \/ /\ m \in Flows
           /\ broken \/ \E r \in Runs : m \in run[r].flow
=============================================================================
