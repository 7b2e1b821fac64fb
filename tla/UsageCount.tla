------------------------------- MODULE UsageCount -------------------------------
(***************************************************************************)
(* The monthly trace counter.  An ingest task adds its batch's trace ids   *)
(* to the Redis set of its workspace and month and adds to the Postgres    *)
(* counter as many as were new; deleting a workspace bequeaths its         *)
(* counters to the oldest other one of the organization.  Tasks are        *)
(* retried and redelivered, the month may end between any two steps, and   *)
(* two people may delete at once.                                          *)
(***************************************************************************)
EXTENDS Naturals, FiniteSets, FiniteSetsExt, Functions

CONSTANTS
    Workspaces,     \* the organization's, numbered by age
    Traces,         \* external traces
    Batches,        \* ingest tasks, with the traces and the workspace of each
    TracesOf, WorkspaceOf,
    Deleters,       \* requests to delete a workspace
    CountedMonths   \* bound: months

ASSUME UsageAssumption ==
    /\ Workspaces \subseteq Nat /\ IsFiniteSet(Workspaces) /\ Workspaces # {}
    /\ IsFiniteSet(Traces) /\ IsFiniteSet(Batches)
    /\ TracesOf \in [Batches -> SUBSET Traces]
    /\ WorkspaceOf \in [Batches -> Workspaces]
    /\ CountedMonths \in Nat \ {0}

VARIABLES
    period,     \* current_period()
    alive,      \* the workspaces that have a row
    seen,       \* [Workspaces -> [month -> ids in the Redis set]]
    used,       \* [Workspaces -> [month -> usage_counters.traces]]
    batch,      \* [Batches -> where its task is, its period and its delta]
    deletion,   \* [Deleters -> where it is, of what, for whom, which counters]
    lost,       \* a fault or a race has dropped a delta
    doubled     \* two requests have bequeathed the same counters

usageVars == <<period, alive, seen, used, batch, deletion, lost, doubled>>

CounterMonths == 1..CountedMonths

NoneUsed == [m \in CounterMonths |-> 0]

Queued == [at |-> "queued", period |-> 1, n |-> 0]

NoDeletion == [at |-> "none", of |-> Min(Workspaces), heirs |-> {}, rows |-> NoneUsed]

UsageTypeOK ==
    /\ period \in CounterMonths
    /\ alive \subseteq Workspaces
    /\ seen \in [Workspaces -> [CounterMonths -> SUBSET Traces]]
    /\ used \in [Workspaces -> [CounterMonths -> Nat]]
    /\ batch \in [Batches ->
         [at : {"queued", "ingested", "counting", "done"}, period : CounterMonths, n : Nat]]
    /\ deletion \in [Deleters ->
         [at : {"none", "siblings", "rows", "done"}, of : Workspaces,
          heirs : SUBSET Workspaces, rows : [CounterMonths -> Nat]]]
    /\ lost \in BOOLEAN /\ doubled \in BOOLEAN

UsageInit ==
    /\ period = 1
    /\ alive = Workspaces
    /\ seen = [w \in Workspaces |-> [m \in CounterMonths |-> {}]]
    /\ used = [w \in Workspaces |-> NoneUsed]
    /\ batch = [b \in Batches |-> Queued]
    /\ deletion = [d \in Deleters |-> NoDeletion]
    /\ lost = FALSE /\ doubled = FALSE

NextPeriod ==
    /\ period < CountedMonths
    /\ period' = period + 1
    /\ UNCHANGED <<alive, seen, used, batch, deletion, lost, doubled>>

-----------------------------------------------------------------------------
(* record_ingested_traces, at the end of an ingest task                    *)

\* process_blob is done, and the task asks which month it is.
AskPeriod(b) ==
    /\ batch[b].at = "queued"
    /\ batch' = [batch EXCEPT ![b].at = "ingested", ![b].period = period]
    /\ UNCHANGED <<period, alive, seen, used, deletion, lost, doubled>>

\* mutant: every id of the batch counts.
NewIds_All(w, m, ids) == ids

\* What SADD counts: the ids that the set did not hold.
NewIds(w, m, ids) == ids \ seen[w][m]

\* SADD; with no new id the task is done.
MarkSeen(b) ==
    LET w == WorkspaceOf[b]
        m == batch[b].period
        n == Cardinality(NewIds(w, m, TracesOf[b]))
    IN /\ batch[b].at = "ingested"
       /\ seen' = [seen EXCEPT ![w][m] = @ \cup TracesOf[b]]
       /\ batch' = [batch EXCEPT ![b].at = IF n > 0 THEN "counting" ELSE "done",
                                 ![b].n = n]
       /\ UNCHANGED <<period, alive, used, deletion, lost, doubled>>

\* usage_increment for a live workspace: the UPDATE, or the INSERT of the first
\* row, or the UPDATE of the row another worker inserted.
Added(u, w, m, n) == [u EXCEPT ![w][m] = @ + n]

\* usage_increment and its commit; the row of a deleted workspace cannot be
\* inserted, nor updated.
Increment(b) ==
    LET w == WorkspaceOf[b]
    IN /\ batch[b].at = "counting"
       /\ batch' = [batch EXCEPT ![b].at = "done", ![b].n = 0]
       /\ IF w \in alive
          THEN used' = Added(used, w, batch[b].period, batch[b].n) /\ UNCHANGED lost
          ELSE lost' = TRUE /\ UNCHANGED used
       /\ UNCHANGED <<period, alive, seen, deletion, doubled>>

\* Redis fails, before the ids are in the set or after.
RedisFails(b) ==
    LET w == WorkspaceOf[b]
        m == batch[b].period
    IN /\ batch[b].at = "ingested"
       /\ seen' \in {seen, [seen EXCEPT ![w][m] = @ \cup TracesOf[b]]}
       /\ batch' = [batch EXCEPT ![b].at = "done"]
       /\ lost' = TRUE
       /\ UNCHANGED <<period, alive, used, deletion, doubled>>

\* Postgres fails after the SADD: the delta is gone.
PostgresFailsToCount(b) ==
    /\ batch[b].at = "counting"
    /\ batch' = [batch EXCEPT ![b].at = "done", ![b].n = 0]
    /\ lost' = TRUE
    /\ UNCHANGED <<period, alive, seen, used, deletion, doubled>>

\* The worker dies; the broker delivers the task again, and once more when the
\* acknowledgement was what it lost.
BatchRedelivered(b) ==
    /\ batch[b].at # "queued"
    /\ batch' = [batch EXCEPT ![b] = Queued]
    /\ lost' = (lost \/ batch[b].at = "counting")
    /\ UNCHANGED <<period, alive, seen, used, deletion, doubled>>

-----------------------------------------------------------------------------
(* DELETE /project                                                         *)

\* The name and the siblings, in a session of their own; the last workspace is
\* refused.
LoadSiblings(d, w) ==
    /\ deletion[d].at = "none"
    /\ w \in alive /\ alive # {w}
    /\ deletion' = [deletion EXCEPT ![d] =
         [@ EXCEPT !.at = "siblings", !.of = w, !.heirs = alive \ {w}]]
    /\ UNCHANGED <<period, alive, seen, used, batch, lost, doubled>>

\* project_delete: SELECT the counters, no lock.
ReadCounters(d) ==
    /\ deletion[d].at = "siblings"
    /\ deletion' = [deletion EXCEPT ![d] =
         [@ EXCEPT !.at = "rows", !.rows = used[deletion[d].of]]]
    /\ UNCHANGED <<period, alive, seen, used, batch, lost, doubled>>

\* mutant: the counters die with the workspace.
Bequeathed_None(u, w, heir, rows) == [u EXCEPT ![w] = NoneUsed]

\* usage_increment of the heir for every row, then the rows are deleted.
Bequeathed(u, w, heir, rows) ==
    [u EXCEPT ![w] = NoneUsed,
              ![heir] = IF heir \in alive THEN [m \in CounterMonths |-> @[m] + rows[m]] ELSE @]

\* The rest of project_delete, to its commit.
CommitDelete(d) ==
    LET w == deletion[d].of
        heir == Min(deletion[d].heirs)
        rows == deletion[d].rows
    IN /\ deletion[d].at = "rows"
       /\ used' = Bequeathed(used, w, heir, rows)
       /\ alive' = alive \ {w}
       /\ lost' = (lost \/ heir \notin alive \/ (w \in alive /\ used[w] # rows))
       /\ doubled' = (doubled \/ (w \notin alive /\ rows # NoneUsed))
       /\ deletion' = [deletion EXCEPT ![d] = [NoDeletion EXCEPT !.at = "done"]]
       /\ UNCHANGED <<period, seen, batch>>

\* The request dies or the transaction fails: nothing of it stays.
DeleteFails(d) ==
    /\ deletion[d].at \in {"siblings", "rows"}
    /\ deletion' = [deletion EXCEPT ![d] = [NoDeletion EXCEPT !.at = "done"]]
    /\ UNCHANGED <<period, alive, seen, used, batch, lost, doubled>>

UsageNext ==
    \/ NextPeriod
    \/ \E b \in Batches :
         \/ AskPeriod(b) \/ MarkSeen(b) \/ Increment(b)
         \/ RedisFails(b) \/ PostgresFailsToCount(b) \/ BatchRedelivered(b)
    \/ \E d \in Deleters :
         \/ \E w \in Workspaces : LoadSiblings(d, w)
         \/ ReadCounters(d) \/ CommitDelete(d) \/ DeleteFails(d)

UsageSpec == UsageInit /\ [][UsageNext]_usageVars

-----------------------------------------------------------------------------
\* The traces of a month that were seen, over all workspaces ever.
SeenIn(m) == SumFunction([w \in Workspaces |-> Cardinality(seen[w][m])])

\* Those that are counted, and those that a task is about to count.
UsedIn(m) == SumFunction([w \in Workspaces |-> used[w][m]])

AboutIn(m) ==
    SumFunction([b \in Batches |-> IF batch[b].period = m THEN batch[b].n ELSE 0])

CountedIn(m) == UsedIn(m) + AboutIn(m)

\* Retries, redeliveries, batches that share a trace, failures of either store
\* and deletions never count a trace twice in a month; only two requests that
\* delete the same workspace at once charge its traces to the heir twice.
NeverOvercounts == doubled \/ \A m \in CounterMonths : CountedIn(m) <= SeenIn(m)

\* Short of a fault, and of a deletion that races a count or its heir's own
\* deletion, the count is exact: deleting workspaces resets no quota.
ExactWithoutFaults ==
    lost \/ doubled \/ \A m \in CounterMonths : CountedIn(m) = SeenIn(m)
=============================================================================
