# Tracely: TLA+ specification, model checking and proofs

Tracely ingests OTLP traces of LLM agents, grades them with evaluators (structural
checks and LLM judges), clusters what fails, raises alerts and gates pull requests.
This directory specifies the parts of the backend in which several workers, several
stores and unreliable delivery meet, checks them with TLC and proves what matters
most of them with TLAPS. Paths below are relative to `src/backend/tracely/`.

## 1. The system

```
 SDK -> POST /v1/traces -> blob (S3) -> Celery task ingest_otlp_blob
                                           | spans -> ClickHouse
                                           | bump(trace) -> Redis   schedule evaluate_run
                                           v
                                        evaluate_run (debounced per trace)
                                           | judges, scores -> ClickHouse
                                           | bump(thread) -> Redis  schedule evaluate_conversation,
                                           |   if an evaluator that takes the trace needs the thread
                                           v
                                        evaluate_conversation (debounced per thread)
                                           | thread lock (Redis), progress rows (Postgres),
                                           | judge conversations (LangGraph tables)
 UI  -> POST run_evaluations -------------^   (explicit run, in the API process)
 CI  -> POST /gate, /gate/simulate -> run_scenario_gate -> grade_scenario_gate -> GateRun row
 beat -> evaluate_monitors, prune_chats, selfcheck
```

| component | state it keeps | operations | what is hard |
|---|---|---|---|
| ingestion (`services/ingestion_service.py`, `workers/tasks.py`) | blobs, spans in ClickHouse | `ingest_otlp`, `process_blob`, `ingest_otlp_blob` | the whole task is retried and redelivered |
| debounce (`infrastructure/queue/eval_debounce.py`) | one Redis counter per trace and per thread, with a TTL | `bump`, `is_latest` | counter and queue change separately; either may fail |
| trace evaluation (`services/evaluation_service.py`) | scores (ReplacingMergeTree by write time) | `evaluate_trace`, `_dispatch_specs`, `write_eval_scores` | overlapping evaluations of one trace |
| thread pass (same file) | progress rows, chats, scores | `evaluate_thread`, `_run_turn_pass`, `_chain_starts` | three stores, no transaction, late turns, crashes |
| thread lock (`infrastructure/queue/thread_lock.py`) | one Redis key per thread | `thread_pass_lock` | bounded wait, TTL shorter than a slow pass, Redis down |
| judge conversations (`infrastructure/llm/checkpointer.py`, `llm_judge.py`) | one durable transcript per metric and thread | append, `reset_chat`, `prune` | append is not idempotent |
| gate (`services/gate_service.py`, `api/routers/gate.py`) | GateRun, GateCase | `run_gate`, `grade_scenarios` | two at-least-once tasks over one row, calls to a live endpoint |
| quota (`services/quota_service.py`) | Redis seen-set and cache, Postgres counter | `record_ingested_traces`, `quota_gate`, deletion of a workspace | two stores, stale cache, month boundary |
| billing (`services/billing_service.py`) | the billing columns of one organization | checkout, webhook events | replayed and late events, an operator's SQL beside them |
| rate limiting (`api/ratelimit.py`) | one Redis key per route and address | `INCR`, `EXPIRE` | two commands, requests that answer in a later window |
| failure clusters (`services/structural_clustering_service.py`) | clusters, their members and counts | `cluster_failure`, delete, ignore | two workers with one new signature, counts from an old read |
| monitors and alerts (`services/monitoring_service.py`) | `last_fired_at`, flow executions | `evaluate_all`, `evaluate_one`, `notify_event` | act before or after the record, overlapping runs, crashes |
| rolling summary (`services/rolling_summary_service.py`) | one row per span | `build_for_thread`, forced rebuild | incremental rows over late spans, overlapping passes |
| accounts and tenancy (`auth/provisioning.py` and its routers) | organizations, workspaces, memberships, invitations | create, invite, accept, revoke, remove, delete | checked in one statement, committed in another; deletion in many commits |

What makes each correct: a batch accepted is graded in the end, with its thread if it needs that; a
trace in several batches is graded once; the scores that stay are those of the
evaluation that saw the most; a chained grade is only fed verdicts of turns before it;
no turn is skipped for good; two passes of one thread exclude each other, and nobody
frees another's lock; a judge's conversation holds every turn once and in order; a
gate run ends, with the verdict of its worst half, and sends no conversation twice short of a crash;
a quota counts each trace once and refuses only at a limit that was in force; a plan follows
its subscription; a limit lets in what it says and opens again; a cluster's count is its
members', and it is alerted once; a monitor keeps quiet for its interval and records what it
has done; a summary holds every span before it; seats stay within the plan, nobody joins
uninvited, and nobody is left without a way in. `PROJECT.json` lists every component, modelled or not,
and every hazard with its line.

## 2. Modules

| module | what it is |
|---|---|
| `SequentialPass` | the settled-thread pass: turns arriving, automatic and explicit passes, lock, chats, progress rows, scores, eleven kinds of fault |
| `OrderedConversation` | what `checkpointer.py` promises of the judges' conversations; abstract specification, instantiated in `SequentialPass` |
| `MCSequentialPass`, `MCInterleavedPass` | TLC instances, and a history variable (`solo`: no other pass ran beside this one) |
| `SequentialPass_proof` | the theorems |
| `DebouncedEval`, `MCDebouncedEval` | from an accepted batch to its evaluation, and the sets of faults TLC is given |
| `DebouncedEval_proof` | its theorems |
| `GateRun`, `MCGateRun` | one gate run: the request, the drive task, the grade task, and the user's edits meanwhile |
| `GateRun_proof` | its theorems |
| `RateLimit`, `QuotaGate`, `UsageCount` | the fixed window, the gate in front of ingestion, the counter behind it |
| `Subscription` | one organization's plan: checkout, Stripe's events, the webhook's handlers |
| `FailureClusters`, `Alerts`, `RollingSummary` | the three services an evaluation or a beat sets off |
| `Accounts` | people, organizations, workspaces and invitations, with requests between check and commit |
| `MCServices` | those eight side by side, for TLC |
| `Limits_proof` (the first four), `AfterEvaluation_proof` (the next three), `Accounts_proof` | their theorems |
| `MCServices_proof` | that each keeps its theorems beside the others |
| `SumTheorems` | what a sum over a finite set does when the function changes at one place or at two |

### SequentialPass

`order` is what `thread_trace_ids` returns (by first start time, so `Arrive` inserts
anywhere), `due` the `evaluate_conversation` tasks that will run (a turn that no
sampled metric takes need not add one, `DueAfter`), `lock` the Redis key,
`chat` the LangGraph transcript of each metric (its items, named by their turn),
`progress` the `eval_chain_progress` rows (the turn ids, and the turn the stored payload
is about), `scored` the turns with a score. The code's locals (`turn_ids`, `starts`,
`chain`, the loop index, the metrics and results of the current turn) are arrays over
the passes. Every statement that touches a shared store is an action of its own, so
passes interleave between any two of them:

| action | code |
|---|---|
| `BeginAuto`, `BeginFull` | the debounced task; a user's run with chosen evaluators |
| `Acquire`, `ProceedUnlocked`, `Release`, `Expire` | `thread_pass_lock`; the wait times out or Redis fails, then the pass goes on |
| `ReadTurns`, `LoadStarts`, `ResetChat`, `ClearStale` | `_run_turn_pass` and `_chain_starts` |
| `NextTurn`, `Grade`, `WriteScores`, `Record`, `Recorded` | the loop over the turns |
| `Raise`, `Crash` | Celery retries, redelivers or gives up |

A verdict's text, the window of the transcript a judge is shown and the retry inside a
provider call are abstracted. `evaluate_conversation`, which runs after the lock is
released, keeps no chat and no rows and is left out; so is the explicit run of a single
trace. A thread of Step-level chats (one per trace) is a metric outside `RunLevel`.

### DebouncedEval

Ingest tasks are named by their batch; evaluation tasks live in slots. `Process`,
`BumpTrace`, `ScheduleTrace` are one loop of `ingest_otlp_blob`, `Fire`, `ReadSpans`,
`WriteScores`, `BumpThread`, `ScheduleThread` the evaluation of a trace and then its
thread. `key` is the Redis counter, `scores[x]` the batches that the evaluation behind
the current scores had read. Faults: Redis error (before or after the INCR), TTL, an
exception, the broker down, a crash with redelivery, a hard kill (acknowledged), an
`apply_async` that raises after the evaluation, and evaluators that cannot be loaded.

A trace's evaluation goes on to `BumpThread` only if its result says `needs_thread_pass`: some
conversation-level or sequential evaluator is left after targeting and sampling
(`NeedsThreadPass`). That is decided by what the evaluation has read: the trace's id, and the
agent, environment and thread that its spans name. The constant `Selected` says, for each
trace, with which of its batches read that is so, and is any set of them, so that a trace may
need the thread at first and no more once the rest is read, or the other way round. The
evaluators themselves do not change while the model runs; a user who switches one on does not
ask for what was graded before. `load_enabled_evaluators` answers a Postgres error with no
evaluators (`EvaluatorsUnread`, fault `unloaded`): nothing is graded, no thread pass is
scheduled, nothing is retried; so does, for an evaluator that targets an agent, a failing
lookup of the agent's slug. `evaluate_trace` also returns at once when the trace has no spans;
a task is scheduled only after its batch's spans are in ClickHouse, so it cannot meet that. A trace of internal spans is not
scheduled at all.

### GateRun

`row` is the `GateRun` row CI polls, `caseRow` and `scenRow` its `GateCase` rows (a scenario's
row is what was driven until it is a verdict), `exists`, `enabled` and `endpoint` the suite as
users edit it, `sent` how often each conversation went over the wire to the customer's agent.
Each task is a program counter with its session's view of the row: `dsnap` and `gsnap` are what
SQLAlchemy loaded, and `Flush` is its UPDATE, which names only the columns whose value differs
from what was loaded, so a session with an old view overwrites what it changed and nothing
else.

| action | code |
|---|---|
| `RunGate`, `RunGateEnds` | `POST /gate`: the cases alone, row committed first, in the request |
| `CreateRun`, `Delay` | `POST /gate/simulate`: the row, then `.delay` |
| `DriveLoad`, `DriveReset` | the drive starts: `finished_at` looked at once, rows of a former delivery dropped, cases replayed |
| `ListScenarios`, `Send`, `RecordScenario` | `_drive_scenarios`: what is left to drive, each conversation, each commit |
| `DriveFinish`, `ScheduleGrade`, `DriveAck` | counters of phase 1, `apply_async` of the grader, the acknowledgement |
| `GradeLoad`, `Finalize` | `grade_scenarios`: load, grade, one commit |
| `DriveRaises`, `GradeRaises`, `DriveDies`, `GradeDies` | `_mark_gate_error`; redelivery; a kill at the hard limit |
| `Edit` | a scenario switched or deleted, an endpoint registered |

The verdict of one case (`Replayed`) and of one conversation (`Possible`) are free choices; how
they become counters and a status is not: `FinalStatus`, `GateVerdict` and `Worst` are the
code's rules. `_mark_gate_error` reads and writes the row in one short transaction and is one
step, which may fail (fault `unmarked`): Postgres that let the task down is likely to let the
mark down too, and the drive's first read of the row is outside its `try`, so that a failure
there marks nothing. The task is acknowledged and the row stays RUNNING. The warning of a
stateless suite is committed by the code with a conversation and here with the counters. A
redelivered grade task can meet a drive that was redelivered too, hence two `Graders`.

### The services

| module | state | actions, and the code |
|---|---|---|
| `RateLimit` | `count`, `expiring`: the Redis key; `request`: what each request's INCR answered | `Incr`, `SetExpiry`, `Decide`: `hits` and `rate_limit`; `ExpiryLost`, `RequestDies`: a failure between the commands; `WindowEnds`: the TTL |
| `QuotaGate` | `counted` per month, `plan`, `cached` (one entry per month), `post`: a request at the gate | `Lookup`, `ReadPlan`, `ReadSum`, `Store`, `Decide429`: `quota_gate` and the two statements of `_usage_from_pg`; `CountTrace`, `ChangePlan`, `MonthEnds`, `CacheExpires` beside it |
| `UsageCount` | `seen` (Redis sets) and `used` (Postgres rows) per workspace and month | `AskPeriod`, `MarkSeen`, `Increment`: `record_ingested_traces`; `LoadSiblings`, `ReadCounters`, `CommitDelete`: `project_delete`; failures of either store and redelivery between any two |
| `Subscription` | `org`: the row; `stripe`, `events`: Stripe's side; `handler`: a webhook request with the row it loaded | `LoadForCheckout`, `CreateCustomer`, `CreateSession`: `create_checkout_session`; `Load`, `Apply`: `handle_webhook_event` |
| `FailureClusters` | `clusters`, `key`, `size`, `members`: the tables; `worker`: an evaluation's session | `Find`, `Create`, `Refind`, `ReadMember`, `Commit`, `Notify`: `cluster_failure`; `Delete`, `Ignore`: the users |
| `Alerts` | `lastFired`; `run`: a tick, test or event with the `last_fired_at` it loaded; `sentAt`: when each monitor acted | `EvaluateAll`, `EvaluateOne`, `NotifyEvent`, `Pass`, `FireChannels`, `CommitTick`, `FireFlow`, `RunFlow`, `RunEnds` |
| `RollingSummary` | `summary`: a row per span, with the spans it has taken in; `build`: a pass with what it read once; `late`: spans that landed, or whose turn moved, across some already taken up | `Before`: `_group_turns`; `ReadSpans`, `ReadRows`, `NextSpan`: `build_for_thread`; `ListRows`, `DeleteRows`: a forced rebuild |
| `Accounts` | `role`, `home`, `invite`: the rows; `call`: requests between their check and their commit | `BeginCall`: every refusal (`CanInvite`, `CanRemove`, ...); one commit per operation; `ListWorkspaces`, `DropWorkspace`, `DeleteOrg`: the many commits of one deletion |

A handler that checks in one statement and writes in another is two actions, one that has a
session is a record with what the session loaded, and an UPDATE writes the columns that differ
from it. The walk of a rolling summary goes turn by turn: `_group_turns` puts the spans of a
trace together and the traces in the order of their first span, so with turns that overlap it
is not the order of the spans' starts, and a span that lands can move its whole turn in front
of another. `Before(S, y, x)` is that order for the spans S; a pass walks in the order of what
it read, and what it has not read or what has another place there is `late` (spans with equal
starts, whose order ClickHouse leaves open, are numbered apart). What a summary says, a
signature's text, whether a monitor's condition holds and Stripe's reasons for an event are
values or free choices. The services share no state that the properties of one could see in
another (the plan is in `QuotaGate` a value that changes, which is all that `Subscription`
makes of it for the gate), so `MCServices` runs them side by side: `part` says which one moves,
and a behaviour is one of one service.

Some history variables say what a guarantee excludes, and each is set by the one thing in
the code that breaks it: `orphaned` (an EXPIRE lost), `lost` and `doubled` (a delta dropped;
two deletions of one workspace), `crossed` (a grant between load and commit), `staleCounts`
(a count written from an old one), `unalerted`, `overlapped` and `broken`, `late`,
`staleCommits` (a commit whose check did not hold any more), `evicted`, `halved`.

## 3. Runs

| run | question | result |
|---|---|---|
| `seq_exclusive` | without faults, do chat, rows and scores stay in step and converge? | holds: `TranscriptMatchesRow`, refinement `ChatIsOrderedConversation`, liveness `Converges` |
| `seq_faults` | what survives any two faults? | holds: `OneWriter`, `ReleasesOnlyItsOwn`, `PayloadFromRecordedTurn`, `NoTurnRecordedUngraded`, `PassInv`, `RepeatsBoundedByFaults` |
| `seq_interleave` | does the prefix check heal an interleave, as `thread_lock.py` says? | violated |
| `seq_crash` | does a pass start at what the conversation holds, as `_chain_starts` says? | violated |
| `debounce_faults` | does the debounce lose or duplicate work under a fault? | holds: `NothingForgotten` and the invariant `Covered` behind it, `OneSurvivor` and `Generations` behind it |
| `debounce_live` | is every accepted batch graded? | holds: `EveryBatchGraded` |
| `debounce_stale` | is over-evaluating safe, as `eval_debounce.py` says? | violated without any fault |
| `debounce_dropped` | does the last thread task standing run, as `tasks.py` says? | violated: `LastOneStandingRuns` |
| `gate_faults` | do the counters and the verdict of a run fit its rows, does it end, does it stay ended? | holds: `CountsAddUp`, `GreenIsEarned`, `SentOncePerCrash`, `SettledStaysSettled`, liveness `EveryRunEnds` |
| `gate_green` | can an unrunnable suite finish green? `gate_service.py` says not | violated without any fault |
| `services` | what does each of the eight services promise, with its requests overlapping and its faults? | holds: `AdmittedWithinLimit`, `RefusalsEnd`; `RefusalJustified`, `UpgradeOpensGate`; `NeverOvercounts`, `ExactWithoutFaults`; `SettledPlanIsRight` (events in order), `UnlimitedKept`; `CountFollowsMembers`, `OneAlertPerCluster`; `QuietWithinInterval`, `RecordedFiringActed`; `OnlyLateSpansMissing`; `SeatsWithinCap`, `JoinsByPendingInvite`, `OrgKeepsOwnerAndWorkspace`, `NobodyStranded` |
| `billing_order` | are the webhook's state sets safe under replay and out-of-order delivery, as `billing_service.py` says? | violated |

The six violations are findings; `PROJECT.json` quotes the lines. In short: the
progress row does not know the chat, so a chat that has run ahead of it (crash) or holds
a turn twice (interleave) is continued as it is; score rows are versioned by when they
were written and not by what was read; the thread's generation that a turn bumped and could not
schedule supersedes the task of the turn that bumped before it, the only one left; the grader asks whether the endpoint is missing now, so
one registered after the drive gave up turns a run that drove nothing green; the webhook
compares no times, so a replayed first event revives a plan that is no longer paid.

Other divergences were met while modelling. They are excluded by name where a property is
about them, and have no run of their own:

- An evaluation that meets a Postgres error while it loads the evaluators (`unloaded`) ends as
  if there were none: its trace is not graded and its thread not scheduled
  (`evaluation_service.py:814`).
- A gate run whose task fails before its `try`, or whose ERROR mark fails as well (`unmarked`), stays
  RUNNING, "a row stuck on RUNNING that CI polls forever" (`tasks.py:239`).
- A process that dies between INCR and EXPIRE (`orphaned`) leaves a key that refuses an
  address for good once it is over the limit (`api/ratelimit.py:45`).
- A trace whose batches arrive on both sides of a month's end counts in both months, although
  the seen-set is kept longer "so late batches of a month-boundary trace still dedupe"
  (`quota_service.py:46`): a late batch asks the new month's set. The properties are per month.
- Two concurrent deletions of one workspace charge its traces to the heir twice (`doubled`),
  against "never overcounts" at the head of `quota_service.py`.
- Two checkouts before the first payment open two subscriptions; cancelling one sets the
  plan free. `SettledPlanIsRight` is about one subscription.
- A commit that fails in a tick (a monitor deleted after it was loaded) ends the tick, and
  the monitors after it wait for the next (`workers/tasks.py:254` promises "logged + skipped").
- Two runs of the monitoring engine at once act twice within an interval (`overlapped`), and
  a crash in a flow leaves its execution row running.
- After a late span the last row of a thread is not a summary of all of it (`late`) until a
  user forces a rebuild.
- Two concurrent deletions of an organization's last two workspaces leave it without any
  (`staleCommits`), which `delete_workspace` means to refuse.
- A deletion of an organization that stops half way (`halved`) leaves one that nobody can
  open, and that still counts toward its owner's cap.
- "Members keep their own personal workspace" (`api/routers/auth.py:181`) is untrue for those
  who registered by an invitation: the deletion leaves them outside (`evicted`).
- A revocation that read PENDING overwrites an ACCEPTED that was committed meanwhile; an
  invitation that is past its date keeps its seat.

`Generations`, `OneSurvivor` assume that Redis answers and no key expires, which is what the
counter is for; `Covered`, `NothingForgotten` and `EveryBatchGraded` assume neither, and
exclude by name the three ways the code does lose a target (`Dropped`; `lost`: retries used up
or a hard kill; `unscheduled`: bumped and not scheduled; `unloaded`: evaluators that could not
be read), the second of which `debounce_dropped` shows. They speak of the thread only for a
trace that, as it is stored, needs the thread pass (`Needs`). `graded` is what evaluations have
read, and says of a trace that an evaluation of it read these spans, whichever evaluators took
them. `CountsAddUp` and `GreenIsEarned` hold for runs that are `Undisturbed`: no crash of the
drive after it queued the grader (the redelivered drive then runs beside the grader and resets
what it counts), and no edit together with a crash (the redelivered drive finds a different
suite than the one it has rows for). Without either half of the condition TLC finds violations.
`EveryRunEnds` excludes a request that died, a task killed at the hard limit and a failure that
could not be marked (`unmarked`): nothing in the code ends such a row, it stays RUNNING.

**Bounds.** Two passes are what a race needs: a third only repeats the role of one of them.
Three turns in `seq_exclusive` let a late turn land before, between and after turns already
recorded; two metrics differ in sampling and in keeping a chat. In `seq_faults` one metric, two
turns and any two faults: every fault can meet every other, in either order, at every step (the
proofs below lift the bounds). `MaxFull` is the number of explicit runs. The debounce runs have
two batches and two slots; a trace's task turns into its thread's, so two slots hold both. In
`debounce_faults` the first trace needs the thread until its second batch is read and the
second always does (`AsRead`); in `debounce_live` the trace does once it is whole
(`OnceWhole`); in `debounce_dropped` two turns of one batch each do. `MaxFaults` is 1 there
(with 2 and one trace the safety properties hold as well). A crash between bump and schedule
counts as `unscheduled`, the name under which the weaker guarantee excludes it. The gate has
two scenarios (one can be driven, deleted or switched while the other is not), one case (its
three verdicts already make every status of the regression half), a pass rate of one half, one
fault and one edit; its safety properties hold with two faults and one scenario as well.

The services have two or three requests at once, as a race needs, and the smallest limits at
which a request is refused and one is not: two per window of four hits and two windows; a quota
of one or two with one trace counted and one change of plan over two months (the free limit is
reached, the pro limit is not); two workspaces and two batches that share a trace; two
checkouts and one change at Stripe; three failing traces of two signatures that say the same,
two evaluations and one cluster at a time to create (a second would be another race of the same
kind); two monitors, one of each kind, an interval of two in three ticks of time; three spans
of two turns that overlap, any of which may be late or move its turn; two people, one company,
three workspaces, two invitations, two requests at once and four in all (`MaxCalls`), with two
seats. `billing_order` needs one checkout and one change only. The proofs lift these bounds for
every safety property that the runs find to hold.

**Fairness.** `SequentialPass!Fairness`: the broker delivers a due task, a worker that
runs goes on, Redis expires keys. `DebouncedEval!Fairness`: a queued task is delivered
and a started one goes on. `GateRun!Fairness`: the same of the drive, the request before
it, and each grader. `RateFairness`, `QuotaFairness`: Redis expires a key that has a time to
live, and a request that is under way goes on or is lost. All are what Celery with `acks_late` and Redis give while
they run. Nothing is assumed of arrivals, users or faults, and `MaxFaults` makes faults
finite: liveness is claimed once they stop.

**Deadlock** checking is off: a quiet system with nothing posted really stops.

## 4. Proofs

Each theorem holds for every value of the constants that meets the module's named
assumption, and assumes nothing else; only `PlanFollowsStripe` (and `ServicesPlan`) also
assumes `InOrder`, and `ConversationsOrdered` that the faults are among `MildFaults`.

`SequentialPass_proof`, for any sets of turns, metrics, passes and faults:

| theorem | property |
|---|---|
| `Invariance` | `IInv` = `TypeOK` /\ `PassInv` /\ `RowsInv` is inductive |
| `TypeCorrect` | `TypeOK` |
| `PayloadSound`, `ProgressSound` | a row's payload is about a turn it records; a sampled turn it records is scored |
| `PassesSound` | `PassInv`: what every running pass can vouch for |
| `LockExclusive` | `OneWriter` |
| `ReleaseSound` | `ReleasesOnlyItsOwn` |
| `RepeatsBounded` | `RepeatsBoundedByFaults` |
| `ConversationsOrdered` | `ChatIsOrderedConversation`: the refinement, for the faults named below |
| `TranscriptSound` | `TranscriptMatchesRow` |

A promise about rows is not inductive: a row is written from a pass's local state, which
other passes' steps must not invalidate. `PassInv` says what a pass knows between its
start decision and its last row: the payload it carries is about a turn already dealt
with (`ChainInv`), each sampled turn dealt with has its score (`ScoredInv`), and a due
metric that had its go has a result in hand (`JudgedInv`). That survives other passes
because scores only grow (`Grows`) and a pass reads the order and the rows once
(`Frame`). `RowUpToKeeps` turns it into the promise of the row. None of it uses the
lock, which is why it holds under every lock fault. `OneWriter` is inductive given types.

The chats need more, and the lock. How often a conversation repeats itself follows from one
invariant, `RepeatInv`, for runs of one writer (`OneWriter`) with working resets. A turn that
is on the chat, in no row, and not in the hands of a pass about to record it is `Loose`: some
later pass tells it again. `PaidInv`: per metric, repeats and loose turns together never
outnumber the faults. Each step of a pass is one of four kinds (`Kept`, `Gone`, `Repeated`,
`Loosened`; lemma `Tally`): telling a loose turn trades it for a repeat, and only a crash, a
raised task or a lost progress write makes one loose. That no other turn is told twice is
`HeldInv` (what chat and row both hold, the pass at work has dealt with or has in hand) and
`StaleInv` (a row about to be cleared belongs to a chat already emptied).

`ConversationsOrdered` is for faults that make nothing loose: a failed load, clear, judge or
checkpointer (`MildFaults`); for others TLC shows `seq_crash` and `seq_interleave`. By
`TiedInv` no turn is loose then, so a turn that is told is new and a step of a pass maps to
`Grow`, `Restart` or a stutter. `TranscriptSound` adds the order. `OrderInv` says that a row is
the first turns of what its pass read, that a chat is ordered as they are, and that it
holds the sampled ones among those dealt with and those under way (`PassOrder`, `Steady`);
with no pass at work the row and the chat are all there is. A late turn makes the row no
prefix, and `OrderInv` then holds of the chat that starts over.

`DebouncedEval_proof`, for any batches, traces, slots, retries and faults:

| theorem | property |
|---|---|
| `TypeCorrect` | `TypeOK`, with `BusyInv`: a slot at work has a target, an ingest task bumps only its batch's traces |
| `GenerationsHeldOnce` | `Generations` |
| `OneSurvives` | `OneSurvivor`, a consequence: two tasks that both hold the newest generation are one |
| `StoredIsCovered` | `Covered` |
| `NoneForgotten` | `NothingForgotten`, `Covered` with an empty queue |

That the last task of a target never stands down says nothing of how it got there, so it
is not inductive. `Covered` is: each stored span either was read by an evaluation, or
someone who will read it is on the way and not superseded (an ingest task that will bump,
a task that has not read yet, one that has read the span and will write). For the thread, of a
trace that as stored needs it, also an evaluation of the trace that has read what takes it to
the thread counts; one that has read less may stop short, for the ingest task of the batch that
brought the rest covers the trace from the moment that batch is stored (`StoreCover`). A bump
supersedes everybody else on that target, and the proof's main case is that the bumper
itself then covers what they covered, having yet to read. A crash returns a holder to an
earlier place of the same list; an expiry or an error makes more tasks run and not fewer.

`GateRun_proof`, for any cases, scenarios, graders, pass rate, faults and edits:

| theorem | property |
|---|---|
| `Invariance` | `IInv` = `TypeInv` /\ `UnsettledInv` is inductive |
| `TypeCorrect` | `TypeOK` |
| `SettledForGood` | `SettledStaysSettled` |
| `CountersOfTheRows` | `CountsAddUp` |
| `GreenOnlyIfEarned` | `GreenIsEarned` |
| `SentOnceForEachCrash` | `SentOncePerCrash` |

The type invariant is not inductive by itself: a grader takes what it loads for
conversations still to be graded, so types depend on `UnsettledInv`: an unfinished run
has no graded conversation, a grader at work loaded an unfinished row, and no task exists
before the row. `SettledForGood` then has one case per action: with the run finished and
nobody at work, each is disabled, leaves at once (`Over`), or marks an ended row, which
`Marked` leaves alone.

The counters are about runs that are `Undisturbed`, and what holds of those is `Calm`: the
tasks work one at a time, the drive and then one grader (`OneTask`), so a session knows the
row as it is (`InSession`, `Loaded`); the drive counts the rows it will have given
(`Listing`) and leaves the regression half's counters to the grader (`Tallied`); the grader
adds those of the conversations it graded and of those it swept, which are disjoint and are
all the rows. `GreenIsEarned` is then what `gate_verdict` says of those numbers.
`DisturbedStays` makes `Undisturbed` a fact about the whole past.

`SentOnceForEachCrash` needs the number behind the guarantee: sends and the conversations that
may go out again (sent, without a row, within reach of a drive, and not just now on the wire)
are together at most the conversations sent and the crashes (`SentBound`). A crash adds to
both sides; `DriveShape` says that a drive has one scenario between the wire and its row, so
that a crash adds one.

`Limits_proof`, for any requests, limits, windows, months and plans:

| theorem | property |
|---|---|
| `RateTypes`, `QuotaTypes` | `RateTypeOK`, `QuotaTypeOK` |
| `LimitHolds` | `AdmittedWithinLimit` |
| `RefusalsAreJustified` | `RefusalJustified` |
| `UsageTypes` | `UsageTypeOK` |
| `UsageNeverOvercounts`, `UsageExactWithoutFaults` | `NeverOvercounts`, `ExactWithoutFaults` |
| `SubscriptionTypes` | `SubscriptionTypeOK` |
| `GrantIsKept`, `PlanFollowsStripe` | `UnlimitedKept`, `SettledPlanIsRight` |

A window that has let in no more than its limit could still exceed it: what is missing is
the requests between their INCR and their answer. `RateInv` adds them: what a window admitted
and has promised fits under the limit (`NotOverpromised`), in the present window all of it
was counted (`EachWasCounted`), and a later window has admitted and promised nothing.
`QuotaInv` says of every cache entry and every request at the gate that its cap has been in
force and its count was the month's at some time (`CacheIsPast`, `PostIsPast`); that stays
true because a month's count only grows and a cap in force stays recorded.

`UsageInv` carries the two sums themselves. `BatchBalances` says what a step of a task moves from
one summand to another (ids newly seen become the task's delta, the delta becomes the
counter's), and `CommitDeleteBalances` that a deletion moves its counters to its heir:
`DeletionSound` says that the rows it read are no more than the counters still are, so what
it takes along late can be lost but not counted twice. `SumTheorems` turns "changed here by
this much" into the sum; it gets there from the fold of the community modules without
induction over data, by the smallest set for which the claim would fail.

Of billing, `SubscriptionTypes` and `GrantIsKept` (`UnlimitedKept`) are for events
in any order. `GrantSeen`: while a grant stands that crossed no handler, each handler at work has
loaded it, so none writes the plan. `CustomerFirst` types the customer of a session: a
checkout with a URL has one, and only a paid one has a subscription. `PlanFollowsStripe`
(`SettledPlanIsRight`) is for events in order: the first n are handled for some n, the plan
is theirs, and the one handler at work has the n-th once more or the next (`HandledUpTo`);
the last event of the only subscription has the status it has at Stripe (`LastEvent`).

`AfterEvaluation_proof`: `ClusterTypes`, `CountsFollow` (`CountFollowsMembers`) and
`AlertedOnce` (`OneAlertPerCluster`), for any number of racing evaluations. `WorkersSound`
says what a session can vouch for of the cluster it loaded: its count was at most the members
there were, and members only grow while the cluster exists. `AboutToAlert`: whoever is about
to alert is the only one for its cluster, and the first.
The same module proves of the rolling summary `SummaryRowsUnique` (`SummaryTypeOK`, one row
a span) and `SummariesMissOnlyLate` (`OnlyLateSpansMissing`), for any assignment of spans to
turns. `WalkIsStrict` and `WalkIsTransitive`: the order of `_group_turns` is one, for every set of
spans. `PassReads`: what is not late has, before and after the spans a pass has read, the place
it had when the pass read them, and the pass has done the first of them; `PassCarries`: what it
carries on has taken in all spans so far but the late ones. With `RowsCover`, the same of the
rows, this survives every overlap of passes. `RowsInPlace` counts the spans before a row's own,
while none is late.

The same module proves of the monitors `AlertTypes`, `RecordIsTrue` (`RecordedFiringActed`) and `IntervalIsQuiet`
(`QuietWithinInterval`). `ActedInv` covers what a session has fired and not recorded;
`Quiet` says what holds while runs do not overlap: the `last_fired_at` a run has loaded is
the one in the table, and a monitor's acts are recorded, or will be by the run at work.

`Accounts_proof`, for any people, companies, requests at once and caps:

| theorem | property |
|---|---|
| `AccountTypes` | `AccountTypeOK` |
| `OnlyTheInvitedJoin` | `JoinsByPendingInvite` |
| `SeatsHold` | `SeatsWithinCap` |
| `OwnerAndWorkspaceKept` | `OrgKeepsOwnerAndWorkspace` |
| `NobodyLeftOut` | `NobodyStranded` |

`AccountInv` says what a request between check and commit may speak of: `CallsMakeSense`;
`AcceptsOnesOwn`, a pending invitation is of the person of every request to accept it, which
is the whole of `OnlyTheInvitedJoin`; `PersonalOrgsHaveAccounts`. `SeatsHold` needs
`GoneIsEmpty` (who creates an organization is alone in it) and counts: an acceptance trades
an invitation for a member, and an invitation finds a seat or is one stale commit more.
`RemovesNoOwner` keeps the one owner although roles are checked before: a role that was not
OWNER does not become it. `DropsOwn`, a deletion drops only its organization's workspaces,
confines what a half-done deletion can take, and `NobodyLeftOut` then has one lemma per
operation: whoever loses a way in by it either was found another in the same state
(`AnotherWay`) or is evicted.

`MCServices_proof` is about the composition that TLC runs: a step of it is a step of one part
and leaves the others alone, so `PartsAsAlone`, and with it every theorem above holds side by
side (`ServicesTypes` for `ServicesTypeOK`, `ServicesSafe`, `ServicesSteps`, and
`ServicesPlan` for events in order).

Every invariant and action property of the passing runs is thus a theorem. Out of the prover's
reach, and checked by TLC only, is liveness (`Converges`, `EveryBatchGraded`, `EveryRunEnds`,
`RefusalsEnd`, `UpgradeOpensGate`). The theorems about `SequentialPass` and `GateRun` that
speak of faults count them by `faults`, which `MaxFaults` bounds in both; it may be any
number.

## 5. What is left

1. Judge conversations: the nightly prune and its keep window beside a running pass.
2. The merge of clusters by Analyze beside `cluster_failure`.
3. Promotion of a trace to a regression case.

## 6. Not modelled

The larger part of the repository's lines is outside these modules, and most of it keeps no
state that could go wrong between two steps: the frontend and its skills, the SDK and its
examples, OTLP parsing and span mapping, prompts and formatting, schemas and migrations, the
read side of the API and its queries, seeding and demo data. Modelling them would restate
functions of their input. What is left out of the modelled parts:

- Failure intelligence, meta analysis and the assistants: prompts around queries.
- The verdict of one conversation (`domain/evaluation/verdict.py`): a rule over one list of
  scores; `GateRun` chooses its outcome freely.
- `Accounts`: ADMIN (an owner in all but deleting the organization), the date of an
  invitation, the first registrant (`bootstrap_owner`), passwords and sessions, Clerk.
- `Alerts`: the test alert of an event monitor, which writes nothing.
- `QuotaGate`: that deletions may lower a month's sum; `UsageCount` has the deletions.
- `RollingSummary`: compaction, and the override of a judge's history by a summary.
- `SequentialPass`: `evaluate_conversation` and the explicit run of a single trace.
