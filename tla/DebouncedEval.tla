---------------------------- MODULE DebouncedEval ----------------------------
(***************************************************************************)
(* From an accepted OTLP batch to its evaluation.  ingest_otlp_blob writes *)
(* a batch's spans to ClickHouse and, for every trace in it, bumps a Redis *)
(* generation counter and schedules evaluate_run with that generation.  A  *)
(* task runs only if its generation is still the newest when it fires, so  *)
(* that a trace arriving in several batches is graded once it goes quiet.  *)
(* A trace's evaluation does the same for evaluate_conversation, keyed by  *)
(* the thread, if the trace's evaluators need a pass over the thread.      *)
(* Counter, queue and stores fail and expire independently.                *)
(*                                                                         *)
(* The tasks a worker has for one thread: ingest tasks are named by their  *)
(* batch, evaluation tasks live in slots.  What evaluate_conversation does *)
(* inside is SequentialPass.                                               *)
(***************************************************************************)
EXTENDS Naturals, FiniteSets

CONSTANTS
    Batches,      \* OTLP posts
    Traces,       \* the thread's traces
    Thread,       \* the thread itself, a target of evaluation like a trace
    TracesOf,     \* [Batches -> SUBSET Traces]: the non-internal traces
    Selected,     \* [Traces -> SUBSET SUBSET Batches]: with which of its
                  \* batches read, a trace needs the thread pass
    Slots,        \* evaluation tasks that can be outstanding
    NoTarget,
    Faults,       \* the kinds of fault that may strike
    MaxFaults,    \* how many may strike in all
    IngestRetries,  \* max_retries of ingest_otlp_blob
    EvalRetries     \* max_retries of the evaluation tasks

Targets == Traces \cup {Thread}

FaultKinds ==
    {"redis_error", "ttl", "raise", "broker_down", "crash", "killed", "unscheduled",
     "unloaded"}

ASSUME ConstantsAssumption ==
    /\ Thread \notin Traces
    /\ NoTarget \notin Targets
    /\ Traces \cap {"new", "queued", "bump", "done", "lost"} = {}
    /\ TracesOf \in [Batches -> (SUBSET Traces) \ {{}}]
    /\ Selected \in [Traces -> SUBSET ((SUBSET Batches) \ {{}})]
    /\ Batches \cap Slots = {}
    /\ Faults \subseteq FaultKinds
    /\ MaxFaults \in Nat
    /\ IngestRetries \in Nat
    /\ EvalRetries \in Nat

VARIABLES
    stored,     \* batches whose spans are in ClickHouse
    key,        \* [Targets -> Nat]: the generation counter, 0 when absent
    scores,     \* [Targets -> SUBSET Batches]: the batches whose spans the
                \* evaluation that wrote the current scores had read
    graded,     \* the same for all evaluations so far
    struck,     \* the kinds of fault that have struck, "lost" for a task that
                \* gave up
    faults      \* how many have struck

VARIABLES
    ingest,     \* [Batches -> where its ingest task is]
    left,       \* [Batches -> SUBSET Traces]: trace_ids still to schedule
    pc,         \* [Slots -> where the evaluation task is]
    target,     \* [Slots -> Targets]: what it evaluates
    gen,        \* [Slots -> Nat]: the generation it was scheduled with
    read,       \* [Slots -> SUBSET Batches]: whose spans it has read
    tag,        \* [Batches \cup Slots -> Nat]: a generation bumped, not used yet
    tries       \* [Batches \cup Slots -> Nat]: retries so far

redis == key
results == <<scores, graded>>
faultVars == <<struck, faults>>
slotVars == <<pc, target, gen, read>>
work == <<tag, tries>>

vars == <<stored, redis, results, faultVars, ingest, left, slotVars, work>>

-----------------------------------------------------------------------------
Workers == Batches \cup Slots

Init ==
    /\ stored = {}
    /\ key = [x \in Targets |-> 0]
    /\ scores = [x \in Targets |-> {}]
    /\ graded = [x \in Targets |-> {}]
    /\ struck = {} /\ faults = 0
    /\ ingest = [b \in Batches |-> "new"]
    /\ left = [b \in Batches |-> {}]
    /\ pc = [r \in Slots |-> "free"]
    /\ target = [r \in Slots |-> NoTarget]
    /\ gen = [r \in Slots |-> 0]
    /\ read = [r \in Slots |-> {}]
    /\ tag = [w \in Workers |-> 0]
    /\ tries = [w \in Workers |-> 0]

\* Faults of these kinds strike now, as one.
Strikes(kinds) ==
    /\ kinds \subseteq Faults \cup {"lost"}
    /\ faults < MaxFaults
    /\ struck' = struck \cup kinds
    /\ faults' = faults + 1

NoFault == UNCHANGED faultVars

\* The spans a target has: a trace's, or all of the thread's.
Spans(x) == {b \in stored : x = Thread \/ x \in TracesOf[b]}

-----------------------------------------------------------------------------
(* eval_debounce                                                           *)

\* mutant: INCR without the increment.
NextGen_Same(x) == IF key[x] = 0 THEN 1 ELSE key[x]

\* mutant: DECR.
NextGen_Decr(x) == key[x] - 1

\* INCR.
NextGen(x) == key[x] + 1

\* bump: the generation goes to worker w.  On a Redis error it is the ungated
\* sentinel 0, whether or not the INCR went through.
Bump(w, x) ==
    \/ /\ key' = [key EXCEPT ![x] = NextGen(x)]
       /\ tag' = [tag EXCEPT ![w] = NextGen(x)]
       /\ NoFault
    \/ /\ key' \in {key, [key EXCEPT ![x] = NextGen(x)]}
       /\ tag' = [tag EXCEPT ![w] = 0]
       /\ Strikes({"redis_error"})

\* mutant: an absent key supersedes.
Superseded_Closed(g, x) == g > 0 /\ key[x] # g

\* ~_should_run: another batch has bumped the key since.
Superseded(g, x) == g > 0 /\ key[x] > 0 /\ key[x] # g

\* The key's TTL passes: nothing bumped it for an hour.
Expire(x) ==
    /\ key[x] > 0
    /\ key' = [key EXCEPT ![x] = 0]
    /\ Strikes({"ttl"})
    /\ UNCHANGED <<stored, results, ingest, left, slotVars, work>>

-----------------------------------------------------------------------------
(* ingest_otlp_blob                                                        *)

\* The API has put the blob and enqueued the task.
Post(b) ==
    /\ ingest[b] = "new"
    /\ ingest' = [ingest EXCEPT ![b] = "queued"]
    /\ UNCHANGED <<stored, redis, results, faultVars, left, slotVars, work>>

\* process_blob: the spans are in ClickHouse (again, after a retry).
Process(b) ==
    /\ ingest[b] = "queued"
    /\ stored' = stored \cup {b}
    /\ ingest' = [ingest EXCEPT ![b] = "bump"]
    /\ left' = [left EXCEPT ![b] = TracesOf[b]]
    /\ UNCHANGED <<redis, results, faultVars, slotVars, work>>

\* eval_debounce.bump of one of the batch's traces: the next to schedule.
BumpTrace(b, t) ==
    /\ ingest[b] = "bump"
    /\ t \in left[b]
    /\ Bump(b, t)
    /\ ingest' = [ingest EXCEPT ![b] = t]
    /\ left' = [left EXCEPT ![b] = @ \ {t}]
    /\ UNCHANGED <<stored, results, slotVars, tries>>

\* An evaluation task is queued in slot r.
Enqueue(r, x, g) ==
    /\ pc' = [pc EXCEPT ![r] = "queued"]
    /\ target' = [target EXCEPT ![r] = x]
    /\ gen' = [gen EXCEPT ![r] = g]
    /\ read' = [read EXCEPT ![r] = {}]

\* apply_async of evaluate_run for the trace just bumped.
ScheduleTrace(b, r) ==
    /\ ingest[b] \in Traces
    /\ pc[r] = "free"
    /\ Enqueue(r, ingest[b], tag[b])
    /\ tag' = [tag EXCEPT ![b] = 0]
    /\ tries' = [tries EXCEPT ![r] = 0]
    /\ ingest' = [ingest EXCEPT ![b] = "bump"]
    /\ UNCHANGED <<stored, redis, results, faultVars, left>>

\* The loop is over.  What follows only counts the traces for billing and
\* cannot fail the task; then it is acknowledged.
Ingested(b) ==
    /\ ingest[b] = "bump"
    /\ left[b] = {}
    /\ ingest' = [ingest EXCEPT ![b] = "done"]
    /\ UNCHANGED <<stored, redis, results, faultVars, left, slotVars, work>>

Ingesting(b) == ingest[b] \in {"queued", "bump"} \cup Traces

\* The ingest task starts over, from the blob, or is lost.
Restart(b, to, n) ==
    /\ ingest' = [ingest EXCEPT ![b] = to]
    /\ left' = [left EXCEPT ![b] = {}]
    /\ tag' = [tag EXCEPT ![b] = 0]
    /\ tries' = [tries EXCEPT ![b] = n]

\* mutant: an apply_async that failed is passed over.
AfterFailure_Ignored(b) == [to |-> "done", n |-> tries[b], fault |-> {}]

\* self.retry: the whole task again, up to max_retries.
AfterFailure(b) ==
    IF tries[b] < IngestRetries
    THEN [to |-> "queued", n |-> tries[b] + 1, fault |-> {}]
    ELSE [to |-> "lost", n |-> tries[b], fault |-> {"lost"}]

\* process_blob raises, before or after its insert, or apply_async does.
IngestFails(b) ==
    /\ \/ ingest[b] = "queued" /\ Strikes({"raise"} \cup AfterFailure(b).fault)
          /\ stored' \in {stored, stored \cup {b}}
       \/ ingest[b] \in Traces /\ Strikes({"broker_down"} \cup AfterFailure(b).fault)
          /\ UNCHANGED stored
    /\ Restart(b, AfterFailure(b).to, AfterFailure(b).n)
    /\ UNCHANGED <<redis, results, slotVars>>

\* The worker dies and the broker redelivers the unacknowledged task, or the
\* hard time limit kills it, which acknowledges it.
IngestDies(b) ==
    /\ Ingesting(b)
    /\ \/ Strikes({"crash"}) /\ Restart(b, "queued", tries[b])
       \/ Strikes({"killed", "lost"}) /\ Restart(b, "lost", tries[b])
    /\ UNCHANGED <<stored, redis, results, slotVars>>

-----------------------------------------------------------------------------
(* evaluate_run_task and evaluate_conversation_task                        *)

\* The slot is free again.
Freed(r) ==
    /\ pc' = [pc EXCEPT ![r] = "free"]
    /\ target' = [target EXCEPT ![r] = NoTarget]
    /\ gen' = [gen EXCEPT ![r] = 0]
    /\ read' = [read EXCEPT ![r] = {}]
    /\ tag' = [tag EXCEPT ![r] = 0]
    /\ tries' = [tries EXCEPT ![r] = 0]

\* is_latest: a superseded task ends here, and a Redis error lets it run.
Fire(r) ==
    /\ pc[r] = "queued"
    /\ \/ Superseded(gen[r], target[r]) /\ Freed(r) /\ NoFault
       \/ /\ \/ ~Superseded(gen[r], target[r]) /\ NoFault
             \/ gen[r] > 0 /\ Strikes({"redis_error"})
          /\ pc' = [pc EXCEPT ![r] = "read"]
          /\ UNCHANGED <<target, gen, read, work>>
    /\ UNCHANGED <<stored, redis, results, ingest, left>>

\* The evaluation reads the target's spans, once, at its start.
ReadSpans(r) ==
    /\ pc[r] = "read"
    /\ read' = [read EXCEPT ![r] = Spans(target[r])]
    /\ pc' = [pc EXCEPT ![r] = "write"]
    /\ UNCHANGED <<stored, redis, results, faultVars, ingest, left, target, gen, work>>

\* needs_thread_pass: some conversation or sequential evaluator takes the trace,
\* as its spans read so far name its agent, environment and thread.
NeedsThreadPass(r) == target[r] \in Traces /\ read[r] \in Selected[target[r]]

\* write_eval_scores: deterministic ids, so the rows replace those of any
\* earlier write.  A trace's evaluation goes on to its thread, or is over.
WriteScores(r) ==
    /\ pc[r] = "write"
    /\ scores' = [scores EXCEPT ![target[r]] = read[r]]
    /\ graded' = [graded EXCEPT ![target[r]] = @ \cup read[r]]
    /\ \/ ~NeedsThreadPass(r) /\ Freed(r)
       \/ /\ NeedsThreadPass(r)
          /\ pc' = [pc EXCEPT ![r] = "bump"]
          /\ UNCHANGED <<target, gen, read, work>>
    /\ UNCHANGED <<stored, redis, faultVars, ingest, left>>

\* load_enabled_evaluators fails: no evaluators, so nothing is graded, nothing
\* is passed on to the thread and nothing is retried.
EvaluatorsUnread(r) ==
    /\ pc[r] = "write"
    /\ Strikes({"unloaded"})
    /\ Freed(r)
    /\ UNCHANGED <<stored, redis, results, ingest, left>>

\* eval_debounce.bump of the thread, after a trace's evaluation.
BumpThread(r) ==
    /\ pc[r] = "bump"
    /\ Bump(r, Thread)
    /\ pc' = [pc EXCEPT ![r] = "schedule"]
    /\ UNCHANGED <<stored, results, ingest, left, target, gen, read, tries>>

\* apply_async of evaluate_conversation; the trace's task is over, so the new
\* one takes its slot.  If it raises nothing retries: the task just fails.
ScheduleThread(r) ==
    /\ pc[r] = "schedule"
    /\ \/ /\ Enqueue(r, Thread, tag[r])
          /\ tag' = [tag EXCEPT ![r] = 0]
          /\ tries' = [tries EXCEPT ![r] = 0]
          /\ NoFault
       \/ Freed(r) /\ Strikes({"unscheduled"})
    /\ UNCHANGED <<stored, redis, results, ingest, left>>

\* The evaluation task is queued again, with its generation.
Requeue(r, n) ==
    /\ pc' = [pc EXCEPT ![r] = "queued"]
    /\ read' = [read EXCEPT ![r] = {}]
    /\ tag' = [tag EXCEPT ![r] = 0]
    /\ tries' = [tries EXCEPT ![r] = n]
    /\ UNCHANGED <<target, gen>>

\* The evaluation raises: self.retry, up to max_retries.
EvalFails(r) ==
    /\ pc[r] \in {"read", "write"}
    /\ \/ tries[r] < EvalRetries /\ Requeue(r, tries[r] + 1) /\ Strikes({"raise"})
       \/ tries[r] >= EvalRetries /\ Freed(r) /\ Strikes({"raise", "lost"})
    /\ UNCHANGED <<stored, redis, results, ingest, left>>

\* As IngestDies.  A trace's task that dies with the thread bumped and not
\* scheduled may come back superseded, and never schedule it.
EvalDies(r) ==
    /\ pc[r] \in {"read", "write", "bump", "schedule"}
    /\ \/ /\ Requeue(r, tries[r])
          /\ Strikes(IF pc[r] = "schedule" THEN {"crash", "unscheduled"} ELSE {"crash"})
       \/ Freed(r) /\ Strikes({"killed", "lost"})
    /\ UNCHANGED <<stored, redis, results, ingest, left>>

-----------------------------------------------------------------------------
\* What the tasks do by themselves.
IngestStep(b) ==
    \/ Process(b)
    \/ \E t \in Traces : BumpTrace(b, t)
    \/ \E r \in Slots : ScheduleTrace(b, r)
    \/ Ingested(b)

EvalStep(r) ==
    \/ Fire(r) \/ ReadSpans(r) \/ WriteScores(r) \/ BumpThread(r) \/ ScheduleThread(r)

Next ==
    \/ \E x \in Targets : Expire(x)
    \/ \E b \in Batches : Post(b) \/ IngestStep(b) \/ IngestFails(b) \/ IngestDies(b)
    \/ \E r \in Slots : EvalStep(r) \/ EvaluatorsUnread(r) \/ EvalFails(r) \/ EvalDies(r)

Spec == Init /\ [][Next]_vars

\* The broker delivers every queued task and a worker goes on with what it
\* has started.  Posts and faults owe us nothing.
Fairness ==
    /\ \A b \in Batches : WF_vars(IngestStep(b))
    /\ \A r \in Slots : WF_vars(EvalStep(r))

FairSpec == Spec /\ Fairness

-----------------------------------------------------------------------------
(* Properties                                                              *)

TypeOK ==
    /\ stored \subseteq Batches
    /\ key \in [Targets -> Nat]
    /\ scores \in [Targets -> SUBSET Batches]
    /\ graded \in [Targets -> SUBSET Batches]
    /\ struck \subseteq Faults \cup {"lost"}
    /\ faults \in Nat
    /\ ingest \in [Batches -> {"new", "queued", "bump", "done", "lost"} \cup Traces]
    /\ left \in [Batches -> SUBSET Traces]
    /\ pc \in [Slots -> {"free", "queued", "read", "write", "bump", "schedule"}]
    /\ target \in [Slots -> Targets \cup {NoTarget}]
    /\ gen \in [Slots -> Nat]
    /\ read \in [Slots -> SUBSET Batches]
    /\ tag \in [Workers -> Nat]
    /\ tries \in [Workers -> Nat]

Struck(kinds) == struck \cap kinds # {}

\* Nothing queued, nothing running.
Quiet ==
    /\ \A b \in Batches : ~Ingesting(b)
    /\ \A r \in Slots : pc[r] = "free"

\* A generation is held by one holder only, and is no newer than the counter:
\* by a slot for what it evaluates, by a slot for the thread it has bumped, by
\* an ingest task for the trace it has bumped.
Generations ==
    ~Struck({"redis_error", "ttl"}) =>
        /\ \A r \in Slots : pc[r] # "free" => gen[r] \in 1 .. key[target[r]]
        /\ \A r \in Slots : pc[r] = "schedule" => tag[r] \in 1 .. key[Thread]
        /\ \A b \in Batches : ingest[b] \in Traces => tag[b] \in 1 .. key[ingest[b]]
        /\ \A r, q \in Slots :
              r # q /\ pc[r] # "free" /\ pc[q] # "free" /\ target[r] = target[q]
                => gen[r] # gen[q]
        /\ \A r, q \in Slots :
              r # q /\ pc[r] = "schedule" /\ pc[q] = "schedule" => tag[r] # tag[q]
        /\ \A r, q \in Slots :
              pc[r] # "free" /\ target[r] = Thread /\ pc[q] = "schedule" => gen[r] # tag[q]
        /\ \A b, c \in Batches :
              b # c /\ ingest[b] \in Traces /\ ingest[b] = ingest[c] => tag[b] # tag[c]
        /\ \A b \in Batches, r \in Slots :
              ingest[b] \in Traces /\ pc[r] # "free" /\ ingest[b] = target[r]
                => tag[b] # gen[r]

\* An ingest task that will yet bump trace t, or holds a generation of it that
\* nobody has superseded.
IngestWill(b, t) ==
    /\ t \in TracesOf[b]
    /\ \/ ingest[b] = "queued"
       \/ ingest[b] \in {"bump"} \cup Traces /\ t \in left[b]
       \/ ingest[b] = t /\ ~Superseded(tag[b], t)

\* An evaluation task of x that is at one of these places, and is not superseded.
SlotWill(r, x, places) ==
    /\ pc[r] \in places
    /\ target[r] = x
    /\ ~Superseded(gen[r], x)

\* Some evaluation of trace t has read batch b's spans, or one is to come that will.
TraceCovered(t, b) ==
    \/ b \in graded[t]
    \/ \E c \in Batches : IngestWill(c, t)
    \/ \E r \in Slots : SlotWill(r, t, {"queued", "read"})
    \/ \E r \in Slots : SlotWill(r, t, {"write"}) /\ b \in read[r]

\* The evaluation of trace t in slot r will bump the thread: it has read what
\* takes it there.
BumpWill(r, t) ==
    \/ SlotWill(r, t, {"bump"})
    \/ SlotWill(r, t, {"write"}) /\ NeedsThreadPass(r)

\* The same for the thread, as far as trace t answers for it: t's evaluation is
\* to come or will bump it, or an evaluation of the thread is to come.
ThreadCovered(t, b) ==
    \/ b \in graded[Thread]
    \/ \E c \in Batches : IngestWill(c, t)
    \/ \E r \in Slots : SlotWill(r, t, {"queued", "read"}) \/ BumpWill(r, t)
    \/ \E r \in Slots : pc[r] = "schedule" /\ ~Superseded(tag[r], Thread)
    \/ \E r \in Slots : SlotWill(r, Thread, {"queued", "read"})
    \/ \E r \in Slots : SlotWill(r, Thread, {"write"}) /\ b \in read[r]

\* Trace t, as it is stored now, needs the thread pass.
Needs(t) == Spans(t) \in Selected[t]

\* A task gave up, a thread was bumped and not scheduled, or evaluators were
\* not loaded: the ways out that nothing in the code makes good.
Dropped == Struck({"lost", "unscheduled", "unloaded"})

\* Every span stored is covered, whatever is superseded, expired or redelivered,
\* and by the thread too if its trace needs that.
Covered ==
    ~Dropped =>
        \A b \in stored : \A t \in TracesOf[b] :
            TraceCovered(t, b) /\ (Needs(t) => ThreadCovered(t, b))

\* Trace t's evaluations have read all of it, and if it needs the thread pass
\* so have the thread's.
TraceGraded(t) ==
    /\ Spans(t) \subseteq graded[t]
    /\ Needs(t) => Spans(t) \subseteq graded[Thread]

\* Once the queue is empty, whatever expired, crashed or was retried on the
\* way, some evaluation has read every span stored of each trace, and some
\* evaluation of the thread those of each trace that needs one -- unless a
\* task ran out of retries or was killed for good, a trace's task ended between
\* bumping the thread and scheduling it, or an evaluation found no evaluators
\* because Postgres did not answer.
NothingForgotten == Quiet /\ ~Dropped => \A t \in Traces : TraceGraded(t)

\* evaluate_run_task: "every turn schedules one and only the last one standing
\* runs": when thread tasks are all that is left, one of them runs.
LastOneStandingRuns ==
    LET waiting == {r \in Slots : pc[r] = "queued" /\ target[r] = Thread}
    IN  /\ \A b \in Batches : ~Ingesting(b)
        /\ \A r \in Slots \ waiting : pc[r] = "free"
        /\ waiting # {}
        => \E r \in waiting : ~Superseded(gen[r], Thread)

\* While Redis answers and no key expires, at most one queued task per target
\* will run when it fires: a trace that arrives in several batches is not
\* graded once per batch.
OneSurvivor ==
    ~Struck({"redis_error", "ttl"}) =>
        \A r, q \in Slots :
            /\ pc[r] = "queued" /\ pc[q] = "queued"
            /\ target[r] = target[q]
            /\ ~Superseded(gen[r], target[r]) /\ ~Superseded(gen[q], target[q])
            => r = q

\* "Over-evaluating is safe": when all is quiet the scores are those of an
\* evaluation that had read the whole target.
OverEvaluatingIsSafe ==
    Quiet /\ struck = {} => \A x \in Targets : scores[x] = Spans(x)

\* What is accepted is graded in the end and stays graded, by its thread too if
\* the trace needs that, through every crash, expiry and Redis error short of
\* the ways out of Dropped.
EveryBatchGraded ==
    <>[](Dropped \/ \A b \in Batches, t \in Traces :
            ingest[b] # "new" /\ t \in TracesOf[b] => b \in stored /\ TraceGraded(t))
=============================================================================
