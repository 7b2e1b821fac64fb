--------------------------- MODULE SequentialPass ---------------------------
(***************************************************************************)
(* The settled-thread pass of Tracely's sequential evaluators              *)
(* (EvaluationService.evaluate_thread).  A sequential metric grades the    *)
(* turns of a conversation thread in order and holds ONE durable           *)
(* conversation with its judge (a LangGraph checkpointer thread, here      *)
(* chat).  How far it got is kept in another store, the Postgres table     *)
(* eval_chain_progress (here progress), and the only thing that keeps two  *)
(* passes apart is a best-effort Redis lock (here lock).  Nothing makes    *)
(* the three stores change together: that is what this module is about.    *)
(*                                                                         *)
(* A pass runs in a Celery worker (the debounced task, auto) or in the API *)
(* process (an explicit run).  Faults names what may go wrong; each fault  *)
(* that strikes counts towards MaxFaults.                                  *)
(***************************************************************************)
EXTENDS Naturals, Sequences, FiniteSets, SequencesExt

CONSTANTS
    Turns,      \* trace ids of one thread
    Metrics,    \* score names of the enabled sequential evaluators
    RunLevel,   \* those at level AGENT_RUN: they keep a chat per thread
    Sampled,    \* [Metrics -> SUBSET Turns]: what targeting and sampling keep
    Passes,     \* slots in which a pass can run
    Faults,     \* the kinds of fault that may strike
    MaxFaults,  \* how many may strike in all
    MaxFull,    \* explicit runs a user asks for
    NoTurn,     \* "no payload yet"
    Free,       \* the lock key does not exist
    Orphaned    \* the lock key outlived the pass that set it

FaultKinds ==
    {"lock_timeout", "redis_down", "ttl", "crash", "raise", "load_failed",
     "reset_failed", "clear_failed", "judge_failed", "chat_down", "record_failed"}

ASSUME ConstantsAssumption ==
    /\ RunLevel \subseteq Metrics
    /\ Sampled \in [Metrics -> SUBSET Turns]
    /\ Faults \subseteq FaultKinds
    /\ MaxFaults \in Nat
    /\ MaxFull \in Nat
    /\ NoTurn \notin Turns
    /\ Free \notin Passes
    /\ Orphaned \notin Passes
    /\ Free # Orphaned

VARIABLES
    order,      \* thread_trace_ids: the thread's turns by first start time
    due,        \* evaluate_conversation tasks queued and not superseded
    full,       \* explicit runs started so far
    lock,       \* the Redis key: Free, Orphaned or the pass whose token it is
    chat,       \* [Metrics -> Seq(Turns)]: items on the judge's conversation
    progress,   \* [Metrics -> row]: eval_chain_progress, NoRow when absent
    scored,     \* [Metrics -> SUBSET Turns]: turns with a score in ClickHouse
    struck,     \* the kinds of fault that have struck
    faults      \* how many have struck

\* The local state of each pass, by slot.
VARIABLES
    pc,         \* where it is
    auto,       \* automatic (incremental) or explicit
    names,      \* sequential_names: the metrics it runs
    view,       \* turn_ids: the order as it read it
    start,      \* starts: per metric, how many turns to skip
    at,         \* the loop's current turn, from 1
    todo,       \* the metrics the current step still has to deal with
    got,        \* those with a result not yet written (before: stale rows)
    chain       \* chain: per metric, the turn its latest payload is about

env == <<order, due, full>>
stores == <<chat, progress, scored>>
faultVars == <<struck, faults>>
plan == <<auto, names, view, start>>
work == <<at, todo, got, chain>>

vars == <<env, lock, stores, faultVars, pc, plan, work>>

-----------------------------------------------------------------------------
NoRow == [turns |-> <<>>, payload |-> NoTurn]

NoStarts == [m \in Metrics |-> 0]

NoChain == [m \in Metrics |-> NoTurn]

Init ==
    /\ order = <<>> /\ due = 0 /\ full = 0
    /\ lock = Free
    /\ chat = [m \in Metrics |-> <<>>]
    /\ progress = [m \in Metrics |-> NoRow]
    /\ scored = [m \in Metrics |-> {}]
    /\ struck = {} /\ faults = 0
    /\ pc = [p \in Passes |-> "idle"]
    /\ auto = [p \in Passes |-> FALSE]
    /\ names = [p \in Passes |-> {}]
    /\ view = [p \in Passes |-> <<>>]
    /\ start = [p \in Passes |-> NoStarts]
    /\ at = [p \in Passes |-> 0]
    /\ todo = [p \in Passes |-> {}]
    /\ got = [p \in Passes |-> {}]
    /\ chain = [p \in Passes |-> NoChain]

\* A fault of this kind strikes now.
Strike(kind) ==
    /\ kind \in Faults
    /\ faults < MaxFaults
    /\ struck' = struck \cup {kind}
    /\ faults' = faults + 1

NoFault == UNCHANGED faultVars

At(p, l) == pc[p] = l

Goto(p, l) == pc' = [pc EXCEPT ![p] = l]

\* A pass begins: all its local state is new.
Begin(p, isAuto, chosen) ==
    /\ At(p, "idle")
    /\ Goto(p, "wait")
    /\ auto' = [auto EXCEPT ![p] = isAuto]
    /\ names' = [names EXCEPT ![p] = chosen]
    /\ UNCHANGED <<view, start, work>>

\* A pass is over, one way or another: its local state is gone.
End(p) ==
    /\ Goto(p, "idle")
    /\ auto' = [auto EXCEPT ![p] = FALSE]
    /\ names' = [names EXCEPT ![p] = {}]
    /\ view' = [view EXCEPT ![p] = <<>>]
    /\ start' = [start EXCEPT ![p] = NoStarts]
    /\ at' = [at EXCEPT ![p] = 0]
    /\ todo' = [todo EXCEPT ![p] = {}]
    /\ got' = [got EXCEPT ![p] = {}]
    /\ chain' = [chain EXCEPT ![p] = NoChain]

-----------------------------------------------------------------------------
(* The environment: turns arrive, tasks fire, users press Play.            *)

\* What is due once turn t has been evaluated.  The task it schedules supersedes
\* the one already waiting, unless the debounce failed open (then both run).  A
\* turn that no metric samples schedules one only for the conversation columns.
DueAfter(t) ==
    {1, due + 1} \cup {n \in {due} : \A m \in Metrics : t \notin Sampled[m]}

\* A turn's trace settles.  thread_trace_ids orders by first start time, so a
\* late trace lands anywhere in the order.
Arrive(t, k) ==
    /\ t \notin ToSet(order)
    /\ order' = InsertAt(order, k, t)
    /\ due' \in DueAfter(t)
    /\ UNCHANGED <<full, lock, stores, faultVars, pc, plan, work>>

\* evaluate_conversation_task fires: the automatic, incremental pass over
\* every enabled metric.
BeginAuto(p) ==
    /\ due > 0
    /\ due' = due - 1
    /\ Begin(p, TRUE, Metrics)
    /\ UNCHANGED <<order, full, lock, stores, faultVars>>

\* An explicit run of the metrics a user chose: specs passed in, so every
\* turn is graded again.
BeginFull(p, chosen) ==
    /\ full < MaxFull
    /\ full' = full + 1
    /\ Begin(p, FALSE, chosen)
    /\ UNCHANGED <<order, due, lock, stores, faultVars>>

-----------------------------------------------------------------------------
(* thread_pass_lock                                                        *)

\* mutant: SET without NX.
KeyFree_NoNX == TRUE

\* The condition of SET key token NX EX ttl.
KeyFree == lock = Free

\* The SET succeeds.
Acquire(p) ==
    /\ At(p, "wait")
    /\ KeyFree
    /\ lock' = p
    /\ Goto(p, "read")
    /\ UNCHANGED <<env, stores, faultVars, plan, work>>

\* The wait timed out, or Redis failed: the pass goes on without the lock.
\* The SET may have gone through all the same, and then nobody will free it.
ProceedUnlocked(p) ==
    /\ At(p, "wait")
    /\ \/ ~KeyFree /\ UNCHANGED lock /\ Strike("lock_timeout")
       \/ UNCHANGED lock /\ Strike("redis_down")
       \/ KeyFree /\ lock' = Orphaned /\ Strike("redis_down")
    /\ Goto(p, "read")
    /\ UNCHANGED <<env, stores, plan, work>>

\* mutant: a plain DEL.
Released_PlainDel(p) == Free

\* What the compare-and-delete script leaves of the key.
Released(p) == IF lock = p THEN Free ELSE lock

\* The key's TTL passes: its pass is dead, or slower than the TTL.
Expire ==
    /\ lock # Free
    /\ lock' = Free
    /\ IF lock = Orphaned THEN NoFault ELSE Strike("ttl")
    /\ UNCHANGED <<env, stores, pc, plan, work>>

\* The pass is over and leaves the context manager; the delete itself may
\* fail, and then the key stays until it expires.
Release(p) ==
    /\ At(p, "release")
    /\ \/ lock' = Released(p) /\ NoFault
       \/ lock = p /\ lock' = Orphaned /\ Strike("redis_down")
    /\ End(p)
    /\ UNCHANGED <<env, stores>>

-----------------------------------------------------------------------------
(* _run_turn_pass and _chain_starts                                        *)

\* thread_trace_ids, read once; an empty thread ends the pass.
ReadTurns(p) ==
    /\ At(p, "read")
    /\ view' = [view EXCEPT ![p] = order]
    /\ Goto(p, IF order = <<>> THEN "release" ELSE "load")
    /\ UNCHANGED <<env, lock, stores, faultVars, auto, names, start, work>>

\* mutant: the stored turns are not compared with the current order.
Continues_AnyOrder(isAuto, done, turns) ==
    /\ isAuto
    /\ done # <<>>
    /\ Len(done) <= Len(turns)

\* Whether a metric goes on from the turns its progress row records.
Continues(isAuto, done, turns) ==
    /\ isAuto
    /\ done # <<>>
    /\ IsPrefix(done, turns)

\* mutant: the row's payload is seeded even into a rebuild.
Seed_Stale(continues, row) == row.payload

\* The payload a metric's first graded turn receives.
Seed(continues, row) == IF continues THEN row.payload ELSE NoTurn

\* The rows an automatic pass loads; none when the load fails, none for a
\* full run, which does not look.
Rows(p, loaded) ==
    IF auto[p] /\ loaded THEN progress ELSE [m \in Metrics |-> NoRow]

\* The metrics that go on, given those rows.
Continuing(p, rows) ==
    {m \in names[p] : Continues(auto[p], rows[m].turns, view[p])}

\* chain_progress_load and the decision, per metric, where to start.  The
\* metrics that start over and keep a thread-wide chat must be reset (todo);
\* the rows they leave behind are stale (got).
LoadStarts(p) ==
    /\ At(p, "load")
    /\ \E loaded \in BOOLEAN :
          /\ IF loaded THEN NoFault ELSE auto[p] /\ Strike("load_failed")
          /\ LET rows == Rows(p, loaded)
                 goesOn == Continuing(p, rows)
             IN /\ start' = [start EXCEPT ![p] = [m \in Metrics |->
                        IF m \in goesOn THEN Len(rows[m].turns) ELSE 0]]
                /\ chain' = [chain EXCEPT ![p] = [m \in Metrics |->
                        Seed(m \in goesOn, rows[m])]]
                /\ todo' = [todo EXCEPT ![p] = (names[p] \cap RunLevel) \ goesOn]
                /\ got' = [got EXCEPT ![p] = {m \in names[p] \ goesOn :
                        rows[m].turns # <<>> \/ ~auto[p]}]
    /\ at' = [at EXCEPT ![p] = 1]
    /\ Goto(p, "reset")
    /\ UNCHANGED <<env, lock, stores, auto, names, view>>

\* mutant: the conversation is kept.
Emptied_Kept(m) == chat

\* The chats once one metric's is deleted.
Emptied(m) == [chat EXCEPT ![m] = <<>>]

\* reset_chat of one metric: best effort, a failure is only logged.
ResetChat(p, m) ==
    /\ At(p, "reset")
    /\ m \in todo[p]
    /\ \/ chat' = Emptied(m) /\ NoFault
       \/ UNCHANGED chat /\ Strike("reset_failed")
    /\ todo' = [todo EXCEPT ![p] = @ \ {m}]
    /\ UNCHANGED <<env, lock, progress, scored, pc, plan, at, got, chain>>

\* chain_progress_clear of the stale rows (got holds them until here): one
\* transaction, later than the resets, and a failure is only logged.
ClearStale(p) ==
    /\ At(p, "reset")
    /\ todo[p] = {}
    /\ \/ /\ progress' = [m \in Metrics |->
                            IF m \in got[p] THEN NoRow ELSE progress[m]]
          /\ NoFault
       \/ /\ got[p] # {}
          /\ UNCHANGED progress
          /\ Strike("clear_failed")
    /\ got' = [got EXCEPT ![p] = {}]
    /\ Goto(p, "turn")
    /\ UNCHANGED <<env, lock, chat, scored, plan, at, todo, chain>>

-----------------------------------------------------------------------------
(* The loop over the turns                                                 *)

Turn(p) == view[p][at[p]]

\* mutant: one turn too late.
Due_OneLate(p) == {m \in names[p] : start[p][m] + 1 < at[p]}

\* The sequential metrics whose start lies at or before this turn.
Due(p) == {m \in names[p] : start[p][m] < at[p]}

\* The head of the loop: stop after the last turn, skip a turn no metric is
\* due at, grade the others.
NextTurn(p) ==
    /\ At(p, "turn")
    /\ \/ at[p] > Len(view[p]) /\ Goto(p, "release") /\ UNCHANGED <<at, todo>>
       \/ /\ at[p] <= Len(view[p]) /\ Due(p) = {}
          /\ at' = [at EXCEPT ![p] = @ + 1]
          /\ UNCHANGED <<pc, todo>>
       \/ /\ at[p] <= Len(view[p]) /\ Due(p) # {}
          /\ todo' = [todo EXCEPT ![p] = Due(p)]
          /\ Goto(p, "grade")
          /\ UNCHANGED at
    /\ UNCHANGED <<env, lock, stores, faultVars, plan, got, chain>>

\* The current turn is on the metric's durable conversation, if it has one.
Told(p, m) ==
    IF m \in RunLevel THEN [chat EXCEPT ![m] = Append(@, Turn(p))] ELSE chat

\* The judge answers: the item and its verdict are on the conversation and
\* the result waits to be written.  With the checkpointer unreachable the
\* judge grades the item on its own and the conversation misses it.
Judged(p, m) ==
    /\ \/ chat' = Told(p, m) /\ NoFault
       \/ m \in RunLevel /\ UNCHANGED chat /\ Strike("chat_down")
    /\ got' = [got EXCEPT ![p] = @ \cup {m}]

\* No result: the judge raised (one bad evaluator must not sink the rest), has
\* no credential, or the turn has no body to grade.  The question may or may
\* not have reached the conversation.
JudgeFailed(p, m) ==
    /\ Strike("judge_failed")
    /\ chat' \in {chat, Told(p, m)}
    /\ UNCHANGED got

\* One metric of evaluate_trace's dispatch, for the current turn.  An
\* automatic pass drops a metric whose targeting or sampling leaves it out.
Grade(p, m) ==
    /\ At(p, "grade")
    /\ m \in todo[p]
    /\ IF auto[p] /\ Turn(p) \notin Sampled[m]
       THEN UNCHANGED <<chat, got, faultVars>>
       ELSE Judged(p, m) \/ JudgeFailed(p, m)
    /\ todo' = [todo EXCEPT ![p] = @ \ {m}]
    /\ UNCHANGED <<env, lock, progress, scored, pc, plan, at, chain>>

\* write_eval_scores of the turn's results, then capture: each result is the
\* payload the next turn of its metric receives.
WriteScores(p) ==
    /\ At(p, "grade")
    /\ todo[p] = {}
    /\ scored' = [m \in Metrics |->
                    IF m \in got[p] THEN scored[m] \cup {Turn(p)} ELSE scored[m]]
    /\ chain' = [chain EXCEPT ![p] =
                    [m \in Metrics |-> IF m \in got[p] THEN Turn(p) ELSE chain[p][m]]]
    /\ got' = [got EXCEPT ![p] = {}]
    /\ todo' = [todo EXCEPT ![p] = Due(p)]
    /\ Goto(p, "record")
    /\ UNCHANGED <<env, lock, chat, progress, faultVars, plan, at>>

\* mutant: the row stops one turn short.
RowUpTo_OneShort(p, m) ==
    [turns |-> SubSeq(view[p], 1, at[p] - 1), payload |-> chain[p][m]]

\* mutant: the payload is not stored.
RowUpTo_NoPayload(p, m) == [turns |-> SubSeq(view[p], 1, at[p])]

\* The row that says this pass has dealt with the turns up to the current one.
RowUpTo(p, m) ==
    [turns |-> SubSeq(view[p], 1, at[p]), payload |-> chain[p][m]]

\* chain_progress_set, one commit per metric; the first failure gives up on
\* the turn's remaining metrics.
Record(p, m) ==
    /\ At(p, "record")
    /\ m \in todo[p]
    /\ \/ /\ progress' = [progress EXCEPT ![m] = RowUpTo(p, m)]
          /\ todo' = [todo EXCEPT ![p] = @ \ {m}]
          /\ NoFault
       \/ /\ Strike("record_failed")
          /\ todo' = [todo EXCEPT ![p] = {}]
          /\ UNCHANGED progress
    /\ UNCHANGED <<env, lock, chat, scored, pc, plan, at, got, chain>>

Recorded(p) ==
    /\ At(p, "record")
    /\ todo[p] = {}
    /\ at' = [at EXCEPT ![p] = @ + 1]
    /\ Goto(p, "turn")
    /\ UNCHANGED <<env, lock, stores, faultVars, plan, todo, got, chain>>

-----------------------------------------------------------------------------
(* What ends a pass early                                                  *)

\* The tasks that may be queued once this one fails: it is retried or
\* redelivered, or this was its last retry, or the kill was the hard time
\* limit's, which acknowledges it.  An explicit run never comes back.
Requeued(p) == IF auto[p] THEN {due, due + 1} ELSE {due}

\* ClickHouse fails under thread_trace_ids or write_eval_scores: the lock is
\* released on the way out and Celery retries the task.
Raise(p) ==
    /\ At(p, "read") \/ At(p, "grade")
    /\ Strike("raise")
    /\ lock' = Released(p)
    /\ due' \in Requeued(p)
    /\ End(p)
    /\ UNCHANGED <<order, full, stores>>

\* The process dies, or is killed at its time limit.  Its token stays in the
\* key until the TTL.
Crash(p) ==
    /\ ~At(p, "idle")
    /\ Strike("crash")
    /\ lock' = IF lock = p THEN Orphaned ELSE lock
    /\ due' \in Requeued(p)
    /\ End(p)
    /\ UNCHANGED <<order, full, stores>>

-----------------------------------------------------------------------------
\* What a pass does by itself once it has begun.
Step(p) ==
    \/ Acquire(p)
    \/ ProceedUnlocked(p)
    \/ ReadTurns(p)
    \/ LoadStarts(p)
    \/ \E m \in Metrics : ResetChat(p, m) \/ Grade(p, m) \/ Record(p, m)
    \/ ClearStale(p)
    \/ NextTurn(p)
    \/ WriteScores(p)
    \/ Recorded(p)
    \/ Release(p)

Next ==
    \/ \E t \in Turns : \E k \in 1 .. Len(order) + 1 : Arrive(t, k)
    \/ Expire
    \/ \E p \in Passes :
          \/ BeginAuto(p)
          \/ \E chosen \in SUBSET Metrics \ {{}} : BeginFull(p, chosen)
          \/ Step(p)
          \/ Raise(p)
          \/ Crash(p)

Spec == Init /\ [][Next]_vars

\* The broker keeps delivering due tasks, a running pass keeps taking steps
\* and Redis expires keys.  Arrivals, users and faults owe us nothing.
Fairness ==
    /\ WF_vars(Expire)
    /\ WF_vars(\E p \in Passes : BeginAuto(p))
    /\ \A p \in Passes : WF_vars(Step(p))

FairSpec == Spec /\ Fairness

-----------------------------------------------------------------------------
(* Properties                                                              *)

PCs == {"idle", "wait", "read", "load", "reset", "turn", "grade", "record", "release"}

StoresOK ==
    /\ order \in Seq(Turns)
    /\ due \in Nat
    /\ full \in Nat
    /\ lock \in Passes \cup {Free, Orphaned}
    /\ chat \in [Metrics -> Seq(Turns)]
    /\ progress \in [Metrics -> [turns : Seq(Turns), payload : Turns \cup {NoTurn}]]
    /\ scored \in [Metrics -> SUBSET Turns]
    /\ struck \subseteq Faults
    /\ faults \in Nat

LocalOK ==
    /\ pc \in [Passes -> PCs]
    /\ auto \in [Passes -> BOOLEAN]
    /\ names \in [Passes -> SUBSET Metrics]
    /\ view \in [Passes -> Seq(Turns)]
    /\ start \in [Passes -> [Metrics -> Nat]]
    /\ at \in [Passes -> Nat]
    /\ todo \in [Passes -> SUBSET Metrics]
    /\ got \in [Passes -> SUBSET Metrics]
    /\ chain \in [Passes -> [Metrics -> Turns \cup {NoTurn}]]

\* Every variable has its type: the stores hold turns, the local state of the
\* passes is well formed.
TypeOK == StoresOK /\ LocalOK

Struck(kinds) == struck \cap kinds # {}

\* A pass that may touch the chat or the rows.
Inside(p) == pc[p] \notin {"idle", "wait"}

Quiet == \A p \in Passes : ~Inside(p)

\* thread_pass_lock, "one writer per thread": as long as no wait timed out,
\* Redis stayed up and no key expired under a live pass, every pass past the
\* lock holds it -- whatever crashes and however the key is cleaned up.
OneWriter ==
    ~Struck({"lock_timeout", "redis_down", "ttl"}) =>
        \A p \in Passes : Inside(p) => lock = p

\* Compare-and-delete: a pass never frees the lock of another live pass (a
\* holder that outlived its TTL must not free its successor's key).
ReleasesOnlyItsOwn ==
    [][\A p, q \in Passes :
          p # q /\ lock = q /\ pc'[p] # pc[p] => lock' = q]_vars

\* Whatever interleaves, fails or crashes, the payload a row hands to the
\* next turn is that of a turn the same row records as dealt with: a chained
\* grade is never fed a verdict from a turn ahead of it or out of the thread.
PayloadFromRecordedTurn ==
    \A m \in Metrics :
        progress[m].payload \in ToSet(progress[m].turns) \cup {NoTurn}

\* A turn a row records, and that the metric samples, has a score: progress
\* skips no turn for good, unless a judge had no result for it.
NoTurnRecordedUngraded ==
    ~Struck({"judge_failed"}) =>
        \A m \in Metrics : ToSet(progress[m].turns) \cap Sampled[m] \subseteq scored[m]

\* A pass between its decision where to start and the end of its loop.
Looping(p) == pc[p] \in {"reset", "turn", "grade", "record"}

\* The pass takes turn j of its view as dealt with for a metric: it skips it,
\* has left it behind, or has written its scores.
Dealt(p, m, j) ==
    \/ j <= start[p][m]
    \/ j < at[p]
    \/ j = at[p] /\ At(p, "record")

\* The loop is at a turn, and what is left to do there is due there.
CursorInv(p) ==
    /\ at[p] >= 1
    /\ pc[p] \in {"grade", "record"} => at[p] <= Len(view[p]) /\ todo[p] \subseteq Due(p)

\* A payload in hand is about a turn dealt with.
ChainInv(p) ==
    \A m \in Metrics : chain[p][m] # NoTurn =>
        \E j \in 1 .. Len(view[p]) : Dealt(p, m, j) /\ view[p][j] = chain[p][m]

\* A sampled turn dealt with has its score, unless a judge failed.
ScoredInv(p) ==
    ~Struck({"judge_failed"}) =>
        \A m \in names[p] : \A j \in 1 .. Len(view[p]) :
            Dealt(p, m, j) /\ view[p][j] \in Sampled[m] => view[p][j] \in scored[m]

\* A due metric that samples the turn and has had its go has a result.
JudgedInv(p) ==
    ~Struck({"judge_failed"}) /\ At(p, "grade") =>
        \A m \in Due(p) \ todo[p] : Turn(p) \in Sampled[m] => m \in got[p]

LoopInv(p) == CursorInv(p) /\ ChainInv(p) /\ ScoredInv(p) /\ JudgedInv(p)

\* What every pass knows of the rows it will write, whichever other passes
\* run beside it: the invariant from which the two properties above follow.
PassInv == \A p \in Passes : Looping(p) => LoopInv(p)

\* How many items of a conversation repeat an earlier one.
Repeats(c) == Len(c) - Cardinality(ToSet(c))

\* With one writer and working resets, each fault (a crash, a retry, a lost
\* progress write) makes the judge see at most one graded turn twice.
RepeatsBoundedByFaults ==
    ~Struck({"lock_timeout", "redis_down", "ttl", "reset_failed"}) =>
        \A m \in Metrics : Repeats(chat[m]) <= faults

\* Element a stands before element b in the sequence.
Before(s, a, b) == \E k, l \in DOMAIN s : k < l /\ s[k] = a /\ s[l] = b

\* The conversation is a selection from the sequence, in its order.
Follows(c, s) ==
    /\ ToSet(c) \subseteq ToSet(s)
    /\ \A i, j \in DOMAIN c : i < j => Before(s, c[i], c[j])

\* Without faults, between passes: the judge's conversation is the recorded
\* turns in thread order, each once, with no sampled turn left out.
TranscriptMatchesRow ==
    faults = 0 /\ Quiet =>
        \A m \in RunLevel :
            /\ Repeats(chat[m]) = 0
            /\ Follows(chat[m], progress[m].turns)
            /\ ToSet(progress[m].turns) \cap Sampled[m] \subseteq ToSet(chat[m])

Conversations == INSTANCE OrderedConversation
                     WITH Judges <- Metrics, Items <- Turns, transcript <- chat

\* As long as no fault drops or repeats a step of a pass, the chats of the
\* metrics implement the ordered conversations checkpointer.py promises.
ChatIsOrderedConversation == Conversations!Spec

\* A pass alone in the thread that continues a metric starts at however many
\* turns the metric's conversation already holds (every turn sampled).
StartsAtHeldTurns ==
    \A p \in Passes, m \in RunLevel :
        /\ At(p, "turn") /\ at[p] = 1 /\ m \in names[p]
        /\ \A q \in Passes \ {p} : ~Inside(q)
        => start[p][m] = Len(chat[m])

\* Once turns stop arriving, every metric's row covers the whole thread in
\* its final order, whatever was re-sorted or asked for on the way.
Converges ==
    <>[](\A m \in Metrics :
            /\ progress[m].turns = order
            /\ ToSet(order) \cap Sampled[m] \subseteq scored[m])
=============================================================================
