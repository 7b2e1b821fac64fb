-------------------------- MODULE DebouncedEval_proof --------------------------
(***************************************************************************)
(* Theorems about DebouncedEval, for every set of batches, traces and      *)
(* slots, every number of retries and every mix of faults.                 *)
(***************************************************************************)
EXTENDS DebouncedEval, TLAPS

-----------------------------------------------------------------------------
(* Types, and which tasks are at work on what                              *)

\* A slot at work has a target, which only a trace's evaluation bumps its
\* thread for; an ingest task bumps the traces of its batch and no others.
BusyInv ==
    /\ \A r \in Slots : pc[r] # "free" => target[r] \in Targets
    /\ \A r \in Slots : pc[r] \in {"bump", "schedule"} => target[r] \in Traces
    /\ \A b \in Batches : ingest[b] \in Traces => ingest[b] \in TracesOf[b]
    /\ \A b \in Batches : left[b] \subseteq TracesOf[b]

Inv == TypeOK /\ BusyInv

\* The batches' and slots' places are told apart from traces.
LEMMA Places ==
    /\ \A t \in Traces : t \notin {"new", "queued", "bump", "done", "lost"}
    /\ Thread \notin Traces /\ NoTarget \notin Targets
    /\ Traces \subseteq Targets /\ Thread \in Targets
    /\ \A b \in Batches : TracesOf[b] \subseteq Traces /\ TracesOf[b] # {}
    /\ Batches \subseteq Workers /\ Slots \subseteq Workers
    /\ Batches \cap Slots = {}
  <1>1. \A b \in Batches : TracesOf[b] \in (SUBSET Traces) \ {{}}
    BY ConstantsAssumption
  <1>3. \A b \in Batches : TracesOf[b] \subseteq Traces /\ TracesOf[b] # {}
    BY <1>1
  <1>2. \A t \in Traces : t \notin {"new", "queued", "bump", "done", "lost"}
    BY ConstantsAssumption
  <1> QED
    BY <1>2, <1>3, ConstantsAssumption DEF Targets, Workers

\* Nothing is posted, stored or queued at first.
LEMMA InitInv == Init => Inv
  BY Places DEF Init, Inv, TypeOK, BusyInv, Workers, Targets

\* A strike leaves the fault record well typed.
LEMMA StrikesType ==
    ASSUME TypeOK, NEW kinds, Strikes(kinds)
    PROVE  struck' \subseteq Faults \cup {"lost"} /\ faults' \in Nat
  BY DEF TypeOK, Strikes

\* A bump leaves the counters and the generations well typed.
LEMMA BumpType ==
    ASSUME TypeOK, NEW w \in Workers, NEW x \in Targets, Bump(w, x)
    PROVE  /\ key' \in [Targets -> Nat] /\ tag' \in [Workers -> Nat]
           /\ struck' \subseteq Faults \cup {"lost"} /\ faults' \in Nat
  <1>1. NextGen(x) \in Nat
    BY DEF TypeOK, NextGen
  <1>2. CASE /\ key' = [key EXCEPT ![x] = NextGen(x)]
             /\ tag' = [tag EXCEPT ![w] = NextGen(x)]
             /\ NoFault
    BY <1>1, <1>2 DEF TypeOK, NoFault, faultVars
  <1>3. CASE /\ key' \in {key, [key EXCEPT ![x] = NextGen(x)]}
             /\ tag' = [tag EXCEPT ![w] = 0]
             /\ Strikes({"redis_error"})
    BY <1>1, <1>3, StrikesType DEF TypeOK
  <1> QED
    BY <1>2, <1>3 DEF Bump

\* A task that ends leaves its slot as an idle one.
LEMMA FreedInv ==
    ASSUME Inv, NEW r \in Slots, Freed(r), UNCHANGED <<stored, ingest, left>>,
           key' = key, scores' \in [Targets -> SUBSET Batches],
           graded' \in [Targets -> SUBSET Batches],
           struck' \subseteq Faults \cup {"lost"}, faults' \in Nat
    PROVE  Inv'
  BY Places DEF Inv, TypeOK, BusyInv, Freed

\* A task put back in its queue keeps its target.
LEMMA RequeueInv ==
    ASSUME Inv, NEW r \in Slots, NEW n \in Nat, Requeue(r, n),
           UNCHANGED <<stored, redis, results, ingest, left>>, pc[r] # "free",
           struck' \subseteq Faults \cup {"lost"}, faults' \in Nat
    PROVE  Inv'
  BY Places DEF Inv, TypeOK, BusyInv, Requeue, redis, results

\* An ingest task that starts over has nothing left to schedule.
LEMMA RestartInv ==
    ASSUME Inv, NEW b \in Batches, NEW to \in {"queued", "lost", "done"}, NEW n \in Nat,
           Restart(b, to, n), UNCHANGED <<redis, results, slotVars>>,
           stored' \subseteq Batches,
           struck' \subseteq Faults \cup {"lost"}, faults' \in Nat
    PROVE  Inv'
  BY Places DEF Inv, TypeOK, BusyInv, Restart, redis, results, slotVars

\* What becomes of an ingest task that failed.
LEMMA AfterFailureType ==
    ASSUME TypeOK, NEW b \in Batches
    PROVE  AfterFailure(b).to \in {"queued", "lost"} /\ AfterFailure(b).n \in Nat
  BY Places DEF TypeOK, AfterFailure

\* Every step keeps the types and what the tasks are at work on.
LEMMA StepInv == Inv /\ [Next]_vars => Inv'
  <1> SUFFICES ASSUME Inv, [Next]_vars PROVE Inv'
    OBVIOUS
  <1> USE Places
  <1>0. CASE UNCHANGED vars
    BY <1>0 DEF Inv, TypeOK, BusyInv, vars, redis, results, faultVars, slotVars, work
  <1>1. ASSUME NEW x \in Targets, Expire(x) PROVE Inv'
    BY <1>1, StrikesType DEF Inv, TypeOK, BusyInv, Expire, results, slotVars, work
  <1>2. ASSUME NEW b \in Batches, Post(b) PROVE Inv'
    BY <1>2 DEF Inv, TypeOK, BusyInv, Post, redis, results, faultVars, slotVars, work
  <1>3. ASSUME NEW b \in Batches, Process(b) PROVE Inv'
    BY <1>3 DEF Inv, TypeOK, BusyInv, Process, redis, results, faultVars, slotVars, work
  <1>4. ASSUME NEW b \in Batches, NEW t \in Traces, BumpTrace(b, t) PROVE Inv'
    <2>1. /\ key' \in [Targets -> Nat] /\ tag' \in [Workers -> Nat]
          /\ struck' \subseteq Faults \cup {"lost"} /\ faults' \in Nat
      BY <1>4, BumpType DEF BumpTrace, Inv
    <2> QED
      BY <1>4, <2>1 DEF Inv, TypeOK, BusyInv, BumpTrace, results, slotVars
  <1>5. ASSUME NEW b \in Batches, NEW r \in Slots, ScheduleTrace(b, r) PROVE Inv'
    BY <1>5 DEF Inv, TypeOK, BusyInv, ScheduleTrace, Enqueue, redis, results, faultVars
  <1>6. ASSUME NEW b \in Batches, Ingested(b) PROVE Inv'
    BY <1>6 DEF Inv, TypeOK, BusyInv, Ingested, redis, results, faultVars, slotVars, work
  <1>7. ASSUME NEW b \in Batches, IngestFails(b) PROVE Inv'
    <2>1. struck' \subseteq Faults \cup {"lost"} /\ faults' \in Nat /\ stored' \subseteq Batches
      BY <1>7, StrikesType DEF IngestFails, Inv, TypeOK
    <2> QED
      BY <1>7, <2>1, AfterFailureType, RestartInv DEF IngestFails, Inv
  <1>8. ASSUME NEW b \in Batches, IngestDies(b) PROVE Inv'
    <2>1. struck' \subseteq Faults \cup {"lost"} /\ faults' \in Nat
      BY <1>8, StrikesType DEF IngestDies, Inv
    <2>2. stored' \subseteq Batches /\ tries[b] \in Nat
      BY <1>8 DEF IngestDies, Inv, TypeOK
    <2> QED
      BY <1>8, <2>1, <2>2, RestartInv DEF IngestDies
  <1>9. ASSUME NEW r \in Slots, Fire(r) PROVE Inv'
    <2>1. struck' \subseteq Faults \cup {"lost"} /\ faults' \in Nat
      BY <1>9, StrikesType DEF Fire, Inv, TypeOK, NoFault, faultVars
    <2>2. CASE Freed(r)
      BY <1>9, <2>1, <2>2, FreedInv DEF Fire, Inv, TypeOK, redis, results
    <2>3. CASE pc' = [pc EXCEPT ![r] = "read"] /\ UNCHANGED <<target, gen, read, work>>
      BY <1>9, <2>1, <2>3 DEF Inv, TypeOK, BusyInv, Fire, redis, results, work
    <2> QED
      BY <1>9, <2>2, <2>3 DEF Fire
  <1>10. ASSUME NEW r \in Slots, ReadSpans(r) PROVE Inv'
    <2>1. Spans(target[r]) \subseteq Batches
      BY DEF Spans, Inv, TypeOK
    <2> QED
      BY <1>10, <2>1 DEF Inv, TypeOK, BusyInv, ReadSpans, redis, results, faultVars, work
  <1>11. ASSUME NEW r \in Slots, WriteScores(r) PROVE Inv'
    <2>1. /\ scores' \in [Targets -> SUBSET Batches] /\ graded' \in [Targets -> SUBSET Batches]
          /\ struck' \subseteq Faults \cup {"lost"} /\ faults' \in Nat
      BY <1>11 DEF Inv, TypeOK, BusyInv, WriteScores, faultVars
    <2>2. CASE Freed(r)
      BY <1>11, <2>1, <2>2, FreedInv DEF WriteScores, redis
    <2>3. CASE /\ NeedsThreadPass(r)
               /\ pc' = [pc EXCEPT ![r] = "bump"]
               /\ UNCHANGED <<target, gen, read, work>>
      BY <1>11, <2>1, <2>3
      DEF Inv, TypeOK, BusyInv, WriteScores, NeedsThreadPass, redis, faultVars, work, Targets
    <2> QED
      BY <1>11, <2>2, <2>3 DEF WriteScores
  <1>12. ASSUME NEW r \in Slots, BumpThread(r) PROVE Inv'
    <2>1. /\ key' \in [Targets -> Nat] /\ tag' \in [Workers -> Nat]
          /\ struck' \subseteq Faults \cup {"lost"} /\ faults' \in Nat
      BY <1>12, BumpType DEF BumpThread, Inv
    <2> QED
      BY <1>12, <2>1 DEF Inv, TypeOK, BusyInv, BumpThread, results
  <1>13. ASSUME NEW r \in Slots, ScheduleThread(r) PROVE Inv'
    <2>1. struck' \subseteq Faults \cup {"lost"} /\ faults' \in Nat
      BY <1>13, StrikesType DEF ScheduleThread, Inv, TypeOK, NoFault, faultVars
    <2>2. CASE Freed(r)
      BY <1>13, <2>1, <2>2, FreedInv DEF ScheduleThread, Inv, TypeOK, redis, results
    <2>3. CASE Enqueue(r, Thread, tag[r]) /\ tag' = [tag EXCEPT ![r] = 0]
               /\ tries' = [tries EXCEPT ![r] = 0]
      BY <1>13, <2>1, <2>3 DEF Inv, TypeOK, BusyInv, ScheduleThread, Enqueue, redis, results
    <2> QED
      BY <1>13, <2>2, <2>3 DEF ScheduleThread
  <1>14. ASSUME NEW r \in Slots, EvalFails(r) PROVE Inv'
    <2>1. struck' \subseteq Faults \cup {"lost"} /\ faults' \in Nat
      BY <1>14, StrikesType DEF EvalFails, Inv
    <2>2. CASE Freed(r)
      BY <1>14, <2>1, <2>2, FreedInv DEF EvalFails, Inv, TypeOK, redis, results
    <2>3. CASE Requeue(r, tries[r] + 1)
      <3>1. tries[r] + 1 \in Nat /\ pc[r] # "free"
        BY <1>14 DEF EvalFails, Inv, TypeOK
      <3> QED
        BY <1>14, <2>1, <2>3, <3>1, RequeueInv DEF EvalFails
    <2> QED
      BY <1>14, <2>2, <2>3 DEF EvalFails
  <1>15. ASSUME NEW r \in Slots, EvalDies(r) PROVE Inv'
    <2>1. struck' \subseteq Faults \cup {"lost"} /\ faults' \in Nat
      BY <1>15, StrikesType DEF EvalDies, Inv
    <2>2. CASE Freed(r)
      BY <1>15, <2>1, <2>2, FreedInv DEF EvalDies, Inv, TypeOK, redis, results
    <2>3. CASE Requeue(r, tries[r])
      <3>1. tries[r] \in Nat /\ pc[r] # "free"
        BY <1>15 DEF EvalDies, Inv, TypeOK
      <3> QED
        BY <1>15, <2>1, <2>3, <3>1, RequeueInv DEF EvalDies
    <2> QED
      BY <1>15, <2>2, <2>3 DEF EvalDies
  <1>16. ASSUME NEW r \in Slots, EvaluatorsUnread(r) PROVE Inv'
    <2>1. struck' \subseteq Faults \cup {"lost"} /\ faults' \in Nat
      BY <1>16, StrikesType DEF EvaluatorsUnread, Inv
    <2> QED
      BY <1>16, <2>1, FreedInv DEF EvaluatorsUnread, Inv, TypeOK, redis, results
  <1> QED
    BY <1>0, <1>1, <1>2, <1>3, <1>4, <1>5, <1>6, <1>7, <1>8, <1>9, <1>10, <1>11, <1>12,
       <1>13, <1>14, <1>15, <1>16 DEF Next, IngestStep, EvalStep

\* DebouncedEval: types and targets stay what the code's annotations say.
THEOREM TypeCorrect == Spec => []TypeOK
  <1>1. Inv => TypeOK
    BY DEF Inv
  <1> QED
    BY <1>1, InitInv, StepInv, PTL DEF Spec

-----------------------------------------------------------------------------
(* Generations: while Redis answers, one holder each                       *)

Calm == ~Struck({"redis_error", "ttl"})

\* While it is calm, a bump gives out a generation newer than any other.
LEMMA CalmBump ==
    ASSUME Inv, NEW w \in Workers, NEW x \in Targets, Bump(w, x), Calm'
    PROVE  /\ Calm
           /\ key' = [key EXCEPT ![x] = key[x] + 1]
           /\ tag' = [tag EXCEPT ![w] = key[x] + 1]
  <1>1. ~Strikes({"redis_error"})
    BY DEF Strikes, Calm, Struck
  <1> QED
    BY <1>1 DEF Bump, NextGen, NoFault, faultVars, Calm, Struck

\* A strike of any other kind leaves a calm past.
LEMMA CalmStrike ==
    ASSUME NEW kinds, Strikes(kinds), Calm'
    PROVE  Calm
  BY DEF Strikes, Calm, Struck

\* A slot that ends holds nothing.
LEMMA FreedGenerations ==
    ASSUME Inv, Generations, NEW r \in Slots, Freed(r), Calm,
           UNCHANGED <<key, ingest>>
    PROVE  Generations'
  BY Places DEF Inv, TypeOK, Generations, Freed, Calm

\* A task put back in its queue holds what it held.
LEMMA RequeueGenerations ==
    ASSUME Inv, Generations, NEW r \in Slots, NEW n, Requeue(r, n), pc[r] # "free", Calm,
           UNCHANGED <<key, ingest>>
    PROVE  Generations'
  BY Places DEF Inv, TypeOK, Generations, Requeue, Calm

\* An ingest task that starts over holds nothing.
LEMMA RestartGenerations ==
    ASSUME Inv, Generations, NEW b \in Batches, NEW to \in {"queued", "lost", "done"}, NEW n,
           Restart(b, to, n), Calm, UNCHANGED <<key, slotVars>>
    PROVE  Generations'
  BY Places DEF Inv, TypeOK, Generations, Restart, slotVars, Calm

\* Every step keeps each generation with one holder.
LEMMA StepGenerations == Inv /\ Generations /\ [Next]_vars => Generations'
  <1> SUFFICES ASSUME Inv, Generations, [Next]_vars, Calm' PROVE Generations'
    BY DEF Generations, Calm
  <1> USE Places
  <1>0. CASE UNCHANGED vars
    BY <1>0 DEF Generations, Struck, vars, redis, results, faultVars, slotVars, work
  <1>1. ASSUME NEW x \in Targets, Expire(x) PROVE Generations'
    BY <1>1 DEF Expire, Strikes, Calm, Struck
  <1>2. ASSUME NEW b \in Batches, Post(b) PROVE Generations'
    BY <1>2 DEF Inv, TypeOK, Generations, Struck, Post, redis, faultVars, slotVars, work
  <1>3. ASSUME NEW b \in Batches, Process(b) PROVE Generations'
    BY <1>3 DEF Inv, TypeOK, Generations, Struck, Process, redis, faultVars, slotVars, work
  <1>4. ASSUME NEW b \in Batches, NEW t \in Traces, BumpTrace(b, t) PROVE Generations'
    <2>1. /\ Calm
          /\ key' = [key EXCEPT ![t] = key[t] + 1]
          /\ tag' = [tag EXCEPT ![b] = key[t] + 1]
      BY <1>4, CalmBump DEF BumpTrace
    <2> QED
      BY <1>4, <2>1 DEF Inv, TypeOK, BusyInv, BumpTrace, Generations, Calm, slotVars
  <1>5. ASSUME NEW b \in Batches, NEW r \in Slots, ScheduleTrace(b, r) PROVE Generations'
    BY <1>5 DEF Inv, TypeOK, BusyInv, ScheduleTrace, Enqueue, Generations, Struck, redis, faultVars
  <1>6. ASSUME NEW b \in Batches, Ingested(b) PROVE Generations'
    BY <1>6 DEF Inv, TypeOK, Generations, Struck, Ingested, redis, faultVars, slotVars, work
  <1>7. ASSUME NEW b \in Batches, IngestFails(b) PROVE Generations'
    <2>1. Calm
      BY <1>7, CalmStrike DEF IngestFails
    <2> QED
      BY <1>7, <2>1, AfterFailureType, RestartGenerations DEF IngestFails, Inv, redis
  <1>8. ASSUME NEW b \in Batches, IngestDies(b) PROVE Generations'
    <2>1. Calm
      BY <1>8, CalmStrike DEF IngestDies
    <2> QED
      BY <1>8, <2>1, RestartGenerations DEF IngestDies, redis
  <1>9. ASSUME NEW r \in Slots, Fire(r) PROVE Generations'
    <2>1. Calm
      BY <1>9, CalmStrike DEF Fire, NoFault, faultVars, Calm, Struck
    <2>2. CASE Freed(r)
      BY <1>9, <2>1, <2>2, FreedGenerations DEF Fire, redis
    <2>3. CASE pc' = [pc EXCEPT ![r] = "read"] /\ UNCHANGED <<target, gen, read, work>>
      BY <1>9, <2>1, <2>3 DEF Inv, TypeOK, Fire, Generations, Calm, redis, work
    <2> QED
      BY <1>9, <2>2, <2>3 DEF Fire
  <1>10. ASSUME NEW r \in Slots, ReadSpans(r) PROVE Generations'
    BY <1>10 DEF Inv, TypeOK, ReadSpans, Generations, Struck, redis, faultVars, work
  <1>11. ASSUME NEW r \in Slots, WriteScores(r) PROVE Generations'
    <2>1. Calm
      BY <1>11 DEF WriteScores, faultVars, Calm, Struck
    <2>2. CASE Freed(r)
      BY <1>11, <2>1, <2>2, FreedGenerations DEF WriteScores, redis
    <2>3. CASE pc' = [pc EXCEPT ![r] = "bump"] /\ UNCHANGED <<target, gen, read, work>>
      BY <1>11, <2>1, <2>3 DEF Inv, TypeOK, WriteScores, Generations, Calm, redis, work
    <2> QED
      BY <1>11, <2>2, <2>3 DEF WriteScores
  <1>12. ASSUME NEW r \in Slots, BumpThread(r) PROVE Generations'
    <2>1. /\ Calm
          /\ key' = [key EXCEPT ![Thread] = key[Thread] + 1]
          /\ tag' = [tag EXCEPT ![r] = key[Thread] + 1]
      BY <1>12, CalmBump DEF BumpThread
    <2> QED
      BY <1>12, <2>1 DEF Inv, TypeOK, BusyInv, BumpThread, Generations, Calm
  <1>13. ASSUME NEW r \in Slots, ScheduleThread(r) PROVE Generations'
    <2>1. Calm
      BY <1>13, CalmStrike DEF ScheduleThread, NoFault, faultVars, Calm, Struck
    <2>2. CASE Freed(r)
      BY <1>13, <2>1, <2>2, FreedGenerations DEF ScheduleThread, redis
    <2>3. CASE Enqueue(r, Thread, tag[r]) /\ tag' = [tag EXCEPT ![r] = 0]
               /\ tries' = [tries EXCEPT ![r] = 0]
      BY <1>13, <2>1, <2>3 DEF Inv, TypeOK, BusyInv, ScheduleThread, Enqueue, Generations,
                               Calm, redis
    <2> QED
      BY <1>13, <2>2, <2>3 DEF ScheduleThread
  <1>14. ASSUME NEW r \in Slots, EvalFails(r) PROVE Generations'
    <2>1. Calm
      BY <1>14, CalmStrike DEF EvalFails
    <2> QED
      BY <1>14, <2>1, FreedGenerations, RequeueGenerations DEF EvalFails, redis
  <1>15. ASSUME NEW r \in Slots, EvalDies(r) PROVE Generations'
    <2>1. Calm
      BY <1>15, CalmStrike DEF EvalDies
    <2> QED
      BY <1>15, <2>1, FreedGenerations, RequeueGenerations DEF EvalDies, redis
  <1>16. ASSUME NEW r \in Slots, EvaluatorsUnread(r) PROVE Generations'
    <2>1. Calm
      BY <1>16, CalmStrike DEF EvaluatorsUnread
    <2> QED
      BY <1>16, <2>1, FreedGenerations DEF EvaluatorsUnread, redis
  <1> QED
    BY <1>0, <1>1, <1>2, <1>3, <1>4, <1>5, <1>6, <1>7, <1>8, <1>9, <1>10, <1>11, <1>12,
       <1>13, <1>14, <1>15, <1>16 DEF Next, IngestStep, EvalStep

\* No two holders of a target have the same generation, so no two of its
\* queued tasks are both the newest: OneSurvivor.
LEMMA OneNewest == Inv /\ Generations => OneSurvivor
  BY DEF Inv, TypeOK, BusyInv, Generations, OneSurvivor, Superseded

\* tasks.py: a batch, or a trace, is bumped into one generation, which one
\* task holds at a time.
THEOREM GenerationsHeldOnce == Spec => []Generations
  <1>1. Init => Generations
    BY Places DEF Init, Generations
  <1> QED
    BY <1>1, InitInv, StepInv, StepGenerations, PTL DEF Spec

\* eval_debounce: at most one queued task per target will run.
THEOREM OneSurvives == Spec => []OneSurvivor
  <1>1. Spec => []Inv
    BY InitInv, StepInv, PTL DEF Spec
  <1> QED
    BY <1>1, GenerationsHeldOnce, OneNewest, PTL

-----------------------------------------------------------------------------
(* Coverage: what is stored is read, or about to be                        *)

\* Nothing was dropped for good.
Fine == ~Dropped

\* Where a slot may be until its trace's evaluation bumps the thread.
Before == {"queued", "read", "write", "bump"}

\* A strike that leaves the past fine found it fine, and was of another kind.
LEMMA FineStrike ==
    ASSUME NEW kinds, Strikes(kinds), Fine'
    PROVE  Fine /\ kinds \cap {"lost", "unscheduled", "unloaded"} = {}
  BY DEF Strikes, Fine, Dropped, Struck

\* A step that disturbs the cover of no batch stored before keeps Covered.
LEMMA CoverKept ==
    ASSUME Inv, Covered, Fine, UNCHANGED stored,
           \A t \in Traces, b \in Batches : ThreadCovered(t, b) => ThreadCovered(t, b)',
           \A b \in stored : \A t \in TracesOf[b] : TraceCovered(t, b) => TraceCovered(t, b)'
    PROVE  Covered'
  BY Places DEF Covered, Fine, Needs, Spans, Inv, TypeOK

\* A task put back in its queue will read what it would have read.
LEMMA RequeueCover ==
    ASSUME Inv, NEW r \in Slots, NEW n, Requeue(r, n),
           pc[r] \in {"read", "write", "bump"}, UNCHANGED <<stored, redis, results, ingest, left>>
    PROVE  /\ \A t \in Traces, b \in Batches : ThreadCovered(t, b) => ThreadCovered(t, b)'
           /\ \A t \in Traces, b \in Batches : TraceCovered(t, b) => TraceCovered(t, b)'
  <1> USE Places
  <1>1. \A c \in Batches, t \in Traces : IngestWill(c, t) => IngestWill(c, t)'
    BY DEF Inv, TypeOK, IngestWill, Requeue, Superseded, redis
  <1>2. \A q \in Slots, x \in Targets :
           SlotWill(q, x, {"queued", "read"}) => SlotWill(q, x, {"queued", "read"})'
    BY DEF Inv, TypeOK, SlotWill, Requeue, Superseded, redis
  <1>3. \A q \in Slots, t \in Traces :
           BumpWill(q, t) => BumpWill(q, t)' \/ SlotWill(q, t, {"queued", "read"})'
    BY DEF Inv, TypeOK, BumpWill, NeedsThreadPass, SlotWill, Requeue, Superseded, redis
  <1>4. \A q \in Slots, x \in Targets, b \in Batches :
           SlotWill(q, x, {"write"}) /\ b \in read[q]
             => \/ SlotWill(q, x, {"queued", "read"})'
                \/ SlotWill(q, x, {"write"})' /\ b \in read'[q]
    BY DEF Inv, TypeOK, SlotWill, Requeue, Superseded, redis
  <1>5. \A q \in Slots : pc[q] = "schedule" /\ ~Superseded(tag[q], Thread)
           => pc'[q] = "schedule" /\ ~Superseded(tag[q], Thread)'
    BY DEF Inv, TypeOK, Requeue, Superseded, redis
  <1>6. graded' = graded
    BY DEF results
  <1>7. \A t \in Traces, b \in Batches : ThreadCovered(t, b) => ThreadCovered(t, b)'
    BY <1>1, <1>2, <1>3, <1>4, <1>5, <1>6 DEF ThreadCovered
  <1>8. \A t \in Traces, b \in Batches : TraceCovered(t, b) => TraceCovered(t, b)'
    BY <1>1, <1>2, <1>4, <1>6 DEF TraceCovered
  <1> QED
    BY <1>7, <1>8

\* An ingest task that starts over will bump every trace of its batch.
LEMMA RestartCover ==
    ASSUME Inv, NEW b0 \in Batches, NEW n, Restart(b0, "queued", n),
           UNCHANGED <<redis, results, slotVars>>
    PROVE  /\ \A t \in TracesOf[b0] : IngestWill(b0, t)'
           /\ \A t \in Traces, b \in Batches : ThreadCovered(t, b) => ThreadCovered(t, b)'
           /\ \A t \in Traces, b \in Batches : TraceCovered(t, b) => TraceCovered(t, b)'
  <1> USE Places
  <1>1. \A t \in TracesOf[b0] : IngestWill(b0, t)'
    BY DEF Inv, TypeOK, IngestWill, Restart
  <1>2. \A c \in Batches, t \in Traces : IngestWill(c, t) => IngestWill(c, t)'
    BY <1>1 DEF Inv, TypeOK, IngestWill, Restart, Superseded, redis
  <1>3. \A q \in Slots : tag'[q] = tag[q]
    BY DEF Inv, TypeOK, Restart
  <1>4. \A t \in Traces, b \in Batches : ThreadCovered(t, b) => ThreadCovered(t, b)'
    BY <1>2, <1>3
    DEF ThreadCovered, BumpWill, NeedsThreadPass, SlotWill, Superseded, redis, results, slotVars
  <1>5. \A t \in Traces, b \in Batches : TraceCovered(t, b) => TraceCovered(t, b)'
    BY <1>2 DEF TraceCovered, SlotWill, Superseded, redis, results, slotVars
  <1> QED
    BY <1>1, <1>4, <1>5

\* A batch stored while its ingest task will bump its traces is covered, and
\* leaves the others as they are.
LEMMA StoreCover ==
    ASSUME Inv, Covered, Fine, NEW b0 \in Batches, stored' = stored \cup {b0},
           \A t \in TracesOf[b0] : IngestWill(b0, t)',
           \A t \in Traces, b \in Batches : ThreadCovered(t, b) => ThreadCovered(t, b)',
           \A t \in Traces, b \in Batches : TraceCovered(t, b) => TraceCovered(t, b)'
    PROVE  Covered'
  <1> USE Places
  <1>1. SUFFICES ASSUME NEW b \in stored', NEW t \in TracesOf[b]
                 PROVE  TraceCovered(t, b)' /\ (Needs(t)' => ThreadCovered(t, b)')
    BY DEF Covered
  <1>2. CASE t \in TracesOf[b0]
    BY <1>2 DEF TraceCovered, ThreadCovered
  <1>3. CASE t \notin TracesOf[b0]
    <2>1. b \in stored /\ b \in Batches /\ t \in Traces
      BY <1>3 DEF Inv, TypeOK
    <2>2. Spans(t)' = Spans(t)
      BY <1>3, <2>1 DEF Spans, Inv, TypeOK
    <2> QED
      BY <2>1, <2>2 DEF Covered, Fine, Needs
  <1> QED
    BY <1>2, <1>3

\* A bump supersedes whoever held the key, and takes over from them.
LEMMA BumpHolds ==
    ASSUME Inv, NEW w \in Workers, NEW x \in Targets, Bump(w, x)
    PROVE  /\ ~Superseded(tag[w], x)'
           /\ \A y \in Targets \ {x} : key'[y] = key[y]
           /\ \A v \in Workers \ {w} : tag'[v] = tag[v]
  BY DEF Inv, TypeOK, Bump, Superseded, NextGen

\* Nothing is stored at first.
LEMMA InitCovered == Init => Covered
  BY DEF Init, Covered

\* Every step leaves what is stored covered.
LEMMA StepCovered == Inv /\ Covered /\ [Next]_vars => Covered'
  <1> SUFFICES ASSUME Inv, Covered, [Next]_vars, Fine' PROVE Covered'
    BY DEF Covered, Fine
  <1> USE Places DEF Before
  <1>0. CASE UNCHANGED vars
    BY <1>0
    DEF Covered, Dropped, Struck, ThreadCovered, BumpWill, NeedsThreadPass, Needs, Spans,
        TraceCovered, IngestWill, SlotWill, Superseded,
        vars, redis, results, faultVars, slotVars, work
  <1>1. ASSUME NEW x \in Targets, Expire(x) PROVE Covered'
    <2>1. Fine
      BY <1>1, FineStrike DEF Expire
    <2>2. \A g \in Nat, y \in Targets : ~Superseded(g, y) => ~Superseded(g, y)'
      BY <1>1 DEF Inv, TypeOK, Expire, Superseded
    <2>3. \A c \in Batches, t \in Traces : IngestWill(c, t) => IngestWill(c, t)'
      BY <1>1, <2>2 DEF Inv, TypeOK, Expire, IngestWill, work
    <2>4. \A q \in Slots, y \in Targets, places \in SUBSET Before :
             SlotWill(q, y, places) => SlotWill(q, y, places)'
      BY <1>1, <2>2 DEF Inv, TypeOK, Expire, SlotWill, slotVars
    <2>5. \A q \in Slots : pc[q] = "schedule" /\ ~Superseded(tag[q], Thread)
             => pc'[q] = "schedule" /\ ~Superseded(tag[q], Thread)'
      BY <1>1, <2>2 DEF Inv, TypeOK, Expire, slotVars, work
    <2>6. \A t \in Traces, b \in Batches : ThreadCovered(t, b) => ThreadCovered(t, b)'
      BY <1>1, <2>3, <2>4, <2>5
      DEF ThreadCovered, BumpWill, NeedsThreadPass, Expire, results, slotVars
    <2>7. \A t \in Traces, b \in Batches : TraceCovered(t, b) => TraceCovered(t, b)'
      BY <1>1, <2>3, <2>4 DEF TraceCovered, Expire, results, slotVars
    <2> QED
      BY <1>1, <2>1, <2>6, <2>7, CoverKept DEF Expire, Inv, TypeOK
  <1>2. ASSUME NEW b0 \in Batches, Post(b0) PROVE Covered'
    <2>1. Fine
      BY <1>2 DEF Post, faultVars, Fine, Dropped, Struck
    <2>2. \A c \in Batches, t \in Traces : IngestWill(c, t) => IngestWill(c, t)'
      BY <1>2 DEF Inv, TypeOK, Post, IngestWill, Superseded, redis, work
    <2>3. \A t \in Traces, b \in Batches : ThreadCovered(t, b) => ThreadCovered(t, b)'
      BY <1>2, <2>2
      DEF ThreadCovered, BumpWill, NeedsThreadPass, SlotWill, Superseded, Post,
          redis, results, slotVars, work
    <2>4. \A t \in Traces, b \in Batches : TraceCovered(t, b) => TraceCovered(t, b)'
      BY <1>2, <2>2 DEF TraceCovered, SlotWill, Superseded, Post, redis, results, slotVars
    <2> QED
      BY <1>2, <2>1, <2>3, <2>4, CoverKept DEF Post, Inv, TypeOK
  <1>3. ASSUME NEW b0 \in Batches, Process(b0) PROVE Covered'
    <2>1. Fine
      BY <1>3 DEF Process, faultVars, Fine, Dropped, Struck
    <2>2. \A t \in TracesOf[b0] : IngestWill(b0, t)'
      BY <1>3 DEF Inv, TypeOK, Process, IngestWill
    <2>3. \A c \in Batches, t \in Traces : IngestWill(c, t) => IngestWill(c, t)'
      BY <1>3, <2>2 DEF Inv, TypeOK, Process, IngestWill, Superseded, redis, work
    <2>4. \A t \in Traces, b \in Batches : ThreadCovered(t, b) => ThreadCovered(t, b)'
      BY <1>3, <2>3
      DEF ThreadCovered, BumpWill, NeedsThreadPass, SlotWill, Superseded, Process,
          redis, results, slotVars, work
    <2>5. \A t \in Traces, b \in Batches : TraceCovered(t, b) => TraceCovered(t, b)'
      BY <1>3, <2>3 DEF TraceCovered, SlotWill, Superseded, Process, redis, results, slotVars
    <2>6. stored' = stored \cup {b0}
      BY <1>3 DEF Process
    <2> QED
      BY <2>1, <2>2, <2>4, <2>5, <2>6, StoreCover
  <1>4. ASSUME NEW b0 \in Batches, NEW t0 \in Traces, BumpTrace(b0, t0) PROVE Covered'
    <2>1. Fine
      BY <1>4, FineStrike DEF BumpTrace, Bump, NoFault, faultVars, Fine, Dropped, Struck
    <2>2. /\ ~Superseded(tag[b0], t0)'
          /\ \A y \in Targets \ {t0} : key'[y] = key[y]
          /\ \A v \in Workers \ {b0} : tag'[v] = tag[v]
      BY <1>4, BumpHolds DEF BumpTrace
    <2>3. IngestWill(b0, t0)'
      BY <1>4, <2>2 DEF Inv, TypeOK, BusyInv, BumpTrace, IngestWill
    <2>4. \A c \in Batches, t \in Traces : t # t0 /\ IngestWill(c, t) => IngestWill(c, t)'
      BY <1>4, <2>2 DEF Inv, TypeOK, BumpTrace, IngestWill, Superseded
    <2>5. \A q \in Slots, y \in Targets, places \in SUBSET Before :
             y # t0 /\ SlotWill(q, y, places) => SlotWill(q, y, places)'
      BY <1>4, <2>2 DEF BumpTrace, SlotWill, Superseded, slotVars
    <2>6. \A q \in Slots : pc[q] = "schedule" /\ ~Superseded(tag[q], Thread)
             => pc'[q] = "schedule" /\ ~Superseded(tag[q], Thread)'
      BY <1>4, <2>2 DEF BumpTrace, Superseded, slotVars
    <2>7. \A t \in Traces, b \in Batches : ThreadCovered(t, b) => ThreadCovered(t, b)'
      BY <1>4, <2>3, <2>4, <2>5, <2>6
      DEF ThreadCovered, BumpWill, NeedsThreadPass, BumpTrace, results, slotVars
    <2>8. \A t \in Traces, b \in Batches : TraceCovered(t, b) => TraceCovered(t, b)'
      BY <1>4, <2>3, <2>4, <2>5 DEF TraceCovered, BumpTrace, results, slotVars
    <2> QED
      BY <1>4, <2>1, <2>7, <2>8, CoverKept DEF BumpTrace, Inv, TypeOK
  <1>5. ASSUME NEW b0 \in Batches, NEW r \in Slots, ScheduleTrace(b0, r) PROVE Covered'
    <2>1. Fine
      BY <1>5 DEF ScheduleTrace, faultVars, Fine, Dropped, Struck
    <2>2. \A g, y : Superseded(g, y)' <=> Superseded(g, y)
      BY <1>5 DEF ScheduleTrace, Superseded, redis
    <2>3. \A c \in Batches, t \in Traces : IngestWill(c, t)
             => IngestWill(c, t)' \/ SlotWill(r, t, {"queued", "read"})'
      BY <1>5 DEF Inv, TypeOK, ScheduleTrace, Enqueue, IngestWill, SlotWill, Superseded, redis
    <2>4. \A q \in Slots, y \in Targets, places \in SUBSET Before :
             SlotWill(q, y, places) => SlotWill(q, y, places)' /\ read'[q] = read[q]
      BY <1>5 DEF Inv, TypeOK, ScheduleTrace, Enqueue, SlotWill, Superseded, redis
    <2>5. \A q \in Slots : pc[q] = "schedule" /\ ~Superseded(tag[q], Thread)
             => pc'[q] = "schedule" /\ ~Superseded(tag[q], Thread)'
      BY <1>5 DEF Inv, TypeOK, ScheduleTrace, Enqueue, Superseded, redis
    <2>6. \A q \in Slots, t \in Traces : BumpWill(q, t) => BumpWill(q, t)'
      BY <1>5, <2>2
      DEF Inv, TypeOK, ScheduleTrace, Enqueue, BumpWill, NeedsThreadPass, SlotWill
    <2>7. \A t \in Traces, b \in Batches : ThreadCovered(t, b) => ThreadCovered(t, b)'
      BY <1>5, <2>3, <2>4, <2>5, <2>6 DEF ThreadCovered, ScheduleTrace, results
    <2>8. \A t \in Traces, b \in Batches : TraceCovered(t, b) => TraceCovered(t, b)'
      BY <1>5, <2>3, <2>4 DEF TraceCovered, ScheduleTrace, results
    <2> QED
      BY <1>5, <2>1, <2>7, <2>8, CoverKept DEF ScheduleTrace, Inv, TypeOK
  <1>6. ASSUME NEW b0 \in Batches, Ingested(b0) PROVE Covered'
    <2>1. Fine
      BY <1>6 DEF Ingested, faultVars, Fine, Dropped, Struck
    <2>2. \A c \in Batches, t \in Traces : IngestWill(c, t) => IngestWill(c, t)'
      BY <1>6 DEF Inv, TypeOK, Ingested, IngestWill, Superseded, redis, work
    <2>3. \A t \in Traces, b \in Batches : ThreadCovered(t, b) => ThreadCovered(t, b)'
      BY <1>6, <2>2
      DEF ThreadCovered, BumpWill, NeedsThreadPass, SlotWill, Superseded, Ingested,
          redis, results, slotVars, work
    <2>4. \A t \in Traces, b \in Batches : TraceCovered(t, b) => TraceCovered(t, b)'
      BY <1>6, <2>2 DEF TraceCovered, SlotWill, Superseded, Ingested, redis, results, slotVars
    <2> QED
      BY <1>6, <2>1, <2>3, <2>4, CoverKept DEF Ingested, Inv, TypeOK
  <1>7. ASSUME NEW b0 \in Batches, IngestFails(b0) PROVE Covered'
    <2>1. Fine /\ AfterFailure(b0).to = "queued"
      BY <1>7, FineStrike DEF IngestFails, AfterFailure
    <2>2. PICK n : Restart(b0, "queued", n)
      BY <1>7, <2>1 DEF IngestFails
    <2>3. UNCHANGED <<redis, results, slotVars>> /\ stored' \in {stored, stored \cup {b0}}
      BY <1>7 DEF IngestFails
    <2>4. /\ \A t \in TracesOf[b0] : IngestWill(b0, t)'
          /\ \A t \in Traces, b \in Batches : ThreadCovered(t, b) => ThreadCovered(t, b)'
          /\ \A t \in Traces, b \in Batches : TraceCovered(t, b) => TraceCovered(t, b)'
      BY <2>2, <2>3, RestartCover
    <2> QED
      BY <2>1, <2>3, <2>4, StoreCover, CoverKept DEF Inv, TypeOK
  <1>8. ASSUME NEW b0 \in Batches, IngestDies(b0) PROVE Covered'
    <2>1. Fine /\ Restart(b0, "queued", tries[b0])
      BY <1>8, FineStrike DEF IngestDies
    <2>2. UNCHANGED <<stored, redis, results, slotVars>>
      BY <1>8 DEF IngestDies
    <2>3. /\ \A t \in Traces, b \in Batches : ThreadCovered(t, b) => ThreadCovered(t, b)'
          /\ \A t \in Traces, b \in Batches : TraceCovered(t, b) => TraceCovered(t, b)'
      BY <2>1, <2>2, RestartCover
    <2> QED
      BY <2>1, <2>2, <2>3, CoverKept DEF Inv, TypeOK
  <1>9. ASSUME NEW r \in Slots, Fire(r) PROVE Covered'
    <2>1. Fine /\ UNCHANGED <<stored, redis, results, ingest, left>>
      BY <1>9, FineStrike DEF Fire, NoFault, faultVars, Fine, Dropped, Struck
    <2>2. \A c \in Batches : tag'[c] = tag[c]
      BY <1>9 DEF Inv, TypeOK, Fire, Freed, work
    <2>3. \A c \in Batches, t \in Traces : IngestWill(c, t) => IngestWill(c, t)'
      BY <2>1, <2>2 DEF IngestWill, Superseded, redis
    <2>4. \A q \in Slots, y \in Targets :
             SlotWill(q, y, {"queued", "read"}) => SlotWill(q, y, {"queued", "read"})'
      BY <1>9, <2>1 DEF Inv, TypeOK, Fire, Freed, SlotWill, Superseded, redis
    <2>5. \A q \in Slots, t \in Traces : BumpWill(q, t) => BumpWill(q, t)'
      BY <1>9, <2>1
      DEF Inv, TypeOK, Fire, Freed, BumpWill, NeedsThreadPass, SlotWill, Superseded, redis
    <2>6. \A q \in Slots, y \in Targets :
             SlotWill(q, y, {"write"}) => SlotWill(q, y, {"write"})' /\ read'[q] = read[q]
      BY <1>9, <2>1 DEF Inv, TypeOK, Fire, Freed, SlotWill, Superseded, redis
    <2>7. \A q \in Slots : pc[q] = "schedule" /\ ~Superseded(tag[q], Thread)
             => pc'[q] = "schedule" /\ ~Superseded(tag[q], Thread)'
      BY <1>9, <2>1 DEF Inv, TypeOK, Fire, Freed, Superseded, redis, work
    <2>8. \A t \in Traces, b \in Batches : ThreadCovered(t, b) => ThreadCovered(t, b)'
      BY <2>1, <2>3, <2>4, <2>5, <2>6, <2>7 DEF ThreadCovered, results
    <2>9. \A t \in Traces, b \in Batches : TraceCovered(t, b) => TraceCovered(t, b)'
      BY <2>1, <2>3, <2>4, <2>6 DEF TraceCovered, results
    <2> QED
      BY <2>1, <2>8, <2>9, CoverKept DEF Inv, TypeOK
  <1>10. ASSUME NEW r \in Slots, ReadSpans(r) PROVE Covered'
    <2>1. Fine /\ UNCHANGED <<stored, redis, results, ingest, left, target, gen, work>>
      BY <1>10 DEF ReadSpans, faultVars, Fine, Dropped, Struck
    <2>2. \A c \in Batches, t \in Traces : IngestWill(c, t) => IngestWill(c, t)'
      BY <2>1 DEF IngestWill, Superseded, redis, work
    <2>3. \A q \in Slots, y \in Targets, b \in stored :
             SlotWill(q, y, {"queued", "read"}) /\ (y = Thread \/ y \in TracesOf[b])
               => \/ SlotWill(q, y, {"queued", "read"})'
                  \/ SlotWill(q, y, {"write"})' /\ b \in read'[q]
      BY <1>10, <2>1 DEF Inv, TypeOK, ReadSpans, Spans, SlotWill, Superseded, redis
    <2>4. \A q \in Slots, t \in Traces :
             /\ BumpWill(q, t) => BumpWill(q, t)'
             /\ Needs(t) /\ SlotWill(q, t, {"queued", "read"})
                  => SlotWill(q, t, {"queued", "read"})' \/ BumpWill(q, t)'
      BY <1>10, <2>1
      DEF Inv, TypeOK, ReadSpans, Needs, BumpWill, NeedsThreadPass, SlotWill, Superseded, redis
    <2>5. \A q \in Slots, y \in Targets :
             SlotWill(q, y, {"write"}) => SlotWill(q, y, {"write"})' /\ read'[q] = read[q]
      BY <1>10, <2>1 DEF Inv, TypeOK, ReadSpans, SlotWill, Superseded, redis
    <2>6. \A q \in Slots : pc[q] = "schedule" /\ ~Superseded(tag[q], Thread)
             => pc'[q] = "schedule" /\ ~Superseded(tag[q], Thread)'
      BY <1>10, <2>1 DEF Inv, TypeOK, ReadSpans, Superseded, redis, work
    <2>7. \A b \in stored, t \in Traces :
             Needs(t) /\ ThreadCovered(t, b) => ThreadCovered(t, b)'
      BY <2>1, <2>2, <2>3, <2>4, <2>5, <2>6 DEF ThreadCovered, results
    <2>8. \A b \in stored : \A t \in TracesOf[b] : TraceCovered(t, b) => TraceCovered(t, b)'
      BY <2>1, <2>2, <2>3, <2>5 DEF TraceCovered, results, Inv, TypeOK
    <2>9. \A t \in Traces : Needs(t)' <=> Needs(t)
      BY <2>1 DEF Needs, Spans
    <2> QED
      BY <2>1, <2>7, <2>8, <2>9 DEF Covered, Fine, Inv, TypeOK
  <1>11. ASSUME NEW r \in Slots, WriteScores(r) PROVE Covered'
    <2>1. Fine /\ UNCHANGED <<stored, redis, ingest, left>>
      BY <1>11 DEF WriteScores, faultVars, Fine, Dropped, Struck
    <2>2. \A c \in Batches : tag'[c] = tag[c]
      BY <1>11 DEF Inv, TypeOK, WriteScores, Freed, work
    <2>3. \A c \in Batches, t \in Traces : IngestWill(c, t) => IngestWill(c, t)'
      BY <2>1, <2>2 DEF IngestWill, Superseded, redis
    <2>4. \A q \in Slots, y \in Targets :
             SlotWill(q, y, {"queued", "read"}) => SlotWill(q, y, {"queued", "read"})'
      BY <1>11, <2>1 DEF Inv, TypeOK, WriteScores, Freed, SlotWill, Superseded, redis
    <2>5. \A q \in Slots, t \in Traces : BumpWill(q, t) => BumpWill(q, t)'
      BY <1>11, <2>1
      DEF Inv, TypeOK, WriteScores, Freed, BumpWill, NeedsThreadPass, SlotWill, Superseded, redis
    <2>6. \A q \in Slots, y \in Targets, b \in Batches :
             SlotWill(q, y, {"write"}) /\ b \in read[q]
               => \/ b \in graded'[y]
                  \/ SlotWill(q, y, {"write"})' /\ b \in read'[q]
      BY <1>11, <2>1 DEF Inv, TypeOK, BusyInv, WriteScores, Freed, SlotWill, Superseded, redis
    <2>7. \A q \in Slots : pc[q] = "schedule" /\ ~Superseded(tag[q], Thread)
             => pc'[q] = "schedule" /\ ~Superseded(tag[q], Thread)'
      BY <1>11, <2>1 DEF Inv, TypeOK, WriteScores, Freed, Superseded, redis, work
    <2>8. \A y \in Targets : graded[y] \subseteq graded'[y]
      BY <1>11 DEF Inv, TypeOK, WriteScores
    <2>9. \A t \in Traces, b \in Batches : ThreadCovered(t, b) => ThreadCovered(t, b)'
      BY <2>3, <2>4, <2>5, <2>6, <2>7, <2>8 DEF ThreadCovered
    <2>10. \A t \in Traces, b \in Batches : TraceCovered(t, b) => TraceCovered(t, b)'
      BY <2>3, <2>4, <2>6, <2>8 DEF TraceCovered
    <2> QED
      BY <2>1, <2>9, <2>10, CoverKept DEF Inv, TypeOK
  <1>12. ASSUME NEW r \in Slots, BumpThread(r) PROVE Covered'
    <2>1. Fine /\ UNCHANGED <<stored, results, ingest, left, target, gen, read>>
      BY <1>12, FineStrike DEF BumpThread, Bump, NoFault, faultVars, Fine, Dropped, Struck
    <2>2. /\ ~Superseded(tag[r], Thread)'
          /\ \A y \in Targets \ {Thread} : key'[y] = key[y]
          /\ \A v \in Workers \ {r} : tag'[v] = tag[v]
      BY <1>12, BumpHolds DEF BumpThread
    <2>3. \A c \in Batches, t \in Traces : IngestWill(c, t) => IngestWill(c, t)'
      BY <2>1, <2>2 DEF IngestWill, Superseded
    <2>4. \A q \in Slots, t \in Traces :
             /\ SlotWill(q, t, {"queued", "read"}) => SlotWill(q, t, {"queued", "read"})'
             /\ SlotWill(q, t, {"write"}) => SlotWill(q, t, {"write"})'
      BY <1>12, <2>1, <2>2 DEF Inv, TypeOK, BumpThread, SlotWill, Superseded
    <2>5. pc'[r] = "schedule"
      BY <1>12 DEF Inv, TypeOK, BumpThread
    <2>6. \A t \in Traces, b \in Batches : ThreadCovered(t, b)'
      BY <2>2, <2>5 DEF ThreadCovered, Superseded
    <2>7. \A t \in Traces, b \in Batches : TraceCovered(t, b) => TraceCovered(t, b)'
      BY <2>1, <2>3, <2>4 DEF TraceCovered, results
    <2> QED
      BY <2>1, <2>6, <2>7, CoverKept DEF Inv, TypeOK
  <1>13. ASSUME NEW r \in Slots, ScheduleThread(r) PROVE Covered'
    <2>1. Fine /\ UNCHANGED <<stored, redis, results, ingest, left>>
      BY <1>13, FineStrike DEF ScheduleThread, NoFault, faultVars, Fine, Dropped, Struck
    <2>2. /\ pc[r] = "schedule" /\ Enqueue(r, Thread, tag[r])
          /\ tag' = [tag EXCEPT ![r] = 0]
      BY <1>13, FineStrike DEF ScheduleThread
    <2>3. \A c \in Batches, t \in Traces : IngestWill(c, t) => IngestWill(c, t)'
      BY <2>1, <2>2 DEF Inv, TypeOK, IngestWill, Superseded, redis
    <2>4. \A q \in Slots, y \in Targets, places \in SUBSET Before :
             SlotWill(q, y, places) => SlotWill(q, y, places)' /\ read'[q] = read[q]
      BY <2>1, <2>2 DEF Inv, TypeOK, Enqueue, SlotWill, Superseded, redis
    <2>5. \A q \in Slots : pc[q] = "schedule" /\ ~Superseded(tag[q], Thread)
             => \/ pc'[q] = "schedule" /\ ~Superseded(tag[q], Thread)'
                \/ SlotWill(q, Thread, {"queued", "read"})'
      BY <2>1, <2>2 DEF Inv, TypeOK, Enqueue, SlotWill, Superseded, redis
    <2>6. \A t \in Traces, b \in Batches : ThreadCovered(t, b) => ThreadCovered(t, b)'
      <3>1. \A q \in Slots, t \in Traces : BumpWill(q, t) => BumpWill(q, t)'
        BY <2>1, <2>2
        DEF Inv, TypeOK, Enqueue, BumpWill, NeedsThreadPass, SlotWill, Superseded, redis
      <3> QED
        BY <2>1, <2>3, <2>4, <2>5, <3>1 DEF ThreadCovered, results
    <2>7. \A t \in Traces, b \in Batches : TraceCovered(t, b) => TraceCovered(t, b)'
      BY <2>1, <2>3, <2>4 DEF TraceCovered, results
    <2> QED
      BY <2>1, <2>6, <2>7, CoverKept DEF Inv, TypeOK
  <1>14. ASSUME NEW r \in Slots, EvalFails(r) PROVE Covered'
    <2>1. Fine /\ UNCHANGED <<stored, redis, results, ingest, left>>
      BY <1>14, FineStrike DEF EvalFails
    <2>2. Requeue(r, tries[r] + 1) /\ pc[r] \in {"read", "write", "bump"}
      BY <1>14, FineStrike DEF EvalFails
    <2> QED
      BY <2>1, <2>2, RequeueCover, CoverKept DEF Inv, TypeOK
  <1>15. ASSUME NEW r \in Slots, EvalDies(r) PROVE Covered'
    <2>1. Fine /\ UNCHANGED <<stored, redis, results, ingest, left>>
      BY <1>15, FineStrike DEF EvalDies
    <2>2. Requeue(r, tries[r]) /\ pc[r] \in {"read", "write", "bump"}
      BY <1>15, FineStrike DEF EvalDies
    <2> QED
      BY <2>1, <2>2, RequeueCover, CoverKept DEF Inv, TypeOK
  <1>16. ASSUME NEW r \in Slots, EvaluatorsUnread(r) PROVE Covered'
    BY <1>16, FineStrike DEF EvaluatorsUnread
  <1> QED
    BY <1>0, <1>1, <1>2, <1>3, <1>4, <1>5, <1>6, <1>7, <1>8, <1>9, <1>10, <1>11, <1>12,
       <1>13, <1>14, <1>15, <1>16 DEF Next, IngestStep, EvalStep

\* When nothing is queued or running, nothing more is to come, so what is
\* covered has been read.
LEMMA QuietCovered == Inv /\ Covered => NothingForgotten
  <1> SUFFICES ASSUME Inv, Covered, Quiet, Fine, NEW t \in Traces, NEW b \in Spans(t)
               PROVE  b \in graded[t] /\ (Needs(t) => b \in graded[Thread])
    BY DEF NothingForgotten, TraceGraded, Fine
  <1>1. b \in stored /\ t \in TracesOf[b]
    BY Places DEF Spans
  <1>2. \A c \in Batches : ~IngestWill(c, t)
    BY DEF Quiet, Ingesting, IngestWill
  <1>3. \A r \in Slots : pc[r] = "free"
    BY DEF Quiet
  <1>4. TraceCovered(t, b) => b \in graded[t]
    BY <1>2, <1>3 DEF TraceCovered, SlotWill
  <1>5. ThreadCovered(t, b) => b \in graded[Thread]
    BY <1>2, <1>3 DEF ThreadCovered, BumpWill, SlotWill
  <1> QED
    BY <1>1, <1>4, <1>5 DEF Covered, Fine

\* tasks.py: whatever supersedes, expires, crashes or retries, every span stored
\* has been read by an evaluation of its trace, and of the thread where the trace
\* needs one, or an evaluation is to come that will.
THEOREM StoredIsCovered == Spec => []Covered
  <1>1. Spec => []Inv
    BY InitInv, StepInv, PTL DEF Spec
  <1> QED
    BY <1>1, InitCovered, StepCovered, PTL DEF Spec

\* tasks.py: once the queue is empty nothing stored is left unread by its trace,
\* nor by the thread where the trace needs that.
THEOREM NoneForgotten == Spec => []NothingForgotten
  <1>1. Spec => []Inv
    BY InitInv, StepInv, PTL DEF Spec
  <1> QED
    BY <1>1, StoredIsCovered, QuietCovered, PTL

=============================================================================
