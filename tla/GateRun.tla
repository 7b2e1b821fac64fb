-------------------------------- MODULE GateRun --------------------------------
(***************************************************************************)
(* One CI gate run.  POST /gate replays the regression cases and answers;  *)
(* POST /gate/simulate creates the row CI polls and queues the drive task, *)
(* which replays the cases, sends each enabled scenario's conversation to  *)
(* the customer's endpoint and queues the grade task, which judges the     *)
(* conversations and finalizes the row.  Both tasks are delivered at least *)
(* once and never retried; each works on the row as its own session loaded *)
(* it, while users edit scenarios and the endpoint.                        *)
(*                                                                         *)
(* A judge's verdict, an agent's answer and the replayed traces are chosen *)
(* freely among the outcomes the code tells apart.                         *)
(***************************************************************************)
EXTENDS Integers, FiniteSets, Functions

CONSTANTS
    Cases,            \* promoted regression cases
    Scenarios,        \* the agent's scenarios
    Graders,          \* slots for grade tasks
    RateNum, RateDen, \* min_pass_rate
    RequireFullCoverage, BlockOnWarnings,  \* settings.gate_*
    Faults,           \* the kinds of fault that may strike
    MaxFaults,        \* how many may strike in all
    MaxEdits          \* edits users make meanwhile

FaultKinds ==
    {"request", "broker_down", "raise", "unmarked", "crash", "late_crash", "killed"}

ASSUME ConstantsAssumption ==
    /\ IsFiniteSet(Cases) /\ IsFiniteSet(Scenarios)
    /\ RateNum \in Nat /\ RateDen \in Nat \ {0} /\ RateNum <= RateDen
    /\ RequireFullCoverage \in BOOLEAN /\ BlockOnWarnings \in BOOLEAN
    /\ Faults \subseteq FaultKinds
    /\ MaxFaults \in Nat /\ MaxEdits \in Nat

VARIABLES
    row,        \* the GateRun row
    caseRow,    \* [Cases -> verdict of its GateCase row, "none" without one]
    scenRow,    \* the same for the scenarios; not yet graded, what was driven
    exists,     \* scenarios not deleted (else the row's scenario_id is NULL)
    enabled,    \* scenarios switched on
    endpoint,   \* the agent has an endpoint
    edits,      \* edits so far
    sent,       \* [Scenarios -> Nat]: conversations started at the endpoint
    struck,     \* the kinds of fault that have struck
    faults      \* how many have struck

VARIABLES
    dpc,        \* where the drive task is
    dsnap,      \* the row as its session knows it
    dcases,     \* the verdicts of the replayed cases, not yet committed
    dleft,      \* scenarios still to drive
    dnow,       \* the scenarios driven and not committed: one or none
    driven,     \* what _drive_scenarios returns
    gpc,        \* [Graders -> where the grade task is]
    gsnap,      \* [Graders -> the row as its session loaded it]
    gout,       \* [Graders -> outcomes: scenario rows it grades]
    gswept      \* [Graders -> rows whose scenario is gone]

rows == <<row, caseRow, scenRow>>
config == <<exists, enabled, endpoint, edits>>
faultVars == <<struck, faults>>
drive == <<dpc, dsnap, dcases, dleft, dnow, driven>>
grade == <<gpc, gsnap, gout, gswept>>

vars == <<rows, config, sent, faultVars, drive, grade>>

-----------------------------------------------------------------------------
\* What driving a conversation may leave: turns, an error, or no turn at all.
Driven == {"turns", "error", "empty"}

\* What replaying a promoted case may leave; SKIP without a candidate trace.
Replayed == {"PASS", "FAIL", "SKIP"}

Verdicts == {"PASS", "FAIL", "UNGRADED", "SKIP"}

NewRow ==
    [status |-> "RUNNING", finished |-> FALSE, total |-> 0,
     passed |-> 0, failed |-> 0, skipped |-> 0, warnings |-> {}]

Unmade == [NewRow EXCEPT !.status = "none"]

NoCases == [c \in Cases |-> "none"]

Init ==
    /\ row = Unmade
    /\ caseRow = NoCases
    /\ scenRow = [s \in Scenarios |-> "none"]
    /\ exists = Scenarios
    /\ enabled \in SUBSET Scenarios
    /\ endpoint \in BOOLEAN
    /\ edits = 0
    /\ sent = [s \in Scenarios |-> 0]
    /\ struck = {} /\ faults = 0
    /\ dpc = "none" /\ dsnap = Unmade /\ dcases = NoCases
    /\ dleft = {} /\ dnow = {} /\ driven = 0
    /\ gpc = [g \in Graders |-> "free"]
    /\ gsnap = [g \in Graders |-> Unmade]
    /\ gout = [g \in Graders |-> <<>>]
    /\ gswept = [g \in Graders |-> {}]

\* A fault of this kind strikes now.
Strike(kind) ==
    /\ kind \in Faults
    /\ faults < MaxFaults
    /\ struck' = struck \cup {kind}
    /\ faults' = faults + 1

NoFault == UNCHANGED faultVars

\* The drive task is over, or will start anew: its local state is gone.
DriveEnd(l) ==
    /\ dpc' = l
    /\ dsnap' = Unmade /\ dcases' = NoCases
    /\ dleft' = {} /\ dnow' = {} /\ driven' = 0

\* How many have this verdict.
Count(v, verdict) == Cardinality({x \in DOMAIN v : v[x] = verdict})

-----------------------------------------------------------------------------
(* The verdict rules                                                       *)

Severity == [PASS |-> 0, NO_COVERAGE |-> 1, FAIL |-> 2]

\* mutant: the scenarios' half decides.
Worst_Last(a, b) == b

\* _worst: a gate is only as good as its worst half.
Worst(a, b) == IF Severity[a] >= Severity[b] THEN a ELSE b

\* _final_status, of the regression half.
FinalStatus(passed, failed, skipped, total, warnings) ==
    CASE failed > 0 -> "FAIL"
      [] failed = 0 /\ total = 0 -> "PASS"
      [] failed = 0 /\ total # 0 /\ passed = 0 -> "NO_COVERAGE"
      [] OTHER -> IF skipped > 0 /\ RequireFullCoverage THEN "NO_COVERAGE"
                  ELSE IF warnings # {} /\ BlockOnWarnings THEN "FAIL" ELSE "PASS"

\* gate_verdict, of the scenarios' half: v is [outcomes -> verdict].
GateVerdict(v) ==
    LET ran == Cardinality({s \in DOMAIN v : v[s] # "SKIP"})
    IN CASE DOMAIN v = {} -> "PASS"
         [] DOMAIN v # {} /\ Count(v, "UNGRADED") = ran -> "NO_COVERAGE"
         [] OTHER -> IF Count(v, "PASS") * RateDen >= RateNum * ran
                     THEN "PASS" ELSE "FAIL"

-----------------------------------------------------------------------------
(* The API                                                                 *)

\* POST /gate: the cases alone, in one request; its row is committed first,
\* then its cases and counters.
RunGate ==
    /\ row.status = "none"
    /\ row' = [NewRow EXCEPT !.total = Cardinality(Cases)]
    /\ dpc' = "inline"
    /\ UNCHANGED <<caseRow, scenRow, config, sent, faultVars,
                   dsnap, dcases, dleft, dnow, driven, grade>>

\* Should it fail in between, nobody marks the row.
RunGateEnds ==
    /\ dpc = "inline"
    /\ dpc' = "done"
    /\ \/ \E v \in [Cases -> Replayed], soft \in SUBSET {"soft"} :
             LET status == FinalStatus(Count(v, "PASS"), Count(v, "FAIL"),
                                       Count(v, "SKIP"), Cardinality(Cases), {})
             IN /\ row' = [row EXCEPT
                      !.finished = TRUE, !.warnings = soft,
                      !.passed = Count(v, "PASS"), !.failed = Count(v, "FAIL"),
                      !.skipped = Count(v, "SKIP"),
                      !.status = IF soft # {} /\ BlockOnWarnings THEN "FAIL" ELSE status]
                /\ caseRow' = v
                /\ NoFault
       \/ Strike("request") /\ UNCHANGED <<row, caseRow>>
    /\ UNCHANGED <<scenRow, config, sent, dsnap, dcases, dleft, dnow, driven, grade>>

\* POST /gate/simulate: the row is committed, then the drive is queued.
CreateRun ==
    /\ row.status = "none"
    /\ row' = NewRow
    /\ dpc' = "delay"
    /\ UNCHANGED <<caseRow, scenRow, config, sent, faultVars,
                   dsnap, dcases, dleft, dnow, driven, grade>>

\* run_scenario_gate_task.delay; the request may fail in between as well.
Delay ==
    /\ dpc = "delay"
    /\ \/ dpc' = "queued" /\ NoFault
       \/ dpc' = "done" /\ Strike("request")
    /\ UNCHANGED <<rows, config, sent, dsnap, dcases, dleft, dnow, driven, grade>>

\* A scenario is switched on or off.
Toggle(s) ==
    /\ s \in exists
    /\ enabled' = IF s \in enabled THEN enabled \ {s} ELSE enabled \cup {s}
    /\ UNCHANGED <<exists, endpoint>>

\* mutant: a deleted scenario stays switched on.
Delete_KeepsEnabled(s) ==
    /\ s \in exists
    /\ exists' = exists \ {s}
    /\ UNCHANGED <<enabled, endpoint>>

\* scenario_delete: its GateCase rows stay, detached.
Delete(s) ==
    /\ s \in exists
    /\ exists' = exists \ {s}
    /\ enabled' = enabled \ {s}
    /\ UNCHANGED endpoint

\* set_endpoint; there is no way to remove one.
SetEndpoint ==
    /\ ~endpoint
    /\ endpoint' = TRUE
    /\ UNCHANGED <<exists, enabled>>

\* A user edits while a simulated run is under way.
Edit ==
    /\ row.status = "RUNNING"
    /\ edits < MaxEdits
    /\ edits' = edits + 1
    /\ \/ \E s \in Scenarios : Toggle(s) \/ Delete(s)
       \/ SetEndpoint
    /\ UNCHANGED <<rows, sent, faultVars, drive, grade>>

-----------------------------------------------------------------------------
(* The row, as the sessions write it                                       *)

\* An UPDATE names only the columns whose value the session changed.
Flush(known, new) ==
    [f \in DOMAIN row |-> IF new[f] # known[f] THEN new[f] ELSE row[f]]

\* mutant: the error of one task overrides the verdict of another.
Marked_Always == [row EXCEPT !.status = "ERROR", !.finished = TRUE]

\* _mark_gate_error, on the row read afresh.
Marked == IF row.finished THEN row ELSE [row EXCEPT !.status = "ERROR", !.finished = TRUE]

HasRow(s) == scenRow[s] # "none"

\* mutant: a redelivered task does not look.
Over_Never == FALSE

\* finished_at is set: a redelivered task has nothing to do.
Over == row.finished

-----------------------------------------------------------------------------
(* run_scenario_gate_task: the drive                                       *)

\* The task starts: its session loads the row.  This read is outside the try,
\* so if Postgres does not answer, the task fails and nobody marks the row.
DriveLoad ==
    /\ dpc = "queued"
    /\ \/ Over /\ dpc' = "done" /\ UNCHANGED dsnap /\ NoFault
       \/ ~Over /\ dpc' = "reset" /\ dsnap' = row /\ NoFault
       \/ dpc' = "done" /\ UNCHANGED dsnap /\ Strike("unmarked")
    /\ UNCHANGED <<rows, config, sent, dcases, dleft, dnow, driven, grade>>

\* Rows a former delivery left go (all without a scenario_id), then the cases
\* are replayed; their rows are committed with the next commit.
DriveReset ==
    /\ dpc = "reset"
    /\ LET new == [dsnap EXCEPT !.total = Cardinality(Cases)]
       IN row' = Flush(dsnap, new) /\ dsnap' = new
    /\ caseRow' = NoCases
    /\ scenRow' = [s \in Scenarios |-> IF s \in exists THEN scenRow[s] ELSE "none"]
    /\ dcases' \in [Cases -> Replayed]
    /\ dpc' = "list"
    /\ UNCHANGED <<config, sent, faultVars, dleft, dnow, driven, grade>>

\* mutant: every enabled scenario is driven, again if need be.
ToDrive_All == enabled

\* The scenarios without a GateCase on this run.
ToDrive == {s \in enabled : ~HasRow(s)}

\* Which scenarios to drive: none, none for want of an endpoint (-1), or
\* those an earlier delivery has not driven.
ListScenarios ==
    /\ dpc = "list"
    /\ dpc' = "drive"
    /\ \/ enabled = {} /\ driven' = 0 /\ dleft' = {}
       \/ enabled # {} /\ ~endpoint /\ driven' = -1 /\ dleft' = {}
       \/ enabled # {} /\ endpoint /\ driven' = Cardinality(enabled) /\ dleft' = ToDrive
    /\ UNCHANGED <<rows, config, sent, faultVars, dsnap, dcases, dnow, grade>>

\* run_scenario: the conversation goes over the wire.
Send(s) ==
    /\ dpc = "drive"
    /\ s \in dleft
    /\ sent' = [sent EXCEPT ![s] = @ + 1]
    /\ dleft' = dleft \ {s}
    /\ dnow' = {s}
    /\ dpc' = "sent"
    /\ UNCHANGED <<rows, config, faultVars, dsnap, dcases, driven, grade>>

\* Its GateCase is committed, PENDING.
RecordScenario ==
    /\ dpc = "sent"
    /\ dnow \subseteq exists
    /\ \E k \in Driven :
          scenRow' = [s \in Scenarios |-> IF s \in dnow THEN k ELSE scenRow[s]]
    /\ caseRow' = dcases
    /\ dnow' = {}
    /\ dpc' = "drive"
    /\ UNCHANGED <<row, config, sent, faultVars, dsnap, dcases, dleft, driven, grade>>

\* The phase-1 counters and warnings, left for the grader; the run stays RUNNING.
\* (The code commits one warning, of a stateless suite, with a conversation.)
DriveFinish ==
    /\ dpc = "drive"
    /\ dleft = {}
    /\ \E soft \in SUBSET {"soft"} :
          row' = Flush(dsnap, [dsnap EXCEPT
              !.total = Cardinality(Cases) + IF driven < 0 THEN 0 ELSE driven,
              !.passed = Count(dcases, "PASS"),
              !.failed = Count(dcases, "FAIL"),
              !.skipped = Count(dcases, "SKIP"),
              !.warnings = @ \cup soft \cup IF driven < 0 THEN {"no_endpoint"} ELSE {}])
    /\ caseRow' = dcases
    /\ DriveEnd("schedule")
    /\ UNCHANGED <<scenRow, config, sent, faultVars, grade>>

\* mutant: a broker blip leaves the row as it is.
EnqueueFailed_Unmarked == row

\* What the row becomes when the grader cannot be queued.
EnqueueFailed == Marked

FreeSlot == CHOOSE g \in Graders : gpc[g] = "free"

\* grade_scenario_gate_task.apply_async, with a countdown.  If that fails, so
\* may the mark.
ScheduleGrade ==
    /\ dpc = "schedule"
    /\ \/ /\ \E g \in Graders : gpc[g] = "free"
          /\ gpc' = [gpc EXCEPT ![FreeSlot] = "queued"]
          /\ dpc' = "ack"
          /\ UNCHANGED row /\ NoFault
       \/ /\ \/ Strike("broker_down") /\ row' = EnqueueFailed
             \/ Strike("unmarked") /\ UNCHANGED row
          /\ dpc' = "done"
          /\ UNCHANGED gpc
    /\ UNCHANGED <<caseRow, scenRow, config, sent, dsnap, dcases, dleft, dnow, driven,
                   gsnap, gout, gswept>>

\* The task returns and is acknowledged.
DriveAck ==
    /\ dpc = "ack"
    /\ dpc' = "done"
    /\ UNCHANGED <<rows, config, sent, faultVars, dsnap, dcases, dleft, dnow, driven, grade>>

\* A store fails, or the driven scenario has been deleted and its GateCase
\* has no parent: rolled back, and the run is marked ERROR, unless the outage
\* lasts and the mark cannot be written either.
DriveRaises ==
    /\ \/ dpc \in {"reset", "list", "drive", "sent"} /\ Strike("raise") /\ row' = Marked
       \/ dpc = "sent" /\ ~(dnow \subseteq exists) /\ NoFault /\ row' = Marked
       \/ dpc \in {"reset", "list", "drive", "sent"} /\ Strike("unmarked") /\ UNCHANGED row
    /\ DriveEnd("done")
    /\ UNCHANGED <<caseRow, scenRow, config, sent, grade>>

\* The worker dies and the broker redelivers, even after the grader was
\* queued; or the hard time limit kills the task, which acknowledges it.
DriveDies ==
    /\ \/ dpc \in {"reset", "list", "drive", "sent", "schedule"}
          /\ DriveEnd("queued") /\ Strike("crash")
       \/ dpc = "ack" /\ DriveEnd("queued") /\ Strike("late_crash")
       \/ dpc \in {"reset", "list", "drive", "sent", "schedule"}
          /\ DriveEnd("done") /\ Strike("killed")
    /\ UNCHANGED <<rows, config, sent, grade>>

-----------------------------------------------------------------------------
(* grade_scenario_gate_task                                                *)

Goto(g, l) == gpc' = [gpc EXCEPT ![g] = l]

\* mutant: rows whose scenario is gone are not swept.
Swept_None == {}

\* PENDING rows whose scenario was deleted while the gate ran.
Swept == {s \in Scenarios \ exists : scenRow[s] \in Driven}

\* The session loads the row and its cases.
GradeLoad(g) ==
    /\ gpc[g] = "queued"
    /\ IF Over
       THEN Goto(g, "free") /\ UNCHANGED <<gsnap, gout, gswept>>
       ELSE /\ Goto(g, "grade")
            /\ gsnap' = [gsnap EXCEPT ![g] = row]
            /\ gout' = [gout EXCEPT ![g] = [s \in {x \in exists : HasRow(x)} |-> scenRow[s]]]
            /\ gswept' = [gswept EXCEPT ![g] = Swept]
    /\ UNCHANGED <<rows, config, sent, faultVars, drive>>

\* _grade_conversations: what a conversation's verdict can be.
Possible(k) ==
    CASE k = "empty" -> {"SKIP"}
      [] k = "error" -> {"FAIL"}
      [] OTHER -> {"PASS", "FAIL", "UNGRADED"}

\* What the row becomes, given the conversations' verdicts.
Graded(g, v) ==
    LET old == gsnap[g]
        missing == DOMAIN v = {} /\ enabled # {} /\ ~endpoint
        warnings == old.warnings \cup IF missing THEN {"no_endpoint"} ELSE {}
        cases == old.total - Cardinality(DOMAIN v) - Cardinality(gswept[g])
        caseStatus == FinalStatus(old.passed, old.failed, old.skipped, cases, warnings)
        scenStatus == IF missing THEN "NO_COVERAGE" ELSE GateVerdict(v)
    IN [old EXCEPT
          !.status = Worst(caseStatus, scenStatus),
          !.finished = TRUE,
          !.passed = @ + Count(v, "PASS"),
          !.failed = @ + Count(v, "FAIL") + Count(v, "UNGRADED"),
          !.skipped = @ + Count(v, "SKIP") + Cardinality(gswept[g]),
          !.warnings = warnings]

\* The grade task is over, or will start anew.
Leave(g, l) ==
    /\ Goto(g, l)
    /\ gsnap' = [gsnap EXCEPT ![g] = Unmade]
    /\ gout' = [gout EXCEPT ![g] = <<>>]
    /\ gswept' = [gswept EXCEPT ![g] = {}]

\* The rows the grader loaded that are still there.
Present(g) == \A s \in DOMAIN gout[g] \cup gswept[g] : HasRow(s)

\* grade_scenarios ends: verdicts, counters and status in one commit.
Finalize(g) ==
    /\ gpc[g] = "grade"
    /\ Present(g)
    /\ \E v \in [DOMAIN gout[g] -> Verdicts] :
          /\ \A s \in DOMAIN v : v[s] \in Possible(gout[g][s])
          /\ row' = Flush(gsnap[g], Graded(g, v))
          /\ scenRow' = [s \in Scenarios |->
                CASE s \in DOMAIN v -> v[s]
                  [] s \in gswept[g] -> "SKIP"
                  [] OTHER -> scenRow[s]]
    /\ Leave(g, "free")
    /\ UNCHANGED <<caseRow, config, sent, faultVars, drive>>

\* A store fails, or a row to update is gone: as DriveRaises.
GradeRaises(g) ==
    /\ gpc[g] = "grade"
    /\ \/ Strike("raise") /\ row' = Marked
       \/ ~Present(g) /\ NoFault /\ row' = Marked
       \/ Strike("unmarked") /\ UNCHANGED row
    /\ Leave(g, "free")
    /\ UNCHANGED <<caseRow, scenRow, config, sent, drive>>

\* As DriveDies.
GradeDies(g) ==
    /\ gpc[g] = "grade"
    /\ \/ Leave(g, "queued") /\ Strike("crash")
       \/ Leave(g, "free") /\ Strike("killed")
    /\ UNCHANGED <<rows, config, sent, drive>>

-----------------------------------------------------------------------------
DriveStep ==
    \/ RunGateEnds \/ Delay \/ DriveLoad \/ DriveReset \/ ListScenarios
    \/ \E s \in Scenarios : Send(s)
    \/ RecordScenario \/ DriveFinish \/ ScheduleGrade \/ DriveAck
    \/ DriveRaises

GradeStep(g) == GradeLoad(g) \/ Finalize(g) \/ GradeRaises(g)

Next ==
    \/ RunGate \/ CreateRun \/ Edit
    \/ DriveStep \/ DriveDies
    \/ \E g \in Graders : GradeStep(g) \/ GradeDies(g)

Spec == Init /\ [][Next]_vars

\* A request that committed the row goes on, the broker delivers queued tasks
\* and a worker goes on with what it has started.
Fairness == WF_vars(DriveStep) /\ \A g \in Graders : WF_vars(GradeStep(g))

FairSpec == Spec /\ Fairness

-----------------------------------------------------------------------------
(* Properties                                                              *)

Statuses == {"none", "RUNNING", "PASS", "FAIL", "NO_COVERAGE", "ERROR"}

GateRows ==
    [status : Statuses, finished : BOOLEAN, total : Nat, passed : Nat, failed : Nat,
     skipped : Nat, warnings : SUBSET {"soft", "no_endpoint"}]

TypeOK ==
    /\ row \in GateRows
    /\ caseRow \in [Cases -> {"none"} \cup Replayed]
    /\ scenRow \in [Scenarios -> {"none"} \cup Driven \cup Verdicts]
    /\ exists \subseteq Scenarios /\ enabled \subseteq exists
    /\ endpoint \in BOOLEAN /\ edits \in 0 .. MaxEdits
    /\ sent \in [Scenarios -> Nat]
    /\ struck \subseteq Faults /\ faults \in 0 .. MaxFaults
    /\ dpc \in {"none", "inline", "delay", "queued", "reset", "list", "drive", "sent",
                "schedule", "ack", "done"}
    /\ dsnap \in GateRows
    /\ dcases \in [Cases -> {"none"} \cup Replayed]
    /\ dleft \subseteq Scenarios /\ dnow \subseteq Scenarios
    /\ driven \in -1 .. Cardinality(Scenarios)
    /\ gpc \in [Graders -> {"free", "queued", "grade"}]
    /\ gsnap \in [Graders -> GateRows]
    /\ \A g \in Graders :
          /\ DOMAIN gout[g] \subseteq Scenarios
          /\ \A s \in DOMAIN gout[g] : gout[g][s] \in Driven
    /\ gswept \in [Graders -> SUBSET Scenarios]

Struck(kinds) == struck \cap kinds # {}

\* No task works on a row it has loaded.
NobodyAtWork ==
    /\ dpc \in {"none", "delay", "queued", "done"}
    /\ \A g \in Graders : gpc[g] # "grade"

Settled == row.finished /\ NobodyAtWork

\* Once the run is final and nobody is at work on it, it stays so: no drive or
\* grade delivered later takes it up again, changes its verdict, its counters
\* or its cases, or sends anything.
SettledStaysSettled ==
    [][Settled => Settled' /\ UNCHANGED <<row, caseRow, sent>>]_vars

\* tasks.py, "must not be silently re-sent", as far as it goes: a redelivered
\* drive sends only what no earlier one has recorded, so each crash makes one
\* conversation at most go over the wire again.
SentOncePerCrash ==
    SumFunction(sent)
        <= Cardinality({s \in Scenarios : sent[s] > 0})
             + IF Struck({"crash"}) THEN faults ELSE 0

\* The run's rows.
ScenariosWith(k) == {s \in Scenarios : scenRow[s] \in k}
CasesWith(k) == {c \in Cases : caseRow[c] \in k}

\* Two drives cannot overlap a grader, nor find another suite than before.
Undisturbed == ~Struck({"late_crash"}) /\ ~(Struck({"crash"}) /\ edits > 0)

\* The counters of a finished run are those of its rows, deleted scenarios
\* included, and add up to its total.
CountsAddUp ==
    row.finished /\ row.status # "ERROR" /\ Undisturbed =>
        /\ row.total = row.passed + row.failed + row.skipped
        /\ row.passed = Cardinality(ScenariosWith({"PASS"})) + Cardinality(CasesWith({"PASS"}))
        /\ row.failed = Cardinality(ScenariosWith({"FAIL", "UNGRADED"}))
                          + Cardinality(CasesWith({"FAIL"}))

\* A green run has no failing case, has exercised a case if it has any, and
\* the conversations it graded meet the pass rate.
GreenIsEarned ==
    row.status = "PASS" /\ Undisturbed =>
        /\ CasesWith({"FAIL"}) = {}
        /\ Cases # {} => CasesWith({"PASS"}) # {}
        /\ ScenariosWith(Driven) = {}
        /\ Cardinality(ScenariosWith({"PASS"})) * RateDen
             >= RateNum * Cardinality(ScenariosWith({"PASS", "FAIL", "UNGRADED"}))

\* gate_service.py: phase 2 checks the endpoint again, "otherwise an
\* unrunnable suite finishes green": no run is green that found no endpoint
\* and drove none of the scenarios switched on.
UnrunnableIsNeverGreen ==
    row.status = "PASS" /\ "no_endpoint" \in row.warnings /\ enabled # {} =>
        ScenariosWith(Driven \cup Verdicts) # {}

\* A run CI polls ends, unless the request died under way, a task of it was
\* killed for good at the hard time limit, or a task failed while Postgres did
\* not answer, so that nothing could mark the run.
EveryRunEnds ==
    row.status = "RUNNING" ~> row.finished \/ Struck({"request", "killed", "unmarked"})
=============================================================================
