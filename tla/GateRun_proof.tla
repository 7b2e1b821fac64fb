----------------------------- MODULE GateRun_proof -----------------------------
(***************************************************************************)
(* Theorems about GateRun, for every suite of cases and scenarios, every   *)
(* number of grade tasks and every mix of faults and edits.                *)
(***************************************************************************)
EXTENDS GateRun, FiniteSetTheorems, SumTheorems, TLAPS

-----------------------------------------------------------------------------
(* Types                                                                   *)

\* A grader's outcomes are a function of the graders.
GoutFun == gout = [g \in Graders |-> gout[g]]

TypeInv == TypeOK /\ GoutFun

\* A run not finished has no graded conversation, a grader works on a run that
\* was not finished when it loaded it, and before the run is made there is no
\* task.
UnsettledInv ==
    /\ ~row.finished => \A s \in Scenarios : scenRow[s] \in {"none"} \cup Driven
    /\ \A g \in Graders : gpc[g] = "grade" => ~gsnap[g].finished
    /\ row.status = "none" => /\ ~row.finished /\ dpc = "none"
                              /\ \A g \in Graders : gpc[g] = "free"

\* The statuses the code writes when it settles a run.
Settling == {"PASS", "FAIL", "NO_COVERAGE"}

\* How many of a finite function's values are a verdict is a number.
LEMMA CountType ==
    ASSUME NEW v, IsFiniteSet(DOMAIN v), NEW verdict
    PROVE  Count(v, verdict) \in Nat
  <1>1. {x \in DOMAIN v : v[x] = verdict} \subseteq DOMAIN v
    OBVIOUS
  <1> QED
    BY <1>1, FS_Subset, FS_CardinalityType DEF Count

\* The worst of two statuses is one of them.
LEMMA WorstType ==
    ASSUME NEW a \in Settling, NEW b \in Settling
    PROVE  Worst(a, b) \in Settling
  BY DEF Worst

\* The verdict of the regression half is a settling status.
LEMMA FinalStatusType ==
    ASSUME NEW passed \in Nat, NEW failed \in Nat, NEW skipped \in Nat,
           NEW total \in Int, NEW warnings
    PROVE  FinalStatus(passed, failed, skipped, total, warnings) \in Settling
  BY DEF FinalStatus, Settling

\* So is that of the scenarios' half.
LEMMA GateVerdictType ==
    ASSUME NEW v
    PROVE  GateVerdict(v) \in Settling
  <1> DEFINE ran == Cardinality({s \in DOMAIN v : v[s] # "SKIP"})
  <1> QED
    BY DEF GateVerdict, Settling

\* An UPDATE of some columns leaves a row.
LEMMA FlushType ==
    ASSUME row \in GateRows, NEW known \in GateRows, NEW new \in GateRows
    PROVE  Flush(known, new) \in GateRows
  BY DEF Flush, GateRows

\* A row that is marked is a row.
LEMMA MarkedType ==
    ASSUME row \in GateRows
    PROVE  Marked \in GateRows
  BY DEF Marked, GateRows, Statuses

\* Rows before the run is made.
LEMMA UnmadeType == Unmade \in GateRows /\ NewRow \in GateRows
  BY DEF Unmade, NewRow, GateRows, Statuses

\* Every subset of the suite is finite.
LEMMA Finite ==
    /\ IsFiniteSet(Cases) /\ Cardinality(Cases) \in Nat
    /\ IsFiniteSet(Scenarios) /\ Cardinality(Scenarios) \in Nat
    /\ \A S \in SUBSET Scenarios :
          /\ IsFiniteSet(S) /\ Cardinality(S) \in Nat
          /\ Cardinality(S) <= Cardinality(Scenarios)
  BY ConstantsAssumption, FS_Subset, FS_CardinalityType

\* The strikes' record, after a strike or none.
LEMMA StrikeType ==
    ASSUME TypeOK, NEW kind, Strike(kind) \/ NoFault
    PROVE  struck' \subseteq Faults /\ faults' \in 0 .. MaxFaults
  BY ConstantsAssumption DEF TypeOK, Strike, NoFault, faultVars

\* A drive that ends or starts over has no local state.
LEMMA DriveEndType ==
    ASSUME TypeInv, NEW l \in {"queued", "schedule", "done"}, DriveEnd(l),
           UNCHANGED <<config, sent, grade>>, row' \in GateRows,
           caseRow' \in [Cases -> {"none"} \cup Replayed],
           scenRow' \in [Scenarios -> {"none"} \cup Driven \cup Verdicts],
           struck' \subseteq Faults, faults' \in 0 .. MaxFaults
    PROVE  TypeInv'
  <1>1. 0 \in -1 .. Cardinality(Scenarios)
    BY Finite
  <1> QED
    BY <1>1, UnmadeType DEF TypeInv, GoutFun, TypeOK, DriveEnd, NoCases, config, grade

\* Before any request there is nothing.
LEMMA InitType == Init => TypeInv
  <1> SUFFICES ASSUME Init PROVE TypeInv
    OBVIOUS
  <1>1. driven \in -1 .. Cardinality(Scenarios)
    BY Finite DEF Init
  <1>2. edits \in 0 .. MaxEdits /\ faults \in 0 .. MaxFaults
    BY ConstantsAssumption DEF Init
  <1> QED
    BY <1>1, <1>2, UnmadeType DEF Init, TypeInv, GoutFun, TypeOK, NoCases

\* A grade task that ends or starts over has no local state.
LEMMA LeaveType ==
    ASSUME TypeInv, NEW g \in Graders, NEW l \in {"free", "queued"}, Leave(g, l),
           UNCHANGED <<config, sent, drive>>, row' \in GateRows,
           caseRow' = caseRow,
           scenRow' \in [Scenarios -> {"none"} \cup Driven \cup Verdicts],
           struck' \subseteq Faults, faults' \in 0 .. MaxFaults
    PROVE  TypeInv'
  <1>1. /\ gpc' \in [Graders -> {"free", "queued", "grade"}]
        /\ gsnap' \in [Graders -> GateRows]
        /\ gswept' \in [Graders -> SUBSET Scenarios]
    BY UnmadeType DEF TypeInv, TypeOK, Leave, Goto
  <1>2. /\ gout' = [h \in Graders |-> gout'[h]]
        /\ \A h \in Graders : gout'[h] = IF h = g THEN <<>> ELSE gout[h]
    BY DEF TypeInv, GoutFun, Leave
  <1>3. \A h \in Graders :
          /\ DOMAIN gout'[h] \subseteq Scenarios
          /\ \A s \in DOMAIN gout'[h] : gout'[h][s] \in Driven
    <2>1. DOMAIN <<>> = {}
      OBVIOUS
    <2> QED
      BY <1>2, <2>1 DEF TypeInv, TypeOK
  <1> QED
    BY <1>1, <1>2, <1>3 DEF TypeInv, GoutFun, TypeOK, config, drive

\* A row with other columns is a row.
LEMMA RowExcept ==
    ASSUME NEW r \in GateRows, NEW st \in Statuses, NEW p \in Nat, NEW f \in Nat, NEW s \in Nat,
           NEW w \in SUBSET {"soft", "no_endpoint"}
    PROVE  [r EXCEPT !.status = st, !.finished = TRUE, !.passed = p, !.failed = f,
                     !.skipped = s, !.warnings = w] \in GateRows
  BY DEF GateRows

\* The counters and verdict a grader writes are those of a row.
LEMMA GradedType ==
    ASSUME TypeInv, NEW g \in Graders, NEW v \in [DOMAIN gout[g] -> Verdicts]
    PROVE  Graded(g, v) \in GateRows /\ Graded(g, v).status \in Settling
  <1> DEFINE old == gsnap[g]
             missing == DOMAIN v = {} /\ enabled # {} /\ ~endpoint
             warnings == old.warnings \cup IF missing THEN {"no_endpoint"} ELSE {}
             cases == old.total - Cardinality(DOMAIN v) - Cardinality(gswept[g])
             caseStatus == FinalStatus(old.passed, old.failed, old.skipped, cases, warnings)
             scenStatus == IF missing THEN "NO_COVERAGE" ELSE GateVerdict(v)
  <1>1. old \in GateRows
    BY DEF TypeInv, TypeOK
  <1>2. DOMAIN v \in SUBSET Scenarios /\ gswept[g] \in SUBSET Scenarios
    BY DEF TypeInv, TypeOK
  <1>3. IsFiniteSet(DOMAIN v) /\ Cardinality(DOMAIN v) \in Nat /\ Cardinality(gswept[g]) \in Nat
    BY <1>2, Finite
  <1>4. Count(v, "PASS") \in Nat /\ Count(v, "FAIL") \in Nat
        /\ Count(v, "UNGRADED") \in Nat /\ Count(v, "SKIP") \in Nat
    BY <1>3, CountType
  <1>5. /\ old.passed \in Nat /\ old.failed \in Nat /\ old.skipped \in Nat /\ old.total \in Nat
        /\ old.warnings \in SUBSET {"soft", "no_endpoint"}
    BY <1>1 DEF GateRows
  <1>6. cases \in Int
    BY <1>3, <1>5
  <1>7. caseStatus \in Settling
    BY <1>5, <1>6, FinalStatusType
  <1>8. scenStatus \in Settling
    BY GateVerdictType DEF Settling
  <1>9. Worst(caseStatus, scenStatus) \in Settling
    BY <1>7, <1>8, WorstType
  <1>10. warnings \in SUBSET {"soft", "no_endpoint"}
    BY <1>5
  <1> DEFINE st == Worst(caseStatus, scenStatus)
             p == old.passed + Count(v, "PASS")
             f == old.failed + Count(v, "FAIL") + Count(v, "UNGRADED")
             sk == old.skipped + Count(v, "SKIP") + Cardinality(gswept[g])
  <1>11. Graded(g, v) = [old EXCEPT !.status = st, !.finished = TRUE, !.passed = p,
                                    !.failed = f, !.skipped = sk, !.warnings = warnings]
    BY DEF Graded
  <1>12. p \in Nat /\ f \in Nat /\ sk \in Nat
    BY <1>3, <1>4, <1>5
  <1>13. st \in Statuses /\ st \in Settling
    BY <1>9 DEF Statuses, Settling
  <1> HIDE DEF old, warnings, caseStatus, scenStatus, cases, missing, st, p, f, sk
  <1>14. Graded(g, v) \in GateRows
    <2>1. [old EXCEPT !.status = st, !.finished = TRUE, !.passed = p,
                      !.failed = f, !.skipped = sk, !.warnings = warnings] \in GateRows
      BY <1>1, <1>10, <1>12, <1>13, RowExcept
    <2> QED
      BY <1>11, <2>1
  <1>15. Graded(g, v).status = st
    BY <1>1, <1>11 DEF GateRows
  <1> QED
    BY <1>13, <1>14, <1>15

\* The counters the drive leaves are those of a row.
LEMMA CountersType ==
    ASSUME NEW r \in GateRows, NEW t \in Nat, NEW p \in Nat, NEW f \in Nat, NEW s \in Nat,
           NEW w \in SUBSET {"soft", "no_endpoint"}
    PROVE  [r EXCEPT !.total = t, !.passed = p, !.failed = f, !.skipped = s,
                     !.warnings = w] \in GateRows
  BY DEF GateRows

\* Every step keeps the types.
LEMMA StepType == TypeInv /\ UnsettledInv /\ [Next]_vars => TypeInv'
  <1> SUFFICES ASSUME TypeInv, UnsettledInv, [Next]_vars PROVE TypeInv'
    OBVIOUS
  <1> USE ConstantsAssumption
  <1>0. CASE UNCHANGED vars
    BY <1>0 DEF TypeInv, GoutFun, TypeOK, vars, rows, config, faultVars, drive, grade
  <1>1. CASE RunGate
    <2>1. row' \in GateRows
      BY <1>1, Finite, UnmadeType DEF RunGate, GateRows
    <2> QED
      BY <1>1, <2>1 DEF RunGate, TypeInv, GoutFun, TypeOK, config, faultVars, grade
  <1>2. CASE CreateRun
    BY <1>2, UnmadeType DEF CreateRun, TypeInv, GoutFun, TypeOK, config, faultVars, grade
  <1>3. CASE Edit
    <2>1. /\ exists' \subseteq Scenarios /\ enabled' \subseteq exists'
          /\ endpoint' \in BOOLEAN /\ edits' \in 0 .. MaxEdits
      <3>1. edits' \in 0 .. MaxEdits
        BY <1>3 DEF Edit, TypeInv, TypeOK
      <3>2. ASSUME NEW s \in Scenarios, Toggle(s)
            PROVE  /\ exists' \subseteq Scenarios /\ enabled' \subseteq exists'
                   /\ endpoint' \in BOOLEAN
        BY <3>2 DEF Toggle, TypeInv, TypeOK
      <3>3. ASSUME NEW s \in Scenarios, Delete(s)
            PROVE  /\ exists' \subseteq Scenarios /\ enabled' \subseteq exists'
                   /\ endpoint' \in BOOLEAN
        BY <3>3 DEF Delete, TypeInv, TypeOK
      <3>4. CASE SetEndpoint
        BY <3>1, <3>4 DEF SetEndpoint, TypeInv, TypeOK
      <3> QED
        <4>1. (\E s \in Scenarios : Toggle(s) \/ Delete(s)) \/ SetEndpoint
          BY <1>3 DEF Edit
        <4> QED
          BY <3>1, <3>2, <3>3, <3>4, <4>1
    <2> QED
      BY <1>3, <2>1 DEF Edit, TypeInv, GoutFun, TypeOK, rows, faultVars, drive, grade
  <1>4. CASE RunGateEnds
    <2>1. struck' \subseteq Faults /\ faults' \in 0 .. MaxFaults
      BY <1>4, StrikeType DEF RunGateEnds, TypeInv
    <2>2. row' \in GateRows /\ caseRow' \in [Cases -> {"none"} \cup Replayed]
      <3>1. CASE Strike("request") /\ UNCHANGED <<row, caseRow>>
        BY <3>1 DEF TypeInv, TypeOK
      <3>2. ASSUME NEW v \in [Cases -> Replayed], NEW soft \in SUBSET {"soft"},
                   NEW st \in Settling, caseRow' = v,
                   row' = [row EXCEPT
                      !.finished = TRUE, !.warnings = soft,
                      !.passed = Count(v, "PASS"), !.failed = Count(v, "FAIL"),
                      !.skipped = Count(v, "SKIP"), !.status = st]
            PROVE  row' \in GateRows /\ caseRow' \in [Cases -> {"none"} \cup Replayed]
        <4>1. /\ Count(v, "PASS") \in Nat /\ Count(v, "FAIL") \in Nat
              /\ Count(v, "SKIP") \in Nat
          BY CountType, Finite
        <4>2. row' \in GateRows
          BY <3>2, <4>1 DEF TypeInv, TypeOK, GateRows, Statuses, Settling
        <4> QED
          BY <3>2, <4>2
      <3>3. \A v \in [Cases -> Replayed] :
               FinalStatus(Count(v, "PASS"), Count(v, "FAIL"), Count(v, "SKIP"),
                           Cardinality(Cases), {}) \in Settling
        BY CountType, FinalStatusType, Finite
      <3> QED
        BY <1>4, <3>1, <3>2, <3>3 DEF RunGateEnds, Settling
    <2> QED
      BY <1>4, <2>1, <2>2 DEF RunGateEnds, TypeInv, GoutFun, TypeOK, config, grade
  <1>5. CASE Delay
    <2>1. struck' \subseteq Faults /\ faults' \in 0 .. MaxFaults
      BY <1>5, StrikeType DEF Delay, TypeInv
    <2> QED
      BY <1>5, <2>1 DEF Delay, TypeInv, GoutFun, TypeOK, rows, config, grade
  <1>6. CASE DriveLoad
    <2>1. struck' \subseteq Faults /\ faults' \in 0 .. MaxFaults
      BY <1>6, StrikeType DEF DriveLoad, TypeInv, TypeOK, NoFault, faultVars
    <2> QED
      BY <1>6, <2>1 DEF DriveLoad, TypeInv, GoutFun, TypeOK, rows, config, grade
  <1>7. CASE DriveReset
    <2> DEFINE new == [dsnap EXCEPT !.total = Cardinality(Cases)]
    <2>1. new \in GateRows
      BY Finite DEF TypeInv, TypeOK, GateRows
    <2>2. row' \in GateRows /\ dsnap' \in GateRows
      BY <1>7, <2>1, FlushType DEF DriveReset, TypeInv, TypeOK
    <2>3. dcases' \in [Cases -> {"none"} \cup Replayed]
      BY <1>7 DEF DriveReset
    <2> QED
      BY <1>7, <2>2, <2>3
      DEF DriveReset, NoCases, TypeInv, GoutFun, TypeOK, config, faultVars, grade
  <1>8. CASE ListScenarios
    <2>1. ToDrive \subseteq Scenarios /\ enabled \in SUBSET Scenarios
      BY DEF ToDrive, TypeInv, TypeOK
    <2>2. driven' \in -1 .. Cardinality(Scenarios) /\ dleft' \subseteq Scenarios
      BY <1>8, <2>1, Finite DEF ListScenarios
    <2> QED
      BY <1>8, <2>2 DEF ListScenarios, TypeInv, GoutFun, TypeOK, rows, config, faultVars, grade
  <1>9. ASSUME NEW s \in Scenarios, Send(s) PROVE TypeInv'
    BY <1>9 DEF Send, TypeInv, GoutFun, TypeOK, rows, config, faultVars, grade
  <1>10. CASE RecordScenario
    BY <1>10 DEF RecordScenario, TypeInv, GoutFun, TypeOK, config, faultVars, grade
  <1>11. CASE DriveFinish
    <2>1. PICK soft \in SUBSET {"soft"} :
          row' = Flush(dsnap, [dsnap EXCEPT
              !.total = Cardinality(Cases) + IF driven < 0 THEN 0 ELSE driven,
              !.passed = Count(dcases, "PASS"),
              !.failed = Count(dcases, "FAIL"),
              !.skipped = Count(dcases, "SKIP"),
              !.warnings = dsnap.warnings \cup soft
                             \cup IF driven < 0 THEN {"no_endpoint"} ELSE {}])
      BY <1>11 DEF DriveFinish
    <2> DEFINE t == Cardinality(Cases) + IF driven < 0 THEN 0 ELSE driven
               w == dsnap.warnings \cup soft \cup IF driven < 0 THEN {"no_endpoint"} ELSE {}
    <2>2. dsnap \in GateRows /\ dsnap.warnings \in SUBSET {"soft", "no_endpoint"}
      BY DEF TypeInv, TypeOK, GateRows
    <2>3. t \in Nat /\ w \in SUBSET {"soft", "no_endpoint"}
      <3>1. driven \in Int /\ Cardinality(Cases) \in Nat
        BY Finite DEF TypeInv, TypeOK
      <3>2. t \in Nat
        BY <3>1
      <3>3. w \in SUBSET {"soft", "no_endpoint"}
        BY <2>2
      <3> QED
        BY <3>2, <3>3
    <2>4. Count(dcases, "PASS") \in Nat /\ Count(dcases, "FAIL") \in Nat
          /\ Count(dcases, "SKIP") \in Nat
      BY CountType, Finite DEF TypeInv, TypeOK
    <2> HIDE DEF t, w
    <2>5. [dsnap EXCEPT !.total = t, !.passed = Count(dcases, "PASS"),
                        !.failed = Count(dcases, "FAIL"), !.skipped = Count(dcases, "SKIP"),
                        !.warnings = w] \in GateRows
      BY <2>2, <2>3, <2>4, CountersType
    <2>6. row' \in GateRows
      BY <2>1, <2>2, <2>5, FlushType DEF t, w, TypeInv, TypeOK
    <2>7. DriveEnd("schedule") /\ UNCHANGED <<scenRow, config, sent, faultVars, grade>>
          /\ caseRow' = dcases
      BY <1>11 DEF DriveFinish
    <2> QED
      BY <2>6, <2>7, DriveEndType DEF TypeInv, TypeOK, faultVars
  <1>12. CASE ScheduleGrade
    <2>1. struck' \subseteq Faults /\ faults' \in 0 .. MaxFaults
      BY <1>12, StrikeType DEF ScheduleGrade, TypeInv
    <2>2. row' \in GateRows /\ gpc' \in [Graders -> {"free", "queued", "grade"}]
      BY <1>12, MarkedType DEF ScheduleGrade, EnqueueFailed, TypeInv, TypeOK
    <2> QED
      BY <1>12, <2>1, <2>2 DEF ScheduleGrade, TypeInv, GoutFun, TypeOK, config
  <1>13. CASE DriveAck
    BY <1>13 DEF DriveAck, TypeInv, GoutFun, TypeOK, rows, config, faultVars, grade
  <1>14. CASE DriveRaises
    <2>1. struck' \subseteq Faults /\ faults' \in 0 .. MaxFaults
      BY <1>14, StrikeType DEF DriveRaises, TypeInv
    <2>2. row' \in GateRows
      BY <1>14, MarkedType DEF DriveRaises, TypeInv, TypeOK
    <2> QED
      BY <1>14, <2>1, <2>2, DriveEndType DEF DriveRaises, TypeInv, TypeOK
  <1>15. CASE DriveDies
    <2>1. struck' \subseteq Faults /\ faults' \in 0 .. MaxFaults
      BY <1>15, StrikeType DEF DriveDies, TypeInv
    <2>2. PICK l \in {"queued", "schedule", "done"} : DriveEnd(l)
      BY <1>15 DEF DriveDies
    <2> QED
      BY <1>15, <2>1, <2>2, DriveEndType DEF DriveDies, TypeInv, TypeOK, rows
  <1>16. ASSUME NEW g \in Graders, GradeLoad(g) PROVE TypeInv'
    <2>1. CASE Over
      BY <1>16, <2>1 DEF GradeLoad, Goto, TypeInv, GoutFun, TypeOK, rows, config, faultVars, drive
    <2>2. CASE ~Over
      <3>1. /\ gpc' = [gpc EXCEPT ![g] = "grade"]
            /\ gsnap' = [gsnap EXCEPT ![g] = row]
            /\ gout' = [gout EXCEPT ![g] = [s \in {x \in exists : HasRow(x)} |-> scenRow[s]]]
            /\ gswept' = [gswept EXCEPT ![g] = Swept]
        BY <1>16, <2>2 DEF GradeLoad, Goto
      <3>2. Swept \in SUBSET Scenarios
        BY DEF Swept
      <3>3. /\ gpc' \in [Graders -> {"free", "queued", "grade"}]
            /\ gsnap' \in [Graders -> GateRows]
            /\ gswept' \in [Graders -> SUBSET Scenarios]
        BY <3>1, <3>2 DEF TypeInv, TypeOK
      <3>4. /\ gout' = [h \in Graders |-> gout'[h]]
            /\ \A h \in Graders : gout'[h] =
                  IF h = g THEN [s \in {x \in exists : HasRow(x)} |-> scenRow[s]] ELSE gout[h]
        BY <3>1 DEF TypeInv, GoutFun
      <3>5. \A s \in {x \in exists : HasRow(x)} : s \in Scenarios /\ scenRow[s] \in Driven
        BY <2>2 DEF Over, HasRow, UnsettledInv, TypeInv, TypeOK
      <3>6. ASSUME NEW h \in Graders
            PROVE  /\ DOMAIN gout'[h] \subseteq Scenarios
                   /\ \A s \in DOMAIN gout'[h] : gout'[h][s] \in Driven
        <4>1. CASE h = g
          BY <3>4, <3>5, <4>1
        <4>2. CASE h # g
          BY <3>4, <4>2 DEF TypeInv, TypeOK
        <4> QED
          BY <4>1, <4>2
      <3> QED
        BY <1>16, <3>3, <3>4, <3>6
           DEF GradeLoad, TypeInv, GoutFun, TypeOK, rows, config, faultVars, drive
    <2> QED
      BY <2>1, <2>2
  <1>17. ASSUME NEW g \in Graders, Finalize(g) PROVE TypeInv'
    <2>1. PICK v \in [DOMAIN gout[g] -> Verdicts] :
            /\ row' = Flush(gsnap[g], Graded(g, v))
            /\ scenRow' = [s \in Scenarios |->
                  CASE s \in DOMAIN v -> v[s]
                    [] s \in gswept[g] -> "SKIP"
                    [] OTHER -> scenRow[s]]
      BY <1>17 DEF Finalize
    <2>2. row' \in GateRows
      BY <2>1, GradedType, FlushType DEF TypeInv, TypeOK
    <2>3. scenRow' \in [Scenarios -> {"none"} \cup Driven \cup Verdicts]
      BY <2>1 DEF TypeInv, TypeOK, Verdicts
    <2>4. UNCHANGED <<caseRow, config, sent, faultVars, drive>> /\ Leave(g, "free")
      BY <1>17 DEF Finalize
    <2> QED
      BY <2>2, <2>3, <2>4, LeaveType DEF TypeInv, TypeOK, faultVars
  <1>18. ASSUME NEW g \in Graders, GradeRaises(g) PROVE TypeInv'
    <2>1. struck' \subseteq Faults /\ faults' \in 0 .. MaxFaults
      BY <1>18, StrikeType DEF GradeRaises, TypeInv
    <2>2. row' \in GateRows
      BY <1>18, MarkedType DEF GradeRaises, TypeInv, TypeOK
    <2> QED
      BY <1>18, <2>1, <2>2, LeaveType DEF GradeRaises, TypeInv, TypeOK
  <1>19. ASSUME NEW g \in Graders, GradeDies(g) PROVE TypeInv'
    <2>1. struck' \subseteq Faults /\ faults' \in 0 .. MaxFaults
      BY <1>19, StrikeType DEF GradeDies, TypeInv
    <2>2. PICK l \in {"free", "queued"} : Leave(g, l)
      BY <1>19 DEF GradeDies
    <2> QED
      BY <1>19, <2>1, <2>2, LeaveType DEF GradeDies, TypeInv, TypeOK, rows
  <1> QED
    BY <1>0, <1>1, <1>2, <1>3, <1>4, <1>5, <1>6, <1>7, <1>8, <1>9, <1>10, <1>11, <1>12,
       <1>13, <1>14, <1>15, <1>16, <1>17, <1>18, <1>19 DEF Next, DriveStep, GradeStep

\* Before any request nothing is settled.
LEMMA InitUnsettled == Init => UnsettledInv
  BY DEF Init, UnsettledInv, Unmade, NewRow

\* An UPDATE of a run that was not finished when it was loaded finishes it if
\* it says so, and otherwise leaves it as finished or not as it is.
LEMMA FlushFinished ==
    ASSUME row \in GateRows, NEW known \in GateRows, NEW new \in GateRows
    PROVE  /\ new.finished = known.finished => Flush(known, new).finished = row.finished
           /\ new.status = known.status => Flush(known, new).status = row.status
           /\ ~known.finished /\ new.finished => Flush(known, new).finished
           /\ row.status # "none" /\ new.status # "none" => Flush(known, new).status # "none"
  BY DEF Flush, GateRows

\* A run that is marked is finished.
LEMMA MarkedFinished ==
    ASSUME row \in GateRows
    PROVE  Marked.finished /\ (row.status # "none" => Marked.status # "none")
  BY DEF Marked, GateRows

\* Every step leaves what it should of an unsettled run.
LEMMA StepUnsettled == TypeInv /\ UnsettledInv /\ [Next]_vars => UnsettledInv'
  <1> SUFFICES ASSUME TypeInv, UnsettledInv, [Next]_vars PROVE UnsettledInv'
    OBVIOUS
  <1>0. CASE UNCHANGED vars
    BY <1>0 DEF UnsettledInv, vars, rows, drive, grade
  <1>1. CASE RunGate
    BY <1>1 DEF RunGate, UnsettledInv, NewRow, grade
  <1>2. CASE CreateRun
    BY <1>2 DEF CreateRun, UnsettledInv, NewRow, grade
  <1>3. CASE Edit
    BY <1>3 DEF Edit, UnsettledInv, rows, drive, grade
  <1>4. CASE RunGateEnds
    <2>1. row.status # "none"
      BY <1>4 DEF RunGateEnds, UnsettledInv
    <2>2. CASE Strike("request") /\ UNCHANGED <<row, caseRow>>
      BY <1>4, <2>1, <2>2 DEF RunGateEnds, UnsettledInv, grade
    <2>3. CASE row'.finished /\ row'.status # "none"
      BY <1>4, <2>3 DEF RunGateEnds, UnsettledInv, grade
    <2>4. \A v \in [Cases -> Replayed] :
             FinalStatus(Count(v, "PASS"), Count(v, "FAIL"), Count(v, "SKIP"),
                         Cardinality(Cases), {}) \in Settling
      BY CountType, FinalStatusType, Finite
    <2> QED
      BY <1>4, <2>2, <2>3, <2>4 DEF RunGateEnds, Settling, TypeInv, TypeOK, GateRows
  <1>5. CASE Delay
    BY <1>5 DEF Delay, UnsettledInv, rows, grade
  <1>6. CASE DriveLoad
    BY <1>6 DEF DriveLoad, UnsettledInv, rows, grade
  <1>7. CASE DriveReset
    <2> DEFINE new == [dsnap EXCEPT !.total = Cardinality(Cases)]
    <2>1. new \in GateRows /\ new.finished = dsnap.finished /\ new.status = dsnap.status
      BY Finite DEF TypeInv, TypeOK, GateRows
    <2>2. row'.finished = row.finished /\ row'.status = row.status
      BY <1>7, <2>1, FlushFinished DEF DriveReset, TypeInv, TypeOK
    <2> QED
      BY <1>7, <2>2 DEF DriveReset, UnsettledInv, grade
  <1>8. CASE ListScenarios
    BY <1>8 DEF ListScenarios, UnsettledInv, rows, grade
  <1>9. ASSUME NEW s \in Scenarios, Send(s) PROVE UnsettledInv'
    BY <1>9 DEF Send, UnsettledInv, rows, grade
  <1>10. CASE RecordScenario
    BY <1>10 DEF RecordScenario, UnsettledInv, grade
  <1>11. CASE DriveFinish
    <2>1. row'.finished = row.finished /\ row'.status = row.status
      BY <1>11 DEF DriveFinish, Flush, TypeInv, TypeOK, GateRows
    <2>2. row.status # "none"
      BY <1>11 DEF DriveFinish, UnsettledInv
    <2> QED
      BY <1>11, <2>1, <2>2 DEF DriveFinish, UnsettledInv, grade
  <1>12. CASE ScheduleGrade
    <2>1. row.status # "none"
      BY <1>12 DEF ScheduleGrade, UnsettledInv
    <2>2. /\ row' = row \/ row' = Marked
          /\ \A g \in Graders : gpc'[g] = "grade" => gpc[g] = "grade"
          /\ UNCHANGED <<scenRow, gsnap>>
      BY <1>12 DEF ScheduleGrade, EnqueueFailed, TypeInv, TypeOK
    <2>3. row'.status # "none" /\ (row'.finished \/ row' = row)
      BY <2>1, <2>2, MarkedFinished DEF TypeInv, TypeOK
    <2> QED
      BY <2>2, <2>3 DEF UnsettledInv
  <1>13. CASE DriveAck
    BY <1>13 DEF DriveAck, UnsettledInv, rows, grade
  <1>14. CASE DriveRaises
    <2>1. row.status # "none"
      BY <1>14 DEF DriveRaises, UnsettledInv
    <2>2. row'.status # "none" /\ (row'.finished \/ row' = row)
      BY <1>14, <2>1, MarkedFinished DEF DriveRaises, TypeInv, TypeOK
    <2> QED
      BY <1>14, <2>2 DEF DriveRaises, UnsettledInv, grade
  <1>15. CASE DriveDies
    BY <1>15 DEF DriveDies, UnsettledInv, rows, grade
  <1>16. ASSUME NEW g \in Graders, GradeLoad(g) PROVE UnsettledInv'
    BY <1>16 DEF GradeLoad, Goto, Over, UnsettledInv, TypeInv, TypeOK, rows, drive
  <1>17. ASSUME NEW g \in Graders, Finalize(g) PROVE UnsettledInv'
    <2>1. PICK v \in [DOMAIN gout[g] -> Verdicts] : row' = Flush(gsnap[g], Graded(g, v))
      BY <1>17 DEF Finalize
    <2>2. /\ gsnap[g] \in GateRows /\ ~gsnap[g].finished /\ row.status # "none"
          /\ Graded(g, v) \in GateRows /\ Graded(g, v).status \in Settling
      BY <1>17, GradedType DEF Finalize, UnsettledInv, TypeInv, TypeOK
    <2>3. Graded(g, v).finished
      BY <2>2 DEF Graded, GateRows
    <2>4. row'.finished /\ row'.status # "none"
      BY <2>1, <2>2, <2>3, FlushFinished DEF TypeInv, TypeOK, Settling
    <2>5. \A h \in Graders : gpc'[h] = "grade" => h # g /\ gpc[h] = "grade" /\ gsnap'[h] = gsnap[h]
      BY <1>17 DEF Finalize, Leave, Goto, TypeInv, TypeOK
    <2> QED
      BY <2>4, <2>5 DEF UnsettledInv
  <1>18. ASSUME NEW g \in Graders, GradeRaises(g) PROVE UnsettledInv'
    <2>1. row.status # "none"
      BY <1>18 DEF GradeRaises, UnsettledInv
    <2>2. row'.status # "none" /\ (row'.finished \/ row' = row)
      BY <1>18, <2>1, MarkedFinished DEF GradeRaises, TypeInv, TypeOK
    <2>3. \A h \in Graders : gpc'[h] = "grade" => gpc[h] = "grade" /\ gsnap'[h] = gsnap[h]
      BY <1>18 DEF GradeRaises, Leave, Goto, TypeInv, TypeOK
    <2>4. dpc' = dpc /\ dsnap' = dsnap /\ scenRow' = scenRow
      BY <1>18 DEF GradeRaises, drive
    <2> QED
      BY <2>2, <2>3, <2>4 DEF UnsettledInv
  <1>19. ASSUME NEW g \in Graders, GradeDies(g) PROVE UnsettledInv'
    <2>1. row.status # "none" /\ UNCHANGED <<rows, drive>>
      BY <1>19 DEF GradeDies, UnsettledInv
    <2>2. \A h \in Graders : gpc'[h] = "grade" => gpc[h] = "grade" /\ gsnap'[h] = gsnap[h]
      BY <1>19 DEF GradeDies, Leave, Goto, TypeInv, TypeOK
    <2> QED
      BY <2>1, <2>2 DEF UnsettledInv, rows
  <1> QED
    BY <1>0, <1>1, <1>2, <1>3, <1>4, <1>5, <1>6, <1>7, <1>8, <1>9, <1>10, <1>11, <1>12,
       <1>13, <1>14, <1>15, <1>16, <1>17, <1>18, <1>19 DEF Next, DriveStep, GradeStep

IInv == TypeInv /\ UnsettledInv

\* Types, and what an unsettled run has, are inductive together.
THEOREM Invariance == Spec => []IInv
  <1>1. Init => IInv
    BY InitType, InitUnsettled DEF IInv
  <1>2. IInv /\ [Next]_vars => IInv'
    BY StepType, StepUnsettled DEF IInv
  <1> QED
    BY <1>1, <1>2, PTL DEF Spec

\* gate_service.py, gate.py: the row, its cases and the tasks' locals stay
\* what the code's columns and annotations say.
THEOREM TypeCorrect == Spec => []TypeOK
  <1>1. IInv => TypeOK
    BY DEF IInv, TypeInv
  <1> QED
    BY <1>1, Invariance, PTL

-----------------------------------------------------------------------------
(* A settled run                                                           *)

\* No step disturbs a settled run: whoever is delivered finds it finished.
LEMMA StepSettled ==
    ASSUME IInv, Settled, [Next]_vars
    PROVE  Settled' /\ UNCHANGED <<row, caseRow, sent>>
  <1> USE DEF Settled, NobodyAtWork
  <1>0. CASE UNCHANGED vars
    BY <1>0 DEF vars, rows, drive, grade
  <1>1. row.status # "none"
    BY DEF IInv, UnsettledInv
  <1>2. CASE Edit
    BY <1>2 DEF Edit, rows, drive, grade
  <1>3. CASE Delay
    BY <1>3 DEF Delay, rows, grade
  <1>4. CASE DriveLoad
    BY <1>4 DEF DriveLoad, Over, rows, grade
  <1>5. ASSUME NEW g \in Graders, GradeLoad(g)
        PROVE  Settled' /\ UNCHANGED <<row, caseRow, sent>>
    BY <1>5 DEF GradeLoad, Over, Goto, IInv, TypeInv, TypeOK, rows, drive
  <1>6. ~RunGate /\ ~CreateRun
    BY <1>1 DEF RunGate, CreateRun
  <1>7. /\ ~RunGateEnds /\ ~DriveReset /\ ~ListScenarios /\ ~RecordScenario /\ ~DriveFinish
        /\ ~ScheduleGrade /\ ~DriveAck /\ ~DriveRaises /\ ~DriveDies
        /\ \A s \in Scenarios : ~Send(s)
    BY DEF RunGateEnds, DriveReset, ListScenarios, RecordScenario, DriveFinish, ScheduleGrade,
           DriveAck, DriveRaises, DriveDies, Send
  <1>8. \A g \in Graders : ~Finalize(g) /\ ~GradeRaises(g) /\ ~GradeDies(g)
    BY DEF Finalize, GradeRaises, GradeDies
  <1> QED
    BY <1>0, <1>2, <1>3, <1>4, <1>5, <1>6, <1>7, <1>8 DEF Next, DriveStep, GradeStep

\* tasks.py, "a run that already finalized must not be driven again",
\* gate_service.py, "grading again would ... add the scenario counts to the
\* totals a second time": however often the tasks are delivered, they do not.
THEOREM SettledForGood == Spec => SettledStaysSettled
  <1>1. IInv /\ [Next]_vars => [Settled => Settled' /\ UNCHANGED <<row, caseRow, sent>>]_vars
    BY StepSettled
  <1> QED
    BY <1>1, Invariance, PTL DEF Spec, SettledStaysSettled

-----------------------------------------------------------------------------
(* A verdict and its counters                                              *)

\* The scenarios with a GateCase row, and those a drive at work will have given one.
WithRow == {s \in Scenarios : HasRow(s)}
Listed == WithRow \cup dleft \cup dnow

\* The grade task is not queued yet.
Ungraded ==
    dpc \in {"none", "inline", "delay", "queued", "reset", "list", "drive", "sent", "schedule"}

\* A run is worked on by its drive, then by one grader, then it is finished.
OneTask ==
    /\ Ungraded => ~row.finished /\ \A g \in Graders : gpc[g] = "free"
    /\ \A g \in Graders : gpc[g] # "free" => ~row.finished
    /\ \A g, h \in Graders : gpc[g] # "free" /\ gpc[h] # "free" => g = h
    /\ ~row.finished => row.status \in {"none", "RUNNING"}

\* Without edits every row is of a scenario that can be driven.
SuiteKept ==
    edits = 0 =>
        /\ exists = Scenarios
        /\ Listed \subseteq enabled
        /\ Listed # {} => endpoint

\* Only a redelivered drive finds rows.
RowsBefore ==
    /\ dpc \notin {"drive", "sent"} => dleft = {} /\ dnow = {}
    /\ dpc = "drive" => dnow = {}
    /\ dpc \in {"none", "inline", "delay"} => WithRow = {}
    /\ dpc \in {"queued", "reset", "list"} => WithRow = {} \/ Struck({"crash"})

\* What _drive_scenarios will return counts the rows there will be.
Listing ==
    dpc \in {"drive", "sent"} =>
        IF driven < 0 THEN Listed = {} ELSE driven = Cardinality(Listed)

\* The drive's session knows the row as it is, and has replayed every case.
InSession ==
    /\ dpc \in {"reset", "list", "drive", "sent"} => dsnap = row
    /\ dpc \in {"list", "drive", "sent"} => dcases \in [Cases -> Replayed]
    /\ dpc = "inline" => row.total = Cardinality(Cases)

\* What the drive leaves for the grader.
Tallied ==
    dpc = "schedule" \/ (\E g \in Graders : gpc[g] # "free") =>
        /\ caseRow \in [Cases -> Replayed]
        /\ row.passed = Count(caseRow, "PASS")
        /\ row.failed = Count(caseRow, "FAIL")
        /\ row.skipped = Count(caseRow, "SKIP")
        /\ row.total = Cardinality(Cases) + Cardinality(WithRow)

\* A grader's session knows the row as it is, and every scenario's row.
Loaded ==
    \A g \in Graders : gpc[g] = "grade" =>
        /\ gsnap[g] = row
        /\ DOMAIN gout[g] \cup gswept[g] = WithRow
        /\ DOMAIN gout[g] \cap gswept[g] = {}

OneAtATime ==
    /\ OneTask /\ SuiteKept /\ RowsBefore /\ Listing /\ InSession
    /\ Tallied /\ Loaded
    /\ CountsAddUp /\ GreenIsEarned

\* While no two tasks overlap and no redelivered drive finds another suite,
\* each of them holds.
Calm == Undisturbed => OneAtATime

\* Once disturbed, a run stays so.
LEMMA DisturbedStays ==
    ASSUME IInv, [Next]_vars
    PROVE  /\ Undisturbed' => Undisturbed
           /\ Struck({"crash"}) => Struck({"crash"})'
           /\ edits' = 0 => edits = 0
  <1>1. struck \subseteq struck'
    <2> USE DEF Strike, NoFault, faultVars
    <2>1. CASE UNCHANGED vars
      BY <2>1 DEF vars
    <2>2. CASE RunGate \/ CreateRun \/ Edit
      BY <2>2 DEF RunGate, CreateRun, Edit
    <2>3. CASE DriveStep
      BY <2>3 DEF DriveStep, RunGateEnds, Delay, DriveLoad, DriveReset, ListScenarios, Send,
         RecordScenario, DriveFinish, ScheduleGrade, DriveAck, DriveRaises
    <2>4. CASE DriveDies
      BY <2>4 DEF DriveDies
    <2>5. ASSUME NEW g \in Graders, GradeStep(g) \/ GradeDies(g)
          PROVE  struck \subseteq struck'
      BY <2>5 DEF GradeStep, GradeLoad, Finalize, GradeRaises, GradeDies
    <2> QED
      BY <2>1, <2>2, <2>3, <2>4, <2>5 DEF Next
  <1>2. edits' = edits \/ edits' = edits + 1
    <2> USE DEF config
    <2>1. CASE UNCHANGED vars
      BY <2>1 DEF vars
    <2>2. CASE RunGate \/ CreateRun \/ Edit
      BY <2>2 DEF RunGate, CreateRun, Edit
    <2>3. CASE DriveStep
      BY <2>3 DEF DriveStep, RunGateEnds, Delay, DriveLoad, DriveReset, ListScenarios, Send,
         RecordScenario, DriveFinish, ScheduleGrade, DriveAck, DriveRaises
    <2>4. CASE DriveDies
      BY <2>4 DEF DriveDies
    <2>5. ASSUME NEW g \in Graders, GradeStep(g) \/ GradeDies(g)
          PROVE  edits' = edits
      BY <2>5 DEF GradeStep, GradeLoad, Finalize, GradeRaises, GradeDies
    <2> QED
      BY <2>1, <2>2, <2>3, <2>4, <2>5 DEF Next
  <1>3. edits \in Nat
    BY DEF IInv, TypeInv, TypeOK
  <1>4. (edits > 0 => edits' > 0) /\ (edits' = 0 => edits = 0)
    BY <1>2, <1>3
  <1>5. \A kinds : Struck(kinds) => Struck(kinds)'
    BY <1>1 DEF Struck
  <1> QED
    BY <1>1, <1>4 DEF Undisturbed, Struck

\* A step that leaves the rows, or a run that is not finished or is in error,
\* leaves a verdict as good as it was.
LEMMA VerdictKept ==
    ASSUME CountsAddUp, GreenIsEarned, Undisturbed,
           \/ UNCHANGED rows
           \/ ~row'.finished /\ row'.status # "PASS"
           \/ row'.status = "ERROR"
    PROVE  CountsAddUp' /\ GreenIsEarned'
  <1>1. CASE UNCHANGED rows
    BY <1>1 DEF rows, CountsAddUp, GreenIsEarned, ScenariosWith, CasesWith
  <1>2. CASE ~row'.finished /\ row'.status # "PASS"
    BY <1>2 DEF CountsAddUp, GreenIsEarned
  <1>3. CASE row'.status = "ERROR"
    BY <1>3 DEF CountsAddUp, GreenIsEarned
  <1> QED
    BY <1>1, <1>2, <1>3

\* Nothing is on the run before it is made.
LEMMA InitCalm == Init => Calm
  <1> SUFFICES ASSUME Init PROVE OneAtATime
    BY DEF Calm
  <1>1. WithRow = {} /\ Listed = {}
    BY DEF Init, WithRow, Listed, HasRow
  <1>2. ~row.finished /\ row.status = "none" /\ dpc = "none"
        /\ \A g \in Graders : gpc[g] = "free"
    BY DEF Init, Unmade, NewRow
  <1>3. OneTask /\ SuiteKept /\ RowsBefore /\ Listing
    BY <1>1, <1>2 DEF Init, OneTask, SuiteKept, RowsBefore, Listing
  <1>4. InSession /\ Tallied /\ Loaded
    BY <1>1, <1>2 DEF InSession, Tallied, Loaded
  <1> QED
    BY <1>2, <1>3, <1>4 DEF OneAtATime, CountsAddUp, GreenIsEarned

\* A drive that has not begun, or has ended without a grader, and a grader that
\* is not at work, hold nothing of the rows.
LEMMA RowsUntouched ==
    ASSUME UNCHANGED <<scenRow, dleft, dnow>>
    PROVE  WithRow' = WithRow /\ Listed' = Listed
  BY DEF WithRow, Listed, HasRow

\* A user's edit leaves the run alone.
LEMMA EditCalm ==
    ASSUME IInv, OneAtATime, Edit, Undisturbed, Undisturbed'
    PROVE  OneAtATime'
  <1>1. UNCHANGED <<rows, sent, faultVars, drive, grade>> /\ edits' = edits + 1
    BY DEF Edit
  <1>2. edits' # 0
    BY <1>1 DEF IInv, TypeInv, TypeOK
  <1>3. WithRow' = WithRow /\ Listed' = Listed
    BY <1>1, RowsUntouched DEF rows, drive
  <1>4. CountsAddUp' /\ GreenIsEarned'
    BY <1>1, VerdictKept DEF OneAtATime
  <1>5. OneTask' /\ RowsBefore' /\ InSession' /\ Tallied' /\ Loaded'
    BY <1>1, <1>3 DEF OneAtATime, OneTask, Ungraded, RowsBefore, InSession, Tallied, Loaded,
       Struck, rows, drive, grade, faultVars, Count
  <1>6. SuiteKept' /\ Listing'
    BY <1>1, <1>2, <1>3 DEF OneAtATime, SuiteKept, Listing, drive
  <1> QED
    BY <1>4, <1>5, <1>6 DEF OneAtATime

\* The requests make the row and queue the drive, before anything is on it.
LEMMA RequestCalm ==
    ASSUME IInv, OneAtATime, RunGate \/ CreateRun \/ Delay, Undisturbed
    PROVE  OneAtATime'
  <1>1. UNCHANGED <<caseRow, scenRow, config, sent, dsnap, dcases, dleft, dnow, driven, grade>>
    BY DEF RunGate, CreateRun, Delay, rows
  <1>2. dpc \in {"none", "delay"}
    BY DEF RunGate, CreateRun, Delay, IInv, UnsettledInv
  <1>3. WithRow' = WithRow /\ Listed' = Listed /\ WithRow = {} /\ dleft = {} /\ dnow = {}
    BY <1>1, <1>2, RowsUntouched DEF OneAtATime, RowsBefore
  <1>4. /\ \A g \in Graders : gpc[g] = "free"
        /\ ~row.finished
    BY <1>2 DEF OneAtATime, OneTask, Ungraded
  <1>5. ~row'.finished /\ row'.status = "RUNNING" /\ (RunGate => row'.total = Cardinality(Cases))
    BY <1>4 DEF RunGate, CreateRun, Delay, NewRow, rows, IInv, UnsettledInv, OneAtATime, OneTask
  <1>6. dpc' \in {"inline", "delay", "queued", "done"} /\ (dpc' = "inline" => RunGate)
    BY DEF RunGate, CreateRun, Delay
  <1>7. CountsAddUp' /\ GreenIsEarned'
    BY <1>5, VerdictKept DEF OneAtATime
  <1>8. OneTask' /\ Tallied' /\ Loaded'
    BY <1>1, <1>4, <1>5, <1>6 DEF OneTask, Tallied, Loaded, grade
  <1>9. RowsBefore' /\ InSession' /\ Listing'
    BY <1>1, <1>3, <1>5, <1>6 DEF RowsBefore, InSession, Listing
  <1>10. SuiteKept'
    BY <1>1, <1>3 DEF OneAtATime, SuiteKept, config
  <1> QED
    BY <1>7, <1>8, <1>9, <1>10 DEF OneAtATime

\* A drive that ends before it has queued the grader, or starts over, leaves
\* nothing but rows.
LEMMA DriveEndCalm ==
    ASSUME IInv, OneAtATime, Undisturbed, Undisturbed',
           dpc \in {"reset", "list", "drive", "sent", "schedule"},
           DriveRaises \/ DriveDies
    PROVE  OneAtATime'
  <1>1. PICK l \in {"queued", "done"} : DriveEnd(l) /\ (l = "queued" => Struck({"crash"})')
    BY DEF DriveRaises, DriveDies, Strike, Struck
  <1>2. UNCHANGED <<caseRow, scenRow, config, sent, grade>>
    BY DEF DriveRaises, DriveDies, rows
  <1>3. /\ \A g \in Graders : gpc[g] = "free"
        /\ ~row.finished /\ row.status \in {"none", "RUNNING"}
    BY DEF OneAtATime, OneTask, Ungraded
  <1>4. row' = row \/ (row'.finished /\ row'.status = "ERROR" /\ l = "done")
    <2>1. CASE DriveDies
      BY <2>1 DEF DriveDies, rows
    <2>2. CASE DriveRaises
      <3>1. Marked.finished /\ Marked.status = "ERROR"
        BY <1>3 DEF Marked, IInv, TypeInv, TypeOK, GateRows
      <3> QED
        BY <1>1, <2>2, <3>1 DEF DriveRaises, DriveEnd
    <2> QED
      BY <2>1, <2>2
  <1>5. dpc' = l /\ dleft' = {} /\ dnow' = {} /\ WithRow' = WithRow
    BY <1>1, <1>2 DEF DriveEnd, WithRow, HasRow
  <1>6. CountsAddUp' /\ GreenIsEarned'
    BY <1>2, <1>3, <1>4, VerdictKept DEF OneAtATime
  <1>7. OneTask' /\ Tallied' /\ Loaded'
    BY <1>2, <1>3, <1>4, <1>5 DEF OneTask, Ungraded, Tallied, Loaded, grade
  <1>8. RowsBefore' /\ InSession' /\ Listing'
    BY <1>1, <1>5 DEF RowsBefore, InSession, Listing
  <1>9. SuiteKept'
    BY <1>2, <1>5 DEF OneAtATime, SuiteKept, Listed, config
  <1> QED
    BY <1>6, <1>7, <1>8, <1>9 DEF OneAtATime

\* The session's UPDATE of a row it knows as it is writes what it says.
LEMMA FlushKnown ==
    ASSUME row \in GateRows, NEW new \in GateRows
    PROVE  Flush(row, new) = new
  BY DEF Flush, GateRows

\* The drive loads the row.
LEMMA DriveLoadCalm ==
    ASSUME IInv, OneAtATime, DriveLoad, Undisturbed
    PROVE  OneAtATime'
  <1>1. /\ dpc = "queued" /\ dpc' \in {"reset", "done"} /\ (dpc' = "reset" => dsnap' = row)
        /\ UNCHANGED <<rows, config, sent, dcases, dleft, dnow, driven, grade>>
        /\ struck' = struck \/ struck' = struck \cup {"unmarked"}
    BY DEF DriveLoad, NoFault, Strike, faultVars
  <1>2. WithRow' = WithRow /\ Listed' = Listed
    BY <1>1, RowsUntouched DEF rows
  <1>3. CountsAddUp' /\ GreenIsEarned'
    BY <1>1, VerdictKept DEF OneAtATime
  <1>4. OneTask' /\ Tallied' /\ Loaded'
    BY <1>1 DEF OneAtATime, OneTask, Ungraded, Tallied, Loaded, grade, rows
  <1>5. RowsBefore' /\ InSession' /\ Listing'
    BY <1>1, <1>2 DEF OneAtATime, RowsBefore, InSession, Listing, Struck, faultVars, rows
  <1>6. SuiteKept'
    BY <1>1, <1>2 DEF OneAtATime, SuiteKept, config
  <1> QED
    BY <1>3, <1>4, <1>5, <1>6 DEF OneAtATime

\* The drive replays the cases: without edits every row there is stays.
LEMMA DriveResetCalm ==
    ASSUME IInv, OneAtATime, DriveReset, Undisturbed
    PROVE  OneAtATime'
  <1> DEFINE new == [dsnap EXCEPT !.total = Cardinality(Cases)]
  <1>1. /\ dpc = "reset" /\ dpc' = "list" /\ dsnap' = new /\ row' = Flush(dsnap, new)
        /\ scenRow' = [s \in Scenarios |-> IF s \in exists THEN scenRow[s] ELSE "none"]
        /\ dcases' \in [Cases -> Replayed]
        /\ UNCHANGED <<config, sent, faultVars, dleft, dnow, driven, grade>>
    BY DEF DriveReset
  <1>2. dsnap = row /\ row \in GateRows
    BY <1>1 DEF OneAtATime, InSession, IInv, TypeInv, TypeOK
  <1>3. new \in GateRows /\ new.finished = row.finished /\ new.status = row.status
    BY <1>2, Finite DEF GateRows
  <1>4. row' = new
    BY <1>1, <1>2, <1>3, FlushKnown
  <1>5. WithRow = {} \/ exists = Scenarios
    <2>1. CASE WithRow = {}
      BY <2>1
    <2>2. CASE Struck({"crash"})
      <3>1. edits = 0
        BY <2>2 DEF Undisturbed, IInv, TypeInv, TypeOK
      <3> QED
        BY <3>1 DEF OneAtATime, SuiteKept
    <2> QED
      BY <1>1, <2>1, <2>2 DEF OneAtATime, RowsBefore
  <1>6. WithRow' = WithRow
    BY <1>1, <1>5 DEF WithRow, HasRow
  <1>7. Listed' = Listed
    BY <1>1, <1>6 DEF Listed
  <1> HIDE DEF new
  <1>8. ~row.finished /\ row.status \in {"none", "RUNNING"} /\ \A g \in Graders : gpc[g] = "free"
    BY <1>1 DEF OneAtATime, OneTask, Ungraded
  <1>9. ~row'.finished /\ row'.status \in {"none", "RUNNING"}
    BY <1>3, <1>4, <1>8
  <1>10. CountsAddUp' /\ GreenIsEarned'
    BY <1>9, VerdictKept DEF OneAtATime
  <1>11. OneTask' /\ Tallied' /\ Loaded'
    BY <1>1, <1>8, <1>9 DEF OneTask, Tallied, Loaded, grade
  <1>12. RowsBefore' /\ InSession' /\ Listing'
    BY <1>1, <1>4, <1>6 DEF OneAtATime, RowsBefore, InSession, Listing, Struck, faultVars
  <1>13. SuiteKept'
    BY <1>1, <1>7 DEF OneAtATime, SuiteKept, config
  <1> QED
    BY <1>10, <1>11, <1>12, <1>13 DEF OneAtATime

\* The drive lists what it will send: with what is recorded, the whole suite.
LEMMA ListScenariosCalm ==
    ASSUME IInv, OneAtATime, ListScenarios, Undisturbed
    PROVE  OneAtATime'
  <1>1. /\ dpc = "list" /\ dpc' = "drive"
        /\ UNCHANGED <<rows, config, sent, faultVars, dsnap, dcases, dnow, grade>>
    BY DEF ListScenarios
  <1>2. dleft = {} /\ dnow = {} /\ Listed = WithRow /\ WithRow' = WithRow
    BY <1>1 DEF OneAtATime, RowsBefore, Listed, WithRow, HasRow, rows
  <1>3. WithRow = {} \/ (WithRow \subseteq enabled /\ endpoint)
    <2>1. CASE Struck({"crash"})
      <3>1. edits = 0
        BY <2>1 DEF Undisturbed, IInv, TypeInv, TypeOK
      <3> QED
        BY <1>2, <3>1 DEF OneAtATime, SuiteKept
    <2> QED
      BY <1>1, <2>1 DEF OneAtATime, RowsBefore
  <1>4. Listed' = WithRow \cup dleft'
    BY <1>1, <1>2 DEF Listed
  <1>5. /\ IF driven' < 0 THEN Listed' = {} ELSE driven' = Cardinality(Listed')
        /\ Listed' \subseteq enabled
        /\ Listed' # {} => endpoint
    <2>1. CASE enabled = {} /\ driven' = 0 /\ dleft' = {}
      BY <1>3, <1>4, <2>1, FS_EmptySet
    <2>2. CASE enabled # {} /\ ~endpoint /\ driven' = -1 /\ dleft' = {}
      BY <1>3, <1>4, <2>2
    <2>3. CASE enabled # {} /\ endpoint /\ driven' = Cardinality(enabled) /\ dleft' = ToDrive
      <3>1. enabled \subseteq Scenarios
        BY DEF IInv, TypeInv, TypeOK
      <3>2. ToDrive = enabled \ WithRow
        BY <3>1 DEF ToDrive, WithRow
      <3>3. Listed' = enabled
        BY <1>3, <1>4, <2>3, <3>2
      <3>4. driven' \in Nat
        BY <2>3, <3>1, Finite
      <3> QED
        BY <2>3, <3>3, <3>4
    <2> QED
      BY <2>1, <2>2, <2>3 DEF ListScenarios
  <1>6. CountsAddUp' /\ GreenIsEarned'
    BY <1>1, VerdictKept DEF OneAtATime
  <1>7. OneTask' /\ Tallied' /\ Loaded'
    BY <1>1 DEF OneAtATime, OneTask, Ungraded, Tallied, Loaded, grade, rows
  <1>8. RowsBefore' /\ InSession'
    BY <1>1, <1>2 DEF OneAtATime, RowsBefore, InSession, rows
  <1>9. Listing' /\ SuiteKept'
    BY <1>1, <1>5 DEF OneAtATime, Listing, SuiteKept, config
  <1> QED
    BY <1>6, <1>7, <1>8, <1>9 DEF OneAtATime

\* A conversation goes out, or its row is recorded: the suite is as listed.
LEMMA SendCalm ==
    ASSUME IInv, OneAtATime, Undisturbed, (\E s \in Scenarios : Send(s)) \/ RecordScenario
    PROVE  OneAtATime'
  <1>1. /\ dpc \in {"drive", "sent"} /\ dpc' \in {"drive", "sent"}
        /\ UNCHANGED <<row, config, faultVars, dsnap, dcases, driven, grade>>
    BY DEF Send, RecordScenario, rows
  <1>2. Listed' = Listed /\ (dpc' = "drive" => dnow' = {})
    <2>1. ASSUME NEW s \in Scenarios, Send(s)
          PROVE  Listed' = Listed /\ (dpc' = "drive" => dnow' = {})
      <3>1. /\ dpc = "drive" /\ s \in dleft /\ dleft' = dleft \ {s} /\ dnow' = {s}
            /\ dpc' = "sent" /\ scenRow' = scenRow
        BY <2>1 DEF Send, rows
      <3>2. dnow = {} /\ WithRow' = WithRow
        BY <3>1 DEF OneAtATime, RowsBefore, WithRow, HasRow
      <3> QED
        BY <3>1, <3>2 DEF Listed
    <2>2. CASE RecordScenario
      <3>1. PICK k \in Driven :
               scenRow' = [s \in Scenarios |-> IF s \in dnow THEN k ELSE scenRow[s]]
        BY <2>2 DEF RecordScenario
      <3>2. k # "none" /\ dnow \subseteq Scenarios
        BY DEF Driven, IInv, TypeInv, TypeOK
      <3>3. WithRow' = WithRow \cup dnow
        BY <3>1, <3>2 DEF WithRow, HasRow
      <3>4. dnow' = {} /\ dleft' = dleft
        BY <2>2 DEF RecordScenario
      <3> QED
        BY <3>3, <3>4 DEF Listed
    <2> QED
      BY <2>1, <2>2
  <1>3. ~row.finished /\ row.status \in {"none", "RUNNING"} /\ \A g \in Graders : gpc[g] = "free"
    BY <1>1 DEF OneAtATime, OneTask, Ungraded
  <1>4. CountsAddUp' /\ GreenIsEarned'
    BY <1>1, <1>3, VerdictKept DEF OneAtATime
  <1>5. OneTask' /\ Tallied' /\ Loaded'
    BY <1>1, <1>3 DEF OneTask, Ungraded, Tallied, Loaded, grade
  <1>6. RowsBefore' /\ InSession'
    BY <1>1, <1>2 DEF OneAtATime, RowsBefore, InSession
  <1>7. Listing' /\ SuiteKept'
    BY <1>1, <1>2 DEF OneAtATime, Listing, SuiteKept, config
  <1> QED
    BY <1>4, <1>5, <1>6, <1>7 DEF OneAtATime

\* The drive leaves the counts of the cases, and the total of cases and rows.
LEMMA DriveFinishCalm ==
    ASSUME IInv, OneAtATime, DriveFinish, Undisturbed
    PROVE  OneAtATime'
  <1> DEFINE t == Cardinality(Cases) + IF driven < 0 THEN 0 ELSE driven
             w(soft) == dsnap.warnings \cup soft
                          \cup IF driven < 0 THEN {"no_endpoint"} ELSE {}
             new(soft) == [dsnap EXCEPT
                              !.total = t, !.passed = Count(dcases, "PASS"),
                              !.failed = Count(dcases, "FAIL"),
                              !.skipped = Count(dcases, "SKIP"), !.warnings = w(soft)]
  <1>1. PICK soft \in SUBSET {"soft"} : row' = Flush(dsnap, new(soft))
    BY DEF DriveFinish
  <1>2. /\ dpc = "drive" /\ dleft = {} /\ caseRow' = dcases /\ DriveEnd("schedule")
        /\ UNCHANGED <<scenRow, config, sent, faultVars, grade>>
    BY DEF DriveFinish
  <1>3. dsnap = row /\ row \in GateRows /\ dcases \in [Cases -> Replayed] /\ dnow = {}
    BY <1>2 DEF OneAtATime, InSession, RowsBefore, IInv, TypeInv, TypeOK
  <1>4. /\ Listed = WithRow /\ WithRow \in SUBSET Scenarios
        /\ WithRow' = WithRow /\ Listed' = WithRow
    BY <1>2, <1>3 DEF Listed, WithRow, HasRow, DriveEnd
  <1>5. t = Cardinality(Cases) + Cardinality(WithRow)
    BY <1>2, <1>4, FS_EmptySet DEF OneAtATime, Listing
  <1>6. t \in Nat
    BY <1>4, <1>5, Finite
  <1>7. /\ Count(dcases, "PASS") \in Nat /\ Count(dcases, "FAIL") \in Nat
        /\ Count(dcases, "SKIP") \in Nat
    BY <1>3, CountType, Finite
  <1>8. w(soft) \in SUBSET {"soft", "no_endpoint"}
    BY <1>3 DEF GateRows
  <1> DEFINE n == new(soft)
             ws == w(soft)
  <1>9. /\ n \in GateRows /\ n.total = t
        /\ n.passed = Count(dcases, "PASS") /\ n.failed = Count(dcases, "FAIL")
        /\ n.skipped = Count(dcases, "SKIP")
        /\ n.status = row.status /\ n.finished = row.finished
    <2>1. n = [row EXCEPT !.total = t, !.passed = Count(dcases, "PASS"),
                          !.failed = Count(dcases, "FAIL"),
                          !.skipped = Count(dcases, "SKIP"), !.warnings = ws]
      BY <1>3
    <2>2. ws \in SUBSET {"soft", "no_endpoint"}
      BY <1>8
    <2> HIDE DEF n, ws, t
    <2> QED
      BY <1>3, <1>6, <1>7, <2>1, <2>2 DEF GateRows
  <1> HIDE DEF t, w, new
  <1>10. row' = new(soft)
    BY <1>1, <1>3, <1>9, FlushKnown
  <1>11. ~row.finished /\ row.status \in {"none", "RUNNING"} /\ \A g \in Graders : gpc[g] = "free"
    BY <1>2 DEF OneAtATime, OneTask, Ungraded
  <1>12. ~row'.finished /\ row'.status \in {"none", "RUNNING"}
    BY <1>9, <1>10, <1>11
  <1>13. CountsAddUp' /\ GreenIsEarned'
    BY <1>12, VerdictKept DEF OneAtATime
  <1>14. OneTask' /\ Loaded'
    BY <1>2, <1>11, <1>12 DEF OneTask, Loaded, grade
  <1>15. Tallied'
    <2>1. /\ caseRow' \in [Cases -> Replayed]
          /\ row'.passed = Count(caseRow', "PASS") /\ row'.failed = Count(caseRow', "FAIL")
          /\ row'.skipped = Count(caseRow', "SKIP")
          /\ row'.total = Cardinality(Cases) + Cardinality(WithRow')
      BY <1>2, <1>3, <1>4, <1>5, <1>9, <1>10
    <2> QED
      BY <2>1 DEF Tallied, Count
  <1>16. RowsBefore' /\ InSession' /\ Listing'
    BY <1>2 DEF RowsBefore, InSession, Listing, DriveEnd
  <1>17. SuiteKept'
    BY <1>2, <1>4 DEF OneAtATime, SuiteKept, config
  <1> QED
    BY <1>13, <1>14, <1>15, <1>16, <1>17 DEF OneAtATime

\* A grader that is queued, loads, fails or starts over finds and leaves the
\* row and its cases as the drive did.
LEMMA ScheduleGradeCalm ==
    ASSUME IInv, OneAtATime, ScheduleGrade, Undisturbed
    PROVE  OneAtATime'
  <1>1. /\ dpc = "schedule"
        /\ UNCHANGED <<caseRow, scenRow, config, sent, dsnap, dcases, dleft, dnow, driven,
                       gsnap, gout, gswept>>
    BY DEF ScheduleGrade
  <1>2. WithRow' = WithRow /\ Listed' = Listed
    BY <1>1, RowsUntouched
  <1>3. ~row.finished /\ row.status \in {"none", "RUNNING"} /\ \A g \in Graders : gpc[g] = "free"
    BY <1>1 DEF OneAtATime, OneTask, Ungraded
  <1>4. /\ row' = row \/ (row'.finished /\ row'.status = "ERROR" /\ gpc' = gpc)
        /\ dpc' \in {"ack", "done"}
        /\ gpc' = gpc \/ (\E g \in Graders : gpc' = [gpc EXCEPT ![g] = "queued"])
    <2>1. Marked.finished /\ Marked.status = "ERROR"
      BY <1>3 DEF Marked, IInv, TypeInv, TypeOK, GateRows
    <2>2. (\E g \in Graders : gpc[g] = "free") => FreeSlot \in Graders
      BY DEF FreeSlot
    <2> HIDE DEF FreeSlot
    <2> QED
      BY <2>1, <2>2 DEF ScheduleGrade, EnqueueFailed
  <1>5. CountsAddUp' /\ GreenIsEarned'
    BY <1>1, <1>3, <1>4, VerdictKept DEF OneAtATime
  <1>6. gpc \in [Graders -> {"free", "queued", "grade"}]
    BY DEF IInv, TypeInv, TypeOK
  <1>7. \A g \in Graders : gpc'[g] # "grade"
    BY <1>3, <1>4, <1>6
  <1>8. OneTask'
    BY <1>3, <1>4, <1>6 DEF OneTask, Ungraded
  <1>9. Tallied'
    <2>1. CASE row' = row
      BY <1>1, <1>2, <2>1 DEF OneAtATime, Tallied, Count
    <2>2. CASE gpc' = gpc
      BY <1>3, <1>4, <2>2 DEF Tallied
    <2> QED
      BY <1>4, <2>1, <2>2
  <1>10. RowsBefore' /\ InSession' /\ Listing' /\ Loaded'
    BY <1>1, <1>2, <1>4, <1>7 DEF OneAtATime, RowsBefore, InSession, Listing, Loaded
  <1>11. SuiteKept'
    BY <1>1, <1>2 DEF OneAtATime, SuiteKept, config
  <1> QED
    BY <1>5, <1>8, <1>9, <1>10, <1>11 DEF OneAtATime

\* The drive is acknowledged, its grader queued or the run over.
LEMMA DriveAckCalm ==
    ASSUME IInv, OneAtATime, DriveAck, Undisturbed
    PROVE  OneAtATime'
  <1>1. /\ dpc = "ack" /\ dpc' = "done"
        /\ UNCHANGED <<rows, config, sent, faultVars, dsnap, dcases, dleft, dnow, driven, grade>>
    BY DEF DriveAck
  <1>2. WithRow' = WithRow /\ Listed' = Listed
    BY <1>1, RowsUntouched DEF rows
  <1>3. CountsAddUp' /\ GreenIsEarned'
    BY <1>1, VerdictKept DEF OneAtATime
  <1>4. OneTask' /\ Tallied' /\ Loaded'
    BY <1>1, <1>2 DEF OneAtATime, OneTask, Ungraded, Tallied, Loaded, Count, grade, rows
  <1>5. RowsBefore' /\ InSession' /\ Listing' /\ SuiteKept'
    BY <1>1, <1>2 DEF OneAtATime, RowsBefore, InSession, Listing, SuiteKept, config
  <1> QED
    BY <1>3, <1>4, <1>5 DEF OneAtATime

\* A step of the only grader there is, that leaves the suite and the drive be.
LEMMA GraderAlone ==
    ASSUME IInv, OneAtATime, NEW g \in Graders, gpc[g] # "free",
           NEW l \in {"free", "queued", "grade"}, gpc' = [gpc EXCEPT ![g] = l],
           UNCHANGED <<caseRow, config, drive>>,
           \/ UNCHANGED row
           \/ l = "free" /\ row'.finished,
           WithRow' = WithRow
    PROVE  /\ OneTask' /\ SuiteKept' /\ RowsBefore' /\ Listing' /\ InSession' /\ Tallied'
           /\ \A h \in Graders : h # g => gpc'[h] = "free"
  <1>1. gpc \in [Graders -> {"free", "queued", "grade"}]
    BY DEF IInv, TypeInv, TypeOK
  <1>2. \A h \in Graders : h # g => gpc[h] = "free" /\ gpc'[h] = "free"
    BY <1>1 DEF OneAtATime, OneTask
  <1>3. gpc'[g] = l
    BY <1>1
  <1>4. dpc \in {"ack", "done"} /\ ~row.finished
    BY DEF OneAtATime, OneTask, Ungraded, IInv, TypeInv, TypeOK
  <1>5. dpc' = dpc /\ UNCHANGED <<dleft, dnow>>
    BY DEF drive
  <1>6. Listed' = Listed
    BY <1>5 DEF Listed
  <1>7. OneTask'
    BY <1>2, <1>3, <1>4, <1>5 DEF OneAtATime, OneTask, Ungraded
  <1>8. RowsBefore' /\ Listing' /\ InSession'
    BY <1>4, <1>5 DEF OneAtATime, RowsBefore, Listing, InSession
  <1>9. SuiteKept'
    BY <1>6 DEF OneAtATime, SuiteKept, config
  <1>10. Tallied'
    <2>1. CASE row' = row
      BY <2>1 DEF OneAtATime, Tallied, Count
    <2>2. CASE l = "free"
      BY <1>2, <1>3, <1>4, <1>5, <2>2 DEF Tallied
    <2> QED
      BY <2>1, <2>2
  <1> QED
    BY <1>2, <1>7, <1>8, <1>9, <1>10

\* The grader loads every row of the suite, or fails, or starts over.
LEMMA GradeCalm ==
    ASSUME IInv, OneAtATime, NEW g \in Graders, Undisturbed,
           GradeLoad(g) \/ GradeRaises(g) \/ GradeDies(g)
    PROVE  OneAtATime'
  <1>1. gpc[g] # "free"
    BY DEF GradeLoad, GradeRaises, GradeDies
  <1>2. /\ ~row.finished /\ row.status \in {"none", "RUNNING"}
        /\ row \in GateRows /\ gpc \in [Graders -> {"free", "queued", "grade"}]
        /\ \A s \in Scenarios : scenRow[s] \in {"none"} \cup Driven
    BY <1>1 DEF OneAtATime, OneTask, IInv, TypeInv, TypeOK, UnsettledInv
  <1>3. UNCHANGED <<caseRow, scenRow, config, sent, drive>>
    BY DEF GradeLoad, GradeRaises, GradeDies, rows
  <1>4. WithRow' = WithRow
    BY <1>3 DEF WithRow, HasRow
  <1>5. CASE GradeLoad(g)
    <2>1. /\ gpc' = [gpc EXCEPT ![g] = "grade"] /\ row' = row
          /\ gsnap' = [gsnap EXCEPT ![g] = row]
          /\ gout' = [gout EXCEPT ![g] = [s \in {x \in exists : HasRow(x)} |-> scenRow[s]]]
          /\ gswept' = [gswept EXCEPT ![g] = Swept]
      BY <1>2, <1>5 DEF GradeLoad, Over, Goto, rows
    <2>2. gsnap \in [Graders -> GateRows] /\ GoutFun /\ gswept \in [Graders -> SUBSET Scenarios]
      BY DEF IInv, TypeInv, TypeOK
    <2>3. gsnap'[g] = row /\ DOMAIN gout'[g] = {x \in exists : HasRow(x)} /\ gswept'[g] = Swept
      BY <2>1, <2>2 DEF GoutFun
    <2>4. {x \in exists : HasRow(x)} \cup Swept = WithRow
          /\ {x \in exists : HasRow(x)} \cap Swept = {}
      BY <1>2 DEF Swept, WithRow, HasRow, Driven, IInv, TypeInv, TypeOK
    <2>5. /\ OneTask' /\ SuiteKept' /\ RowsBefore' /\ Listing' /\ InSession' /\ Tallied'
          /\ \A h \in Graders : h # g => gpc'[h] = "free"
      BY <1>1, <1>3, <1>4, <2>1, GraderAlone
    <2>6. Loaded'
      BY <1>4, <2>1, <2>3, <2>4, <2>5 DEF Loaded
    <2>7. CountsAddUp' /\ GreenIsEarned'
      BY <1>3, <2>1, VerdictKept DEF OneAtATime, rows
    <2> QED
      BY <2>5, <2>6, <2>7 DEF OneAtATime
  <1>6. CASE GradeRaises(g) \/ GradeDies(g)
    <2>1. PICK l \in {"free", "queued"} :
             /\ gpc' = [gpc EXCEPT ![g] = l]
             /\ row' = row \/ (l = "free" /\ row' = Marked)
      BY <1>6 DEF GradeRaises, GradeDies, Leave, Goto, rows
    <2>2. row' = row \/ (l = "free" /\ row'.finished /\ row'.status = "ERROR")
      BY <1>2, <2>1 DEF Marked, GateRows
    <2>3. /\ OneTask' /\ SuiteKept' /\ RowsBefore' /\ Listing' /\ InSession' /\ Tallied'
          /\ \A h \in Graders : h # g => gpc'[h] = "free"
      BY <1>1, <1>3, <1>4, <2>1, <2>2, GraderAlone
    <2>4. gpc'[g] = l
      BY <1>2, <2>1
    <2>5. Loaded'
      BY <2>3, <2>4 DEF Loaded
    <2>6. CountsAddUp' /\ GreenIsEarned'
      BY <1>3, <2>2, VerdictKept DEF OneAtATime, rows
    <2> QED
      BY <2>3, <2>5, <2>6 DEF OneAtATime
  <1> QED
    BY <1>5, <1>6

\* Two disjoint sets have as many elements as they have together.
LEMMA DisjointUnion ==
    ASSUME NEW S, NEW T, IsFiniteSet(S), IsFiniteSet(T), S \cap T = {}
    PROVE  IsFiniteSet(S \cup T) /\ Cardinality(S \cup T) = Cardinality(S) + Cardinality(T)
  <1>1. Cardinality(S) \in Nat /\ Cardinality(T) \in Nat
    BY FS_CardinalityType
  <1>2. /\ IsFiniteSet(S \cup T)
        /\ Cardinality(S \cup T) = Cardinality(S) + Cardinality(T) - Cardinality(S \cap T)
    BY FS_Union
  <1>3. Cardinality(S \cap T) = 0
    BY FS_EmptySet
  <1> QED
    BY <1>1, <1>2, <1>3

\* Every replayed case passes, fails or is skipped.
LEMMA CasesAddUp ==
    ASSUME NEW v \in [Cases -> Replayed]
    PROVE  Cardinality(Cases) = Count(v, "PASS") + Count(v, "FAIL") + Count(v, "SKIP")
  <1> DEFINE of(k) == {c \in DOMAIN v : v[c] = k}
  <1>1. Cases = (of("PASS") \cup of("FAIL")) \cup of("SKIP")
    BY DEF Replayed
  <1>2. IsFiniteSet(of("PASS")) /\ IsFiniteSet(of("FAIL")) /\ IsFiniteSet(of("SKIP"))
    BY Finite, FS_Subset
  <1>3. of("PASS") \cap of("FAIL") = {} /\ (of("PASS") \cup of("FAIL")) \cap of("SKIP") = {}
    OBVIOUS
  <1> HIDE DEF of
  <1>4. /\ IsFiniteSet(of("PASS") \cup of("FAIL"))
        /\ Cardinality(of("PASS") \cup of("FAIL"))
             = Cardinality(of("PASS")) + Cardinality(of("FAIL"))
    BY <1>2, <1>3, DisjointUnion
  <1>5. Cardinality(Cases) = Cardinality(of("PASS")) + Cardinality(of("FAIL"))
                               + Cardinality(of("SKIP"))
    BY <1>1, <1>2, <1>3, <1>4, DisjointUnion
  <1> QED
    BY <1>5 DEF Count, of

\* Every graded conversation passes, fails, is ungraded or is skipped; it ran
\* unless it is skipped.
LEMMA VerdictsAddUp ==
    ASSUME NEW v, IsFiniteSet(DOMAIN v), v \in [DOMAIN v -> Verdicts]
    PROVE  /\ Cardinality({s \in DOMAIN v : v[s] # "SKIP"})
                = Count(v, "PASS") + (Count(v, "FAIL") + Count(v, "UNGRADED"))
           /\ Cardinality({s \in DOMAIN v : v[s] \in {"FAIL", "UNGRADED"}})
                = Count(v, "FAIL") + Count(v, "UNGRADED")
           /\ Cardinality(DOMAIN v)
                = Count(v, "PASS") + Count(v, "FAIL") + Count(v, "UNGRADED") + Count(v, "SKIP")
  <1> DEFINE of(k) == {s \in DOMAIN v : v[s] = k}
             bad == of("FAIL") \cup of("UNGRADED")
             ran == of("PASS") \cup bad
  <1>1. \A k : IsFiniteSet(of(k)) /\ Cardinality(of(k)) \in Nat
    BY FS_Subset, FS_CardinalityType
  <1>2. /\ of("FAIL") \cap of("UNGRADED") = {} /\ of("PASS") \cap bad = {}
        /\ ran \cap of("SKIP") = {}
    OBVIOUS
  <1>3. \A s \in DOMAIN v : v[s] \in Verdicts
    OBVIOUS
  <1>4. /\ DOMAIN v = ran \cup of("SKIP")
        /\ {s \in DOMAIN v : v[s] # "SKIP"} = ran
        /\ {s \in DOMAIN v : v[s] \in {"FAIL", "UNGRADED"}} = bad
    BY <1>3 DEF Verdicts
  <1> HIDE DEF of
  <1>5. IsFiniteSet(bad) /\ Cardinality(bad) = Cardinality(of("FAIL")) + Cardinality(of("UNGRADED"))
    BY <1>1, <1>2, DisjointUnion
  <1> HIDE DEF bad
  <1>6. IsFiniteSet(ran) /\ Cardinality(ran) = Cardinality(of("PASS")) + Cardinality(bad)
    BY <1>1, <1>2, <1>5, DisjointUnion
  <1> HIDE DEF ran
  <1>7. Cardinality(DOMAIN v) = Cardinality(ran) + Cardinality(of("SKIP"))
    BY <1>1, <1>2, <1>4, <1>6, DisjointUnion
  <1>8. \A k : Count(v, k) = Cardinality(of(k))
    BY DEF Count, of
  <1>9. Cardinality(bad) = Count(v, "FAIL") + Count(v, "UNGRADED")
    BY <1>5, <1>8
  <1>10. Cardinality(ran) = Count(v, "PASS") + (Count(v, "FAIL") + Count(v, "UNGRADED"))
    BY <1>6, <1>8, <1>9
  <1>11. /\ Count(v, "PASS") \in Nat /\ Count(v, "FAIL") \in Nat
         /\ Count(v, "UNGRADED") \in Nat /\ Count(v, "SKIP") \in Nat
    BY <1>1, <1>8
  <1>12. Cardinality(DOMAIN v)
           = Count(v, "PASS") + Count(v, "FAIL") + Count(v, "UNGRADED") + Count(v, "SKIP")
    BY <1>7, <1>8, <1>10, <1>11
  <1> QED
    BY <1>4, <1>9, <1>10, <1>12

\* The regression half passes without a failure, and with a pass if it has cases.
LEMMA FinalStatusPass ==
    ASSUME NEW passed \in Nat, NEW failed \in Nat, NEW skipped \in Nat, NEW total \in Nat,
           NEW warnings, FinalStatus(passed, failed, skipped, total, warnings) = "PASS"
    PROVE  failed = 0 /\ (total # 0 => passed > 0)
  BY DEF FinalStatus

\* A gate passes if both its halves do.
LEMMA WorstPass ==
    ASSUME NEW a \in Settling, NEW b \in Settling, Worst(a, b) = "PASS"
    PROVE  a = "PASS" /\ b = "PASS"
  BY DEF Worst, Severity, Settling

\* What a passing regression half says of the cases.
LEMMA CasesEarned ==
    ASSUME NEW v \in [Cases -> Replayed], Count(v, "FAIL") = 0,
           Cardinality(Cases) # 0 => Count(v, "PASS") > 0
    PROVE  /\ {c \in Cases : v[c] \in {"FAIL"}} = {}
           /\ Cases # {} => {c \in Cases : v[c] \in {"PASS"}} # {}
  <1>1. /\ {c \in Cases : v[c] \in {"FAIL"}} = {c \in DOMAIN v : v[c] = "FAIL"}
        /\ {c \in Cases : v[c] \in {"PASS"}} = {c \in DOMAIN v : v[c] = "PASS"}
    OBVIOUS
  <1>2. IsFiniteSet({c \in DOMAIN v : v[c] = "FAIL"})
    BY Finite, FS_Subset
  <1>3. {c \in DOMAIN v : v[c] = "FAIL"} = {}
    BY <1>2, FS_EmptySet DEF Count
  <1>4. Cases # {} => Cardinality(Cases) # 0
    BY Finite, FS_EmptySet
  <1>5. Count(v, "PASS") > 0 => {c \in DOMAIN v : v[c] = "PASS"} # {}
    BY FS_EmptySet DEF Count
  <1> QED
    BY <1>1, <1>3, <1>4, <1>5

\* POST /gate writes the counts and the verdict of the cases it replayed.
LEMMA RunGateEndsCalm ==
    ASSUME IInv, OneAtATime, RunGateEnds, Undisturbed
    PROVE  OneAtATime'
  <1>1. /\ dpc = "inline" /\ dpc' = "done"
        /\ UNCHANGED <<scenRow, config, sent, dsnap, dcases, dleft, dnow, driven, grade>>
    BY DEF RunGateEnds
  <1>2. /\ WithRow = {} /\ WithRow' = {} /\ dleft = {} /\ dnow = {} /\ Listed' = Listed
        /\ row.total = Cardinality(Cases)
    BY <1>1, RowsUntouched DEF OneAtATime, RowsBefore, InSession
  <1>3. \A g \in Graders : gpc[g] = "free"
    BY <1>1 DEF OneAtATime, OneTask, Ungraded
  <1>4. Tallied' /\ Loaded' /\ RowsBefore' /\ InSession' /\ Listing'
    BY <1>1, <1>2, <1>3 DEF Tallied, Loaded, RowsBefore, InSession, Listing, grade
  <1>5. SuiteKept'
    BY <1>1, <1>2 DEF OneAtATime, SuiteKept, config
  <1>6. CASE UNCHANGED <<row, caseRow>>
    <2>1. OneTask'
      BY <1>1, <1>3, <1>6 DEF OneAtATime, OneTask, Ungraded, grade
    <2>2. CountsAddUp' /\ GreenIsEarned'
      BY <1>1, <1>6, VerdictKept DEF OneAtATime, rows
    <2> QED
      BY <1>4, <1>5, <2>1, <2>2 DEF OneAtATime
  <1>7. ASSUME NEW v \in [Cases -> Replayed], NEW soft \in SUBSET {"soft"},
               NEW status, status = FinalStatus(Count(v, "PASS"), Count(v, "FAIL"),
                                                Count(v, "SKIP"), Cardinality(Cases), {}),
               row' = [row EXCEPT
                   !.finished = TRUE, !.warnings = soft,
                   !.passed = Count(v, "PASS"), !.failed = Count(v, "FAIL"),
                   !.skipped = Count(v, "SKIP"),
                   !.status = IF soft # {} /\ BlockOnWarnings THEN "FAIL" ELSE status],
               caseRow' = v
        PROVE  OneAtATime'
    <2>1. row \in GateRows
      BY DEF IInv, TypeInv, TypeOK
    <2>2. /\ row'.finished /\ row'.total = Cardinality(Cases)
          /\ row'.passed = Count(v, "PASS") /\ row'.failed = Count(v, "FAIL")
          /\ row'.skipped = Count(v, "SKIP") /\ (row'.status = "PASS" => status = "PASS")
      BY <1>2, <1>7, <2>1 DEF GateRows
    <2>3. OneTask'
      BY <1>1, <1>3, <2>2 DEF OneTask, Ungraded, grade
    <2>4. /\ Count(v, "PASS") \in Nat /\ Count(v, "FAIL") \in Nat /\ Count(v, "SKIP") \in Nat
          /\ Cardinality(Cases) \in Nat
      BY CountType, Finite
    <2>5. \A k : "none" \notin k => ScenariosWith(k)' = {}
      BY <1>2 DEF WithRow, HasRow, ScenariosWith
    <2>6. \A k : CasesWith(k)' = {c \in Cases : v[c] \in k}
      BY <1>7 DEF CasesWith
    <2>7. /\ {c \in Cases : v[c] \in {"PASS"}} = {c \in DOMAIN v : v[c] = "PASS"}
          /\ {c \in Cases : v[c] \in {"FAIL"}} = {c \in DOMAIN v : v[c] = "FAIL"}
      OBVIOUS
    <2>8. /\ Cardinality(CasesWith({"PASS"}))' = Count(v, "PASS")
          /\ Cardinality(CasesWith({"FAIL"}))' = Count(v, "FAIL")
      BY <2>6, <2>7 DEF Count
    <2>9. /\ Cardinality(ScenariosWith({"PASS"}))' = 0
          /\ Cardinality(ScenariosWith({"FAIL", "UNGRADED"}))' = 0
          /\ Cardinality(ScenariosWith({"PASS", "FAIL", "UNGRADED"}))' = 0
          /\ ScenariosWith(Driven)' = {}
      BY <2>5, FS_EmptySet DEF Driven
    <2>10. CountsAddUp'
      BY <2>2, <2>4, <2>8, <2>9, CasesAddUp DEF CountsAddUp
    <2>11. row'.status = "PASS" => Count(v, "FAIL") = 0
                                   /\ (Cardinality(Cases) # 0 => Count(v, "PASS") > 0)
      BY <1>7, <2>2, <2>4, FinalStatusPass
    <2>12. GreenIsEarned'
      BY <2>6, <2>9, <2>11, CasesEarned, ConstantsAssumption DEF GreenIsEarned
    <2> QED
      BY <1>4, <1>5, <2>3, <2>10, <2>12 DEF OneAtATime
  <1> QED
    BY <1>6, <1>7 DEF RunGateEnds

\* The grader adds the counts of its conversations to those of the cases.
LEMMA FinalizeCalm ==
    ASSUME IInv, OneAtATime, NEW g \in Graders, Finalize(g), Undisturbed
    PROVE  OneAtATime'
  <1>1. PICK v \in [DOMAIN gout[g] -> Verdicts] :
          /\ row' = Flush(gsnap[g], Graded(g, v))
          /\ scenRow' = [s \in Scenarios |->
                CASE s \in DOMAIN v -> v[s]
                  [] s \in gswept[g] -> "SKIP"
                  [] OTHER -> scenRow[s]]
    BY DEF Finalize
  <1>2. /\ gpc[g] = "grade" /\ gpc' = [gpc EXCEPT ![g] = "free"]
        /\ UNCHANGED <<caseRow, config, sent, faultVars, drive>>
    BY DEF Finalize, Leave, Goto
  <1>3. /\ gsnap[g] = row /\ row \in GateRows
        /\ DOMAIN v \cup gswept[g] = WithRow /\ DOMAIN v \cap gswept[g] = {}
    BY <1>2 DEF OneAtATime, Loaded, IInv, TypeInv, TypeOK
  <1>4. /\ caseRow \in [Cases -> Replayed]
        /\ row.passed = Count(caseRow, "PASS") /\ row.failed = Count(caseRow, "FAIL")
        /\ row.skipped = Count(caseRow, "SKIP")
        /\ row.total = Cardinality(Cases) + Cardinality(WithRow)
    BY <1>2 DEF OneAtATime, Tallied
  <1>5. /\ WithRow \in SUBSET Scenarios /\ DOMAIN v \in SUBSET Scenarios
        /\ gswept[g] \in SUBSET Scenarios
    BY <1>3 DEF WithRow
  <1>6. /\ IsFiniteSet(DOMAIN v) /\ IsFiniteSet(gswept[g])
        /\ Cardinality(DOMAIN v) \in Nat /\ Cardinality(gswept[g]) \in Nat
        /\ Cardinality(Cases) \in Nat /\ IsFiniteSet(Cases)
    BY <1>5, Finite
  <1>7. Cardinality(WithRow) = Cardinality(DOMAIN v) + Cardinality(gswept[g])
    BY <1>3, <1>6, DisjointUnion
  <1>8. /\ Graded(g, v) \in GateRows /\ row' = Graded(g, v)
    BY <1>1, <1>3, GradedType, FlushKnown DEF IInv
  <1>9. /\ \A k : Count(v, k) \in Nat
        /\ Count(caseRow, "PASS") \in Nat /\ Count(caseRow, "FAIL") \in Nat
        /\ Count(caseRow, "SKIP") \in Nat
    BY <1>4, <1>6, CountType
  <1>10. /\ row'.finished /\ row'.total = row.total
         /\ row'.passed = row.passed + Count(v, "PASS")
         /\ row'.failed = row.failed + Count(v, "FAIL") + Count(v, "UNGRADED")
         /\ row'.skipped = row.skipped + Count(v, "SKIP") + Cardinality(gswept[g])
    BY <1>3, <1>8 DEF Graded, GateRows
  <1>11. \A s \in Scenarios : scenRow'[s] = IF s \in DOMAIN v THEN v[s]
                                            ELSE IF s \in gswept[g] THEN "SKIP" ELSE "none"
    <2>1. \A s \in Scenarios : s \notin DOMAIN v \cup gswept[g] => scenRow[s] = "none"
      BY <1>3 DEF WithRow, HasRow
    <2>2. ASSUME NEW s \in Scenarios
          PROVE  scenRow'[s] = IF s \in DOMAIN v THEN v[s]
                               ELSE IF s \in gswept[g] THEN "SKIP" ELSE "none"
      <3>1. scenRow'[s] = CASE s \in DOMAIN v -> v[s]
                            [] s \in gswept[g] -> "SKIP"
                            [] OTHER -> scenRow[s]
        BY <1>1
      <3>2. s \in gswept[g] => s \notin DOMAIN v
        BY <1>3
      <3>3. CASE s \in DOMAIN v
        BY <3>1, <3>2, <3>3
      <3>4. CASE s \in gswept[g]
        BY <3>1, <3>2, <3>4
      <3>5. CASE s \notin DOMAIN v \cup gswept[g]
        BY <2>1, <3>1, <3>5
      <3> QED
        BY <3>3, <3>4, <3>5
    <2> QED
      BY <2>2
  <1>12. \A s \in DOMAIN v : v[s] \in Verdicts
    OBVIOUS
  <1>13. \A k \in SUBSET {"PASS", "FAIL", "UNGRADED"} :
            ScenariosWith(k)' = {s \in DOMAIN v : v[s] \in k}
    BY <1>5, <1>11 DEF ScenariosWith
  <1>14. ScenariosWith(Driven)' = {}
    BY <1>11, <1>12 DEF ScenariosWith, Driven, Verdicts
  <1>15. WithRow' = WithRow
    BY <1>3, <1>5, <1>11, <1>12 DEF WithRow, HasRow, Verdicts
  <1>16. /\ OneTask' /\ SuiteKept' /\ RowsBefore' /\ Listing' /\ InSession' /\ Tallied'
         /\ \A h \in Graders : h # g => gpc'[h] = "free"
    BY <1>2, <1>10, <1>15, GraderAlone
  <1>17. gpc'[g] # "grade"
    BY <1>2 DEF IInv, TypeInv, TypeOK
  <1>18. Loaded'
    BY <1>16, <1>17 DEF Loaded
  <1>19. CasesWith({"PASS"})' = {c \in Cases : caseRow[c] \in {"PASS"}}
         /\ CasesWith({"FAIL"})' = {c \in Cases : caseRow[c] \in {"FAIL"}}
    BY <1>2 DEF CasesWith
  <1>20. /\ Cardinality(CasesWith({"PASS"}))' = Count(caseRow, "PASS")
         /\ Cardinality(CasesWith({"FAIL"}))' = Count(caseRow, "FAIL")
    <2>1. /\ {c \in Cases : caseRow[c] \in {"PASS"}} = {c \in DOMAIN caseRow : caseRow[c] = "PASS"}
          /\ {c \in Cases : caseRow[c] \in {"FAIL"}} = {c \in DOMAIN caseRow : caseRow[c] = "FAIL"}
      BY <1>4
    <2> QED
      BY <1>19, <2>1 DEF Count
  <1>21. /\ Cardinality({s \in DOMAIN v : v[s] # "SKIP"})
              = Count(v, "PASS") + (Count(v, "FAIL") + Count(v, "UNGRADED"))
         /\ Cardinality({s \in DOMAIN v : v[s] \in {"FAIL", "UNGRADED"}})
              = Count(v, "FAIL") + Count(v, "UNGRADED")
         /\ Cardinality(DOMAIN v)
              = Count(v, "PASS") + Count(v, "FAIL") + Count(v, "UNGRADED") + Count(v, "SKIP")
    <2>1. v \in [DOMAIN v -> Verdicts]
      OBVIOUS
    <2> QED
      BY <1>6, <2>1, VerdictsAddUp
  <1>22. /\ Cardinality(ScenariosWith({"PASS"}))' = Count(v, "PASS")
         /\ Cardinality(ScenariosWith({"FAIL", "UNGRADED"}))'
              = Count(v, "FAIL") + Count(v, "UNGRADED")
         /\ Cardinality(ScenariosWith({"PASS", "FAIL", "UNGRADED"}))'
              = Cardinality({s \in DOMAIN v : v[s] # "SKIP"})
    <2>1. /\ {s \in DOMAIN v : v[s] \in {"PASS"}} = {s \in DOMAIN v : v[s] = "PASS"}
          /\ {s \in DOMAIN v : v[s] \in {"PASS", "FAIL", "UNGRADED"}}
               = {s \in DOMAIN v : v[s] # "SKIP"}
      BY <1>12 DEF Verdicts
    <2> QED
      BY <1>13, <1>21, <2>1 DEF Count
  <1>23. Cardinality(Cases)
           = Count(caseRow, "PASS") + Count(caseRow, "FAIL") + Count(caseRow, "SKIP")
    BY <1>4, CasesAddUp
  <1>24. CountsAddUp'
    <2>1. row'.total = row'.passed + row'.failed + row'.skipped
      BY <1>4, <1>6, <1>7, <1>9, <1>10, <1>21, <1>23
    <2>2. row'.passed = Cardinality(ScenariosWith({"PASS"}))' + Cardinality(CasesWith({"PASS"}))'
      BY <1>4, <1>9, <1>10, <1>20, <1>22
    <2>3. row'.failed = Cardinality(ScenariosWith({"FAIL", "UNGRADED"}))'
                          + Cardinality(CasesWith({"FAIL"}))'
      BY <1>4, <1>9, <1>10, <1>20, <1>22
    <2> QED
      BY <2>1, <2>2, <2>3 DEF CountsAddUp
  <1>25. GreenIsEarned'
    <2> SUFFICES ASSUME row'.status = "PASS"
                 PROVE  /\ CasesWith({"FAIL"})' = {}
                        /\ Cases # {} => CasesWith({"PASS"})' # {}
                        /\ ScenariosWith(Driven)' = {}
                        /\ Cardinality(ScenariosWith({"PASS"}))' * RateDen
                             >= RateNum * Cardinality(ScenariosWith({"PASS", "FAIL", "UNGRADED"}))'
      BY DEF GreenIsEarned
    <2> DEFINE missing == DOMAIN v = {} /\ enabled # {} /\ ~endpoint
               warnings == row.warnings \cup IF missing THEN {"no_endpoint"} ELSE {}
               cases == row.total - Cardinality(DOMAIN v) - Cardinality(gswept[g])
               caseStatus == FinalStatus(row.passed, row.failed, row.skipped, cases, warnings)
               scenStatus == IF missing THEN "NO_COVERAGE" ELSE GateVerdict(v)
    <2>1. row'.status = Worst(caseStatus, scenStatus)
      BY <1>3, <1>8 DEF Graded, GateRows
    <2>2. cases = Cardinality(Cases)
      BY <1>4, <1>6, <1>7
    <2>3. /\ row.passed \in Nat /\ row.failed \in Nat /\ row.skipped \in Nat
          /\ cases \in Nat
      BY <1>4, <1>6, <1>9, <2>2
    <2> HIDE DEF cases, warnings
    <2>4. caseStatus \in Settling
      BY <2>3, FinalStatusType
    <2>5. scenStatus \in Settling
      BY GateVerdictType DEF Settling
    <2> HIDE DEF caseStatus, scenStatus
    <2>6. caseStatus = "PASS" /\ scenStatus = "PASS"
      BY <2>1, <2>4, <2>5, WorstPass
    <2>7. row.failed = 0 /\ (cases # 0 => row.passed > 0)
      BY <2>3, <2>6, FinalStatusPass DEF caseStatus
    <2>8. CasesWith({"FAIL"})' = {} /\ (Cases # {} => CasesWith({"PASS"})' # {})
      BY <1>4, <1>19, <2>2, <2>7, CasesEarned
    <2>9. GateVerdict(v) = "PASS"
      BY <2>6 DEF scenStatus
    <2>10. Count(v, "PASS") * RateDen >= RateNum * Cardinality({s \in DOMAIN v : v[s] # "SKIP"})
      <3>1. CASE DOMAIN v = {}
        <4>1. Count(v, "PASS") = 0 /\ Cardinality({s \in DOMAIN v : v[s] # "SKIP"}) = 0
          BY <3>1, FS_EmptySet DEF Count
        <4> QED
          BY <4>1, ConstantsAssumption
      <3>2. CASE DOMAIN v # {}
        BY <2>9, <3>2 DEF GateVerdict
      <3> QED
        BY <3>1, <3>2
    <2> QED
      BY <1>14, <1>22, <2>8, <2>10
  <1> QED
    BY <1>16, <1>18, <1>24, <1>25 DEF OneAtATime

\* Every step keeps the tasks one at a time, until the run is disturbed.
LEMMA StepCalm == IInv /\ Calm /\ [Next]_vars => Calm'
  <1> SUFFICES ASSUME IInv, Calm, [Next]_vars, Undisturbed' PROVE OneAtATime'
    BY DEF Calm
  <1>1. Undisturbed /\ OneAtATime
    BY DisturbedStays DEF Calm
  <1>2. CASE UNCHANGED vars
    <2>1. WithRow' = WithRow /\ Listed' = Listed
      BY <1>2, RowsUntouched DEF vars, rows, drive
    <2>2. CountsAddUp' /\ GreenIsEarned'
      BY <1>1, <1>2, VerdictKept DEF OneAtATime, vars
    <2>3. OneTask' /\ SuiteKept' /\ RowsBefore' /\ Listing'
      BY <1>1, <1>2, <2>1 DEF OneAtATime, OneTask, Ungraded, SuiteKept, RowsBefore, Listing, Struck,
         vars, rows, config, faultVars, drive, grade
    <2>4. InSession' /\ Tallied' /\ Loaded'
      BY <1>1, <1>2, <2>1 DEF OneAtATime, InSession, Tallied, Loaded, Count,
         vars, rows, drive, grade
    <2> QED
      BY <2>2, <2>3, <2>4 DEF OneAtATime
  <1>3. CASE RunGate \/ CreateRun \/ Delay
    BY <1>1, <1>3, RequestCalm
  <1>4. CASE Edit
    BY <1>1, <1>4, EditCalm
  <1>5. CASE RunGateEnds
    BY <1>1, <1>5, RunGateEndsCalm
  <1>6. CASE DriveLoad
    BY <1>1, <1>6, DriveLoadCalm
  <1>7. CASE DriveReset
    BY <1>1, <1>7, DriveResetCalm
  <1>8. CASE ListScenarios
    BY <1>1, <1>8, ListScenariosCalm
  <1>9. CASE (\E s \in Scenarios : Send(s)) \/ RecordScenario
    BY <1>1, <1>9, SendCalm
  <1>10. CASE DriveFinish
    BY <1>1, <1>10, DriveFinishCalm
  <1>11. CASE ScheduleGrade
    BY <1>1, <1>11, ScheduleGradeCalm
  <1>12. CASE DriveAck
    BY <1>1, <1>12, DriveAckCalm
  <1>13. CASE DriveRaises \/ DriveDies
    <2>1. dpc # "ack"
      BY <1>13 DEF DriveRaises, DriveDies, Strike, Undisturbed, Struck
    <2>2. dpc \in {"reset", "list", "drive", "sent", "schedule"}
      BY <1>13, <2>1 DEF DriveRaises, DriveDies
    <2> QED
      BY <1>1, <1>13, <2>2, DriveEndCalm
  <1>14. ASSUME NEW g \in Graders, GradeLoad(g) \/ GradeRaises(g) \/ GradeDies(g)
         PROVE  OneAtATime'
    BY <1>1, <1>14, GradeCalm
  <1>15. ASSUME NEW g \in Graders, Finalize(g)
         PROVE  OneAtATime'
    BY <1>1, <1>15, FinalizeCalm
  <1> QED
    BY <1>2, <1>3, <1>4, <1>5, <1>6, <1>7, <1>8, <1>9, <1>10, <1>11, <1>12, <1>13, <1>14,
       <1>15 DEF Next, DriveStep, GradeStep

\* One task at a time, or disturbed.
LEMMA CalmHolds == Spec => []Calm
  <1>1. Init => Calm
    BY InitCalm
  <1>2. IInv /\ Calm /\ [Next]_vars => Calm'
    BY StepCalm
  <1> QED
    BY <1>1, <1>2, Invariance, PTL DEF Spec

\* gate_service.py: the counters a finished run shows are those of its rows and
\* add up, whatever was edited, deleted, killed or delivered again meanwhile,
\* save after a late crash, or a crash and an edit.
THEOREM CountersOfTheRows == Spec => []CountsAddUp
  <1>1. Calm => CountsAddUp
    BY DEF Calm, OneAtATime, CountsAddUp
  <1> QED
    BY <1>1, CalmHolds, PTL

\* gate_service.py, gate.py: under the same conditions a run is green only if
\* its cases passed and its conversations met the pass rate.
THEOREM GreenOnlyIfEarned == Spec => []GreenIsEarned
  <1>1. Calm => GreenIsEarned
    BY DEF Calm, OneAtATime, GreenIsEarned
  <1> QED
    BY <1>1, CalmHolds, PTL

-----------------------------------------------------------------------------
(* How often a conversation goes over the wire                             *)

Started == {s \in Scenarios : sent[s] > 0}

\* Sent, without a row, and within reach of a drive.
Unrecorded == {s \in exists \cup dleft : sent[s] > 0 /\ ~HasRow(s)}

\* What crashes may have made go out again.
Again == IF Struck({"crash"}) THEN faults ELSE 0

\* A drive has one scenario between the wire and its row, and those it has left
\* have none; outside of a drive there are neither.
DriveShape ==
    /\ dpc # "sent" => dnow = {}
    /\ dpc = "sent" => \E s \in Scenarios : dnow = {s}
    /\ dpc \notin {"drive", "sent"} => dleft = {}
    /\ dleft \cap dnow = {}
    /\ \A s \in dleft : ~HasRow(s)

\* Every conversation that went out twice answers for a crash; so does every one
\* that has no row and may go out again, but for the one that a drive has just
\* sent.
SentBound ==
    /\ SumFunction(sent) <= Cardinality(Started) + Again
    /\ dpc # "done" =>
         SumFunction(sent) + Cardinality(Unrecorded \ dnow) <= Cardinality(Started) + Again

SentInv == DriveShape /\ SentBound

\* The numbers in it.
LEMMA SentType ==
    TypeInv => /\ SumFunction(sent) \in Nat /\ Cardinality(Started) \in Nat
               /\ Again \in Nat /\ faults \in Nat
               /\ IsFiniteSet(Unrecorded) /\ Cardinality(Unrecorded \ dnow) \in Nat
  <1> SUFFICES ASSUME TypeInv
               PROVE  /\ SumFunction(sent) \in Nat /\ Cardinality(Started) \in Nat
                      /\ Again \in Nat /\ faults \in Nat
                      /\ IsFiniteSet(Unrecorded) /\ Cardinality(Unrecorded \ dnow) \in Nat
    OBVIOUS
  <1>1. SumFunction(sent) \in Nat
    BY Finite, SumType DEF TypeInv, TypeOK
  <1>2. Cardinality(Started) \in Nat
    BY Finite DEF Started
  <1>3. Again \in Nat /\ faults \in Nat
    BY ConstantsAssumption DEF Again, TypeInv, TypeOK
  <1>4. IsFiniteSet(Unrecorded) /\ Cardinality(Unrecorded \ dnow) \in Nat
    <2>1. Unrecorded \in SUBSET Scenarios /\ Unrecorded \ dnow \in SUBSET Scenarios
      BY DEF Unrecorded, TypeInv, TypeOK
    <2> QED
      BY <2>1, Finite
  <1> QED
    BY <1>1, <1>2, <1>3, <1>4

LEMMA SentTypeNext ==
    TypeInv' => /\ SumFunction(sent') \in Nat /\ Cardinality(Started') \in Nat
                /\ Again' \in Nat /\ faults' \in Nat
                /\ IsFiniteSet(Unrecorded') /\ Cardinality(Unrecorded' \ dnow') \in Nat
  <1>1. (TypeInv => /\ SumFunction(sent) \in Nat /\ Cardinality(Started) \in Nat
                    /\ Again \in Nat /\ faults \in Nat
                    /\ IsFiniteSet(Unrecorded) /\ Cardinality(Unrecorded \ dnow) \in Nat)'
    BY SentType, PTL
  <1> QED
    BY <1>1

\* Strikes only add up.
StrikesAddUp == struck \subseteq struck' /\ faults <= faults'

LEMMA StrikesOnlyAdd ==
    ASSUME TypeInv, (\E k \in FaultKinds : Strike(k)) \/ NoFault
    PROVE  StrikesAddUp
  BY ConstantsAssumption DEF StrikesAddUp, Strike, NoFault, faultVars, TypeInv, TypeOK

\* A step that sends nothing and puts no row out of reach keeps the bound.
NothingSent ==
    /\ UNCHANGED sent /\ StrikesAddUp
    /\ dpc = "done" => dpc' = "done"
    /\ dpc' # "done" => Unrecorded' \ dnow' \subseteq Unrecorded \ dnow

LEMMA NothingSentKeeps ==
    ASSUME TypeInv, TypeInv', SentBound, NothingSent
    PROVE  SentBound'
  <1>1. SumFunction(sent') = SumFunction(sent) /\ Started' = Started
    BY DEF NothingSent, Started
  <1>2. Again <= Again' /\ Again \in Nat /\ Again' \in Nat
    BY SentType, SentTypeNext DEF NothingSent, StrikesAddUp, Again, Struck
  <1>3. /\ SumFunction(sent) \in Nat /\ Cardinality(Started) \in Nat
        /\ IsFiniteSet(Unrecorded \ dnow) /\ Cardinality(Unrecorded \ dnow) \in Nat
        /\ Cardinality(Unrecorded' \ dnow') \in Nat
    BY SentType, SentTypeNext, FS_Difference
  <1>4. dpc' # "done" =>
          Cardinality(Unrecorded' \ dnow') <= Cardinality(Unrecorded \ dnow)
    BY <1>3, FS_Subset DEF NothingSent
  <1> QED
    BY <1>1, <1>2, <1>3, <1>4 DEF SentBound, NothingSent

\* At first nothing is sent.
LEMMA InitSent == Init => SentInv
  <1> SUFFICES ASSUME Init PROVE SentInv
    OBVIOUS
  <1>1. SumFunction(sent) = 0
    BY Finite, SumZero DEF Init
  <1>2. Started = {} /\ Unrecorded \ dnow = {} /\ Again = 0
    BY DEF Init, Started, Unrecorded, Again, Struck
  <1>3. Cardinality({}) = 0
    BY FS_EmptySet
  <1>4. SentBound
    BY <1>1, <1>2, <1>3 DEF SentBound
  <1>5. DriveShape
    BY DEF Init, DriveShape
  <1> QED
    BY <1>4, <1>5 DEF SentInv

-----------------------------------------------------------------------------
\* A conversation goes out: for the first time, or one that a crash made go out
\* again.
LEMMA SendKeeps ==
    ASSUME TypeInv, TypeInv', SentInv, NEW s \in Scenarios, Send(s)
    PROVE  SentInv'
  <1>1. /\ dpc = "drive" /\ dpc' = "sent" /\ s \in dleft /\ dnow = {} /\ dnow' = {s}
        /\ dleft' = dleft \ {s} /\ sent' = [sent EXCEPT ![s] = @ + 1] /\ ~HasRow(s)
        /\ UNCHANGED <<scenRow, exists, struck, faults>>
    BY DEF Send, SentInv, DriveShape, rows, config, faultVars
  <1>2. DriveShape'
    BY <1>1 DEF SentInv, DriveShape, HasRow
  <1>3. /\ sent \in [Scenarios -> Nat] /\ sent' \in [Scenarios -> Nat]
        /\ sent'[s] = sent[s] + 1 /\ \A x \in Scenarios \ {s} : sent'[x] = sent[x]
    BY <1>1 DEF TypeInv, TypeOK
  <1>4. SumFunction(sent') = SumFunction(sent) + 1
    <2>1. SumFunction(sent') + sent[s] = SumFunction(sent) + sent'[s]
      BY <1>3, Finite, SumChange
    <2>2. SumFunction(sent) \in Nat /\ SumFunction(sent') \in Nat /\ sent[s] \in Nat
      BY <1>3, SentType, SentTypeNext
    <2> QED
      BY <1>3, <2>1, <2>2
  <1>5. Again' = Again
    BY <1>1 DEF Again, Struck
  <1>6. Unrecorded' \ dnow' = Unrecorded \ {s}
    BY <1>1, <1>3 DEF Unrecorded, HasRow, TypeInv, TypeOK
  <1>7. /\ SumFunction(sent) + Cardinality(Unrecorded) <= Cardinality(Started) + Again
    <2>1. Unrecorded \ dnow = Unrecorded
      BY <1>1
    <2> QED
      BY <1>1, <2>1 DEF SentInv, SentBound
  <1>8. /\ SumFunction(sent) \in Nat /\ Cardinality(Started) \in Nat /\ Again \in Nat
        /\ IsFiniteSet(Unrecorded) /\ Cardinality(Unrecorded) \in Nat
        /\ IsFiniteSet(Started)
        /\ Cardinality(Started') \in Nat /\ Cardinality(Unrecorded' \ dnow') \in Nat
    <2>1. Started \in SUBSET Scenarios
      BY DEF Started
    <2> QED
      BY <2>1, SentType, SentTypeNext, FS_CardinalityType, Finite
  <1>9. CASE sent[s] = 0
    <2>1. Started' = Started \cup {s} /\ s \notin Started
      BY <1>3, <1>9 DEF Started
    <2>2. Cardinality(Started') = Cardinality(Started) + 1
      BY <1>8, <2>1, FS_AddElement
    <2>3. Unrecorded \ {s} = Unrecorded
      BY <1>9 DEF Unrecorded
    <2>4. SentBound'
      BY <1>4, <1>5, <1>6, <1>7, <1>8, <2>2, <2>3 DEF SentBound
    <2> QED
      BY <1>2, <2>4 DEF SentInv
  <1>10. CASE sent[s] # 0
    <2>1. Started' = Started
      BY <1>3, <1>10 DEF Started
    <2>2. s \in Unrecorded
      BY <1>1, <1>3, <1>10 DEF Unrecorded
    <2>3. Cardinality(Unrecorded' \ dnow') = Cardinality(Unrecorded) - 1
      BY <1>6, <1>8, <2>2, FS_RemoveElement
    <2>4. SumFunction(sent') + Cardinality(Unrecorded' \ dnow')
            <= Cardinality(Started') + Again'
      BY <1>4, <1>5, <1>7, <1>8, <2>1, <2>3
    <2>5. SumFunction(sent') <= Cardinality(Started') + Again'
      BY <1>5, <1>8, <2>4, SentTypeNext
    <2> QED
      BY <1>2, <2>4, <2>5 DEF SentInv, SentBound
  <1> QED
    BY <1>9, <1>10

\* Its row is written.
LEMMA RecordKeeps ==
    ASSUME TypeInv, TypeInv', SentInv, RecordScenario
    PROVE  SentInv'
  <1>1. /\ dpc = "sent" /\ dpc' = "drive" /\ dnow' = {} /\ UNCHANGED <<sent, exists, dleft>>
        /\ UNCHANGED faultVars
    BY DEF RecordScenario, config
  <1>2. PICK k \in Driven :
          scenRow' = [s \in Scenarios |-> IF s \in dnow THEN k ELSE scenRow[s]]
    BY DEF RecordScenario
  <1>3. \A s \in Scenarios : HasRow(s)' = (s \in dnow \/ HasRow(s))
    BY <1>2 DEF HasRow, Driven
  <1>4. dleft \subseteq Scenarios /\ exists \subseteq Scenarios
    BY DEF TypeInv, TypeOK
  <1>5. DriveShape'
    <2>1. \A s \in dleft' : ~HasRow(s)'
      BY <1>1, <1>3, <1>4 DEF SentInv, DriveShape
    <2> QED
      BY <1>1, <2>1 DEF SentInv, DriveShape
  <1>6. Unrecorded' \ dnow' \subseteq Unrecorded \ dnow
    BY <1>1, <1>3, <1>4 DEF Unrecorded
  <1>7. StrikesAddUp
    BY <1>1, StrikesOnlyAdd DEF NoFault
  <1>8. NothingSent
    BY <1>1, <1>6, <1>7 DEF NothingSent
  <1> QED
    BY <1>5, <1>8, NothingSentKeeps DEF SentInv

\* A drive that was killed or that raised sends no more; a crash has one
\* conversation at most go out again.
LEMMA DriveDiesKeeps ==
    ASSUME TypeInv, TypeInv', SentInv, DriveDies
    PROVE  SentInv'
  <1>1. /\ dleft' = {} /\ dnow' = {} /\ dpc' \in {"queued", "done"}
        /\ UNCHANGED <<sent, exists, scenRow>> /\ dpc \notin {"done", "none"}
    BY DEF DriveDies, DriveEnd, rows, config
  <1>2. DriveShape'
    BY <1>1 DEF DriveShape
  <1>3. Unrecorded' \subseteq Unrecorded
    BY <1>1 DEF Unrecorded, HasRow
  <1>4. StrikesAddUp
    BY StrikesOnlyAdd DEF DriveDies, FaultKinds
  <1>5. CASE dpc = "sent" /\ Strike("crash")
    <2>1. PICK s \in Scenarios : dnow = {s}
      BY <1>5 DEF SentInv, DriveShape
    <2>2. Cardinality(Unrecorded') <= Cardinality(Unrecorded \ dnow) + 1
      <3>1. IsFiniteSet(Unrecorded \ dnow)
        BY SentType, FS_Difference
      <3>2. /\ IsFiniteSet((Unrecorded \ dnow) \cup {s})
            /\ Cardinality((Unrecorded \ dnow) \cup {s}) = Cardinality(Unrecorded \ dnow) + 1
        BY <2>1, <3>1, FS_AddElement
      <3>3. Unrecorded' \subseteq (Unrecorded \ dnow) \cup {s}
        BY <1>3, <2>1
      <3> QED
        BY <3>2, <3>3, FS_Subset
    <2>3. Again' = faults + 1 /\ Again <= faults
      BY <1>5, SentType DEF Strike, Again, Struck
    <2>4. SumFunction(sent') = SumFunction(sent) /\ Started' = Started
      BY <1>1 DEF Started
    <2>5. /\ SumFunction(sent) \in Nat /\ Cardinality(Started) \in Nat
          /\ Again \in Nat /\ faults \in Nat /\ Cardinality(Unrecorded \ dnow) \in Nat
      BY SentType
    <2>6. Unrecorded' \ dnow' = Unrecorded' /\ Cardinality(Unrecorded' \ dnow') \in Nat
      BY <1>1, SentTypeNext
    <2>7. SumFunction(sent) + Cardinality(Unrecorded \ dnow) <= Cardinality(Started) + Again
      BY <1>5 DEF SentInv, SentBound
    <2>8. SumFunction(sent') + Cardinality(Unrecorded' \ dnow')
            <= Cardinality(Started') + Again'
      BY <2>2, <2>3, <2>4, <2>5, <2>6, <2>7
    <2>9. SumFunction(sent') <= Cardinality(Started') + Again'
      BY <2>6, <2>8, SentTypeNext
    <2> QED
      BY <1>2, <2>8, <2>9 DEF SentInv, SentBound
  <1>6. CASE ~(dpc = "sent" /\ Strike("crash"))
    <2>1. dpc' # "done" => dnow = {}
      BY <1>6 DEF DriveDies, DriveEnd, SentInv, DriveShape
    <2>2. NothingSent
      BY <1>1, <1>3, <1>4, <2>1 DEF NothingSent
    <2> QED
      BY <1>2, <2>2, NothingSentKeeps DEF SentInv
  <1> QED
    BY <1>5, <1>6

\* A step that leaves the drive's scenarios alone, takes no row from one that is
\* still there, and gives none to one that is still to be driven.
LEMMA DriveUntouchedKeeps ==
    ASSUME TypeInv, TypeInv', SentInv, UNCHANGED <<sent, dleft, dnow>>, StrikesAddUp,
           dpc' = dpc \/ (dleft = {} /\ dnow = {} /\ dpc # "done" /\ dpc' # "sent"),
           exists' \subseteq exists,
           \A s \in dleft : ~HasRow(s)',
           \A s \in exists' : HasRow(s) => HasRow(s)'
    PROVE  SentInv'
  <1>1. DriveShape'
    BY DEF SentInv, DriveShape
  <1>2. Unrecorded' \subseteq Unrecorded
    BY DEF SentInv, DriveShape, Unrecorded
  <1>3. NothingSent
    BY <1>2 DEF NothingSent
  <1> QED
    BY <1>1, <1>3, NothingSentKeeps DEF SentInv

\* Every step keeps the bound.
LEMMA StepSent == IInv /\ TypeInv' /\ SentInv /\ [Next]_vars => SentInv'
  <1> SUFFICES ASSUME IInv, TypeInv', SentInv, [Next]_vars PROVE SentInv'
    OBVIOUS
  <1>0. TypeInv /\ UnsettledInv
    BY DEF IInv
  <1> USE <1>0
  <1>1. \A s \in dleft : ~HasRow(s)
    BY DEF SentInv, DriveShape
  <1>2. dpc \notin {"drive", "sent"} => dleft = {} /\ dnow = {}
    BY DEF SentInv, DriveShape
  <1>3. CASE UNCHANGED vars
    <2>1. StrikesAddUp
      BY <1>3, StrikesOnlyAdd DEF NoFault, vars
    <2> QED
      BY <1>1, <1>3, <2>1, DriveUntouchedKeeps DEF vars, rows, config, drive, HasRow
  <1>4. CASE RunGate \/ CreateRun
    <2>1. StrikesAddUp
      BY <1>4, StrikesOnlyAdd DEF RunGate, CreateRun, NoFault
    <2>2. /\ dpc # "done" /\ dpc \notin {"drive", "sent"} /\ dpc' # "sent"
          /\ UNCHANGED <<sent, dleft, dnow, exists, scenRow>>
      BY <1>4 DEF RunGate, CreateRun, config, UnsettledInv
    <2> QED
      BY <1>1, <1>2, <2>1, <2>2, DriveUntouchedKeeps DEF HasRow
  <1>5. CASE Edit
    <2>1. StrikesAddUp
      BY <1>5, StrikesOnlyAdd DEF Edit, NoFault
    <2>2. exists' \subseteq exists
      BY <1>5 DEF Edit, Toggle, Delete, SetEndpoint
    <2> QED
      BY <1>1, <1>5, <2>1, <2>2, DriveUntouchedKeeps DEF Edit, rows, drive, HasRow
  <1>6. CASE RunGateEnds \/ Delay
    <2>1. StrikesAddUp
      BY <1>6, StrikesOnlyAdd DEF RunGateEnds, Delay, FaultKinds
    <2>2. /\ dpc # "done" /\ dpc \notin {"drive", "sent"} /\ dpc' # "sent"
          /\ UNCHANGED <<sent, dleft, dnow, exists, scenRow>>
      BY <1>6 DEF RunGateEnds, Delay, config, rows
    <2> QED
      BY <1>1, <1>2, <2>1, <2>2, DriveUntouchedKeeps DEF HasRow
  <1>7. CASE DriveLoad \/ DriveAck
    <2>1. StrikesAddUp
      BY <1>7, StrikesOnlyAdd DEF DriveLoad, DriveAck, NoFault, FaultKinds
    <2>2. /\ dpc # "done" /\ dpc \notin {"drive", "sent"} /\ dpc' # "sent"
          /\ UNCHANGED <<sent, dleft, dnow, exists, scenRow>>
      BY <1>7 DEF DriveLoad, DriveAck, config, rows
    <2> QED
      BY <1>1, <1>2, <2>1, <2>2, DriveUntouchedKeeps DEF HasRow
  <1>8. CASE DriveReset
    <2>1. StrikesAddUp
      BY <1>8, StrikesOnlyAdd DEF DriveReset, NoFault
    <2>2. /\ dpc = "reset" /\ dpc' = "list" /\ UNCHANGED <<sent, dleft, dnow, exists>>
      BY <1>8 DEF DriveReset, config
    <2>3. exists \subseteq Scenarios
      BY DEF TypeInv, TypeOK
    <2>4. \A s \in exists : scenRow'[s] = scenRow[s]
      BY <1>8, <2>3 DEF DriveReset
    <2> QED
      BY <1>2, <2>1, <2>2, <2>4, DriveUntouchedKeeps DEF HasRow
  <1>9. CASE ListScenarios
    <2>1. StrikesAddUp
      BY <1>9, StrikesOnlyAdd DEF ListScenarios, NoFault
    <2>2. /\ dpc = "list" /\ dpc' = "drive" /\ dnow = {} /\ dleft = {} /\ dnow' = {}
          /\ UNCHANGED <<sent, exists, scenRow>> /\ dleft' \in {{}, ToDrive}
      BY <1>2, <1>9 DEF ListScenarios, config, rows
    <2>3. dleft' \subseteq exists /\ \A s \in dleft' : ~HasRow(s)
      BY <2>2 DEF ToDrive, TypeInv, TypeOK
    <2>4. DriveShape'
      BY <2>2, <2>3 DEF DriveShape, HasRow
    <2>5. Unrecorded' \subseteq Unrecorded
      BY <2>2, <2>3 DEF Unrecorded, HasRow
    <2>6. NothingSent
      BY <2>1, <2>2, <2>5 DEF NothingSent
    <2> QED
      BY <2>4, <2>6, NothingSentKeeps DEF SentInv
  <1>10. ASSUME NEW s \in Scenarios, Send(s) PROVE SentInv'
    BY <1>10, SendKeeps
  <1>11. CASE RecordScenario
    BY <1>11, RecordKeeps
  <1>12. CASE DriveFinish
    <2>1. StrikesAddUp
      BY <1>12, StrikesOnlyAdd DEF DriveFinish, NoFault
    <2>2. /\ dpc = "drive" /\ dpc' = "schedule" /\ dnow = {} /\ dleft = {}
          /\ UNCHANGED <<sent, dleft, dnow, exists, scenRow>>
      BY <1>12 DEF DriveFinish, DriveEnd, config, SentInv, DriveShape
    <2> QED
      BY <2>1, <2>2, DriveUntouchedKeeps DEF HasRow
  <1>13. CASE ScheduleGrade
    <2>1. StrikesAddUp
      BY <1>13, StrikesOnlyAdd DEF ScheduleGrade, FaultKinds
    <2>2. /\ dpc = "schedule" /\ dpc' # "sent"
          /\ UNCHANGED <<sent, dleft, dnow, exists, scenRow>>
      BY <1>13 DEF ScheduleGrade, config
    <2> QED
      BY <1>2, <2>1, <2>2, DriveUntouchedKeeps DEF HasRow
  <1>14. CASE DriveRaises
    <2>1. StrikesAddUp
      BY <1>14, StrikesOnlyAdd DEF DriveRaises, FaultKinds
    <2>2. dpc' = "done" /\ dnow' = {} /\ dleft' = {} /\ UNCHANGED sent
      BY <1>14 DEF DriveRaises, DriveEnd
    <2>3. DriveShape'
      BY <2>2 DEF DriveShape
    <2>4. NothingSent
      BY <2>1, <2>2 DEF NothingSent
    <2> QED
      BY <2>3, <2>4, NothingSentKeeps DEF SentInv
  <1>15. CASE DriveDies
    BY <1>15, DriveDiesKeeps
  <1>16. ASSUME NEW g \in Graders, GradeLoad(g) \/ GradeRaises(g) \/ GradeDies(g)
         PROVE  SentInv'
    <2>1. StrikesAddUp
      BY <1>16, StrikesOnlyAdd DEF GradeLoad, GradeRaises, GradeDies, NoFault, FaultKinds
    <2>2. UNCHANGED <<sent, dleft, dnow, dpc, exists, scenRow>>
      BY <1>16 DEF GradeLoad, GradeRaises, GradeDies, config, rows, drive
    <2> QED
      BY <1>1, <2>1, <2>2, DriveUntouchedKeeps DEF HasRow
  <1>17. ASSUME NEW g \in Graders, Finalize(g) PROVE SentInv'
    <2>1. StrikesAddUp
      BY <1>17, StrikesOnlyAdd DEF Finalize, NoFault
    <2>2. UNCHANGED <<sent, dleft, dnow, dpc, exists>> /\ Present(g)
      BY <1>17 DEF Finalize, config, drive
    <2>3. PICK v \in [DOMAIN gout[g] -> Verdicts] :
            scenRow' = [s \in Scenarios |->
                CASE s \in DOMAIN v -> v[s]
                  [] s \in gswept[g] -> "SKIP"
                  [] OTHER -> scenRow[s]]
      BY <1>17 DEF Finalize
    <2>4. DOMAIN v = DOMAIN gout[g]
      OBVIOUS
    <2>5. \A s \in Scenarios : HasRow(s)' <=> HasRow(s)
      BY <2>2, <2>3, <2>4 DEF HasRow, Present, Verdicts
    <2>6. dleft \subseteq Scenarios /\ exists \subseteq Scenarios
      BY DEF TypeInv, TypeOK
    <2> QED
      BY <1>1, <2>1, <2>2, <2>5, <2>6, DriveUntouchedKeeps
  <1> QED
    BY <1>3, <1>4, <1>5, <1>6, <1>7, <1>8, <1>9, <1>10, <1>11, <1>12, <1>13, <1>14, <1>15,
       <1>16, <1>17 DEF Next, DriveStep, GradeStep

\* tasks.py: the drive, delivered again after a crash, sends again no more than
\* the conversation that crash cut off; no conversation goes out twice otherwise.
THEOREM SentOnceForEachCrash == Spec => []SentOncePerCrash
  <1>1. IInv /\ SentInv /\ [Next]_vars => SentInv'
    BY StepSent, StepType DEF IInv
  <1>2. SentInv => SentOncePerCrash
    BY DEF SentInv, SentBound, SentOncePerCrash, Started, Again
  <1> QED
    BY <1>1, <1>2, InitSent, Invariance, PTL DEF Spec
=============================================================================
