------------------------ MODULE SequentialPass_proof ------------------------
(***************************************************************************)
(* Theorems about SequentialPass, for every thread, set of metrics, number *)
(* of passes and mix of faults.                                            *)
(***************************************************************************)
EXTENDS SequentialPass, FiniteSetTheorems, TLAPS

-----------------------------------------------------------------------------
(* Type correctness                                                        *)

\* A strike leaves the fault record well typed.
LEMMA StrikeType ==
    ASSUME TypeOK, NEW kind, Strike(kind)
    PROVE  struck' \subseteq Faults /\ faults' \in Nat
  BY DEF TypeOK, StoresOK, Strike

\* So does a step that may or may not be a fault.
LEMMA NoFaultType ==
    ASSUME TypeOK, NoFault
    PROVE  struck' \subseteq Faults /\ faults' \in Nat
  BY DEF TypeOK, StoresOK, NoFault, faultVars

\* Inserting an element anywhere in a sequence gives a sequence.
LEMMA InsertType ==
    ASSUME NEW S, NEW s \in Seq(S), NEW e \in S, NEW k \in 1 .. Len(s) + 1
    PROVE  InsertAt(s, k, e) \in Seq(S)
  <1>1. SubSeq(s, 1, k - 1) \in Seq(S)
    OBVIOUS
  <1>2. SubSeq(s, k, Len(s)) \in Seq(S)
    OBVIOUS
  <1>3. <<e>> \in Seq(S)
    OBVIOUS
  <1> QED
    BY <1>1, <1>2, <1>3 DEF InsertAt

\* The empty stores and idle slots are well typed.
LEMMA InitType == Init => TypeOK
  <1> SUFFICES ASSUME Init PROVE TypeOK
    OBVIOUS
  <1>1. StoresOK
    BY ConstantsAssumption DEF Init, StoresOK, NoRow
  <1>2. LocalOK
    BY DEF Init, LocalOK, NoStarts, NoChain, PCs
  <1> QED
    BY <1>1, <1>2 DEF TypeOK

\* The local state of a pass that ends is that of an idle slot.
LEMMA EndType ==
    ASSUME LocalOK, NEW p \in Passes, End(p)
    PROVE  LocalOK'
  BY DEF LocalOK, End, Goto, NoStarts, NoChain, PCs

\* Going on or starting over, a pass's starts and payloads are well typed.
LEMMA StartsType ==
    ASSUME TypeOK, NEW p \in Passes, LoadStarts(p)
    PROVE  TypeOK'
  <1>1. PICK loaded \in BOOLEAN :
          /\ IF loaded THEN NoFault ELSE auto[p] /\ Strike("load_failed")
          /\ start' = [start EXCEPT ![p] = [m \in Metrics |->
                 IF m \in Continuing(p, Rows(p, loaded))
                 THEN Len(Rows(p, loaded)[m].turns) ELSE 0]]
          /\ chain' = [chain EXCEPT ![p] = [m \in Metrics |->
                 Seed(m \in Continuing(p, Rows(p, loaded)), Rows(p, loaded)[m])]]
          /\ todo' = [todo EXCEPT ![p] =
                 (names[p] \cap RunLevel) \ Continuing(p, Rows(p, loaded))]
          /\ got' = [got EXCEPT ![p] =
                 {m \in names[p] \ Continuing(p, Rows(p, loaded)) :
                     Rows(p, loaded)[m].turns # <<>> \/ ~auto[p]}]
    BY DEF LoadStarts
  <1> DEFINE rows == Rows(p, loaded)
  <1>2. rows \in [Metrics -> [turns : Seq(Turns), payload : Turns \cup {NoTurn}]]
    BY DEF Rows, NoRow, TypeOK, StoresOK
  <1>3. \A m \in Metrics : Len(rows[m].turns) \in Nat
    BY <1>2
  <1>4. \A m \in Metrics : Seed(m \in Continuing(p, rows), rows[m]) \in Turns \cup {NoTurn}
    BY <1>2 DEF Seed
  <1>5. names[p] \subseteq Metrics
    BY DEF TypeOK, LocalOK
  <1> HIDE DEF rows
  <1>6. start' \in [Passes -> [Metrics -> Nat]]
    BY <1>1, <1>3 DEF TypeOK, LocalOK, rows
  <1>7. chain' \in [Passes -> [Metrics -> Turns \cup {NoTurn}]]
    BY <1>1, <1>4 DEF TypeOK, LocalOK, rows
  <1>8. todo' \in [Passes -> SUBSET Metrics] /\ got' \in [Passes -> SUBSET Metrics]
    BY <1>1, <1>5 DEF TypeOK, LocalOK
  <1>9. struck' \subseteq Faults /\ faults' \in Nat
    BY <1>1, StrikeType, NoFaultType
  <1>10. pc' \in [Passes -> PCs] /\ at' \in [Passes -> Nat]
    BY DEF LoadStarts, TypeOK, LocalOK, Goto, PCs
  <1>11. StoresOK'
    BY <1>9 DEF LoadStarts, TypeOK, StoresOK, env, stores
  <1>12. LocalOK'
    BY <1>6, <1>7, <1>8, <1>10 DEF LoadStarts, TypeOK, LocalOK
  <1> QED
    BY <1>11, <1>12 DEF TypeOK

-----------------------------------------------------------------------------
(* A step keeps the types.  PassInv is needed where a turn is looked up.   *)

\* The turn a pass is at is one of the thread's.
LEMMA TurnType ==
    ASSUME TypeOK, PassInv, NEW p \in Passes, At(p, "grade")
    PROVE  Turn(p) \in Turns
  BY DEF TypeOK, LocalOK, PassInv, LoopInv, CursorInv, Looping, At, Turn

\* Every step of the environment or of a pass keeps the types.
LEMMA StepType == TypeOK /\ PassInv /\ [Next]_vars => TypeOK'
  <1> SUFFICES ASSUME TypeOK, PassInv, [Next]_vars PROVE TypeOK'
    OBVIOUS
  <1>0. StoresOK /\ LocalOK
    BY DEF TypeOK
  <1> USE DEF env, stores, faultVars, plan, work, Goto, PCs
  <1>1. ASSUME NEW t \in Turns, NEW k \in 1 .. Len(order) + 1, Arrive(t, k)
        PROVE  TypeOK'
    <2>1. order' \in Seq(Turns)
      BY <1>0, <1>1, InsertType DEF Arrive, StoresOK
    <2>2. due' \in Nat
      BY <1>0, <1>1 DEF Arrive, DueAfter, StoresOK
    <2> QED
      BY <1>0, <1>1, <2>1, <2>2 DEF Arrive, TypeOK, StoresOK, LocalOK
  <1>2. CASE Expire
    <2>1. StoresOK'
      BY <1>0, <1>2, StrikeType, NoFaultType DEF Expire, StoresOK
    <2>2. LocalOK'
      BY <1>0, <1>2 DEF Expire, LocalOK
    <2> QED
      BY <2>1, <2>2 DEF TypeOK
  <1>3. ASSUME NEW p \in Passes, BeginAuto(p) PROVE TypeOK'
    <2>1. StoresOK'
      BY <1>0, <1>3 DEF BeginAuto, StoresOK
    <2>2. LocalOK'
      BY <1>0, <1>3 DEF BeginAuto, Begin, LocalOK
    <2> QED
      BY <2>1, <2>2 DEF TypeOK
  <1>4. ASSUME NEW p \in Passes, NEW chosen \in SUBSET Metrics \ {{}}, BeginFull(p, chosen)
        PROVE  TypeOK'
    <2>1. StoresOK'
      BY <1>0, <1>4 DEF BeginFull, StoresOK
    <2>2. LocalOK'
      BY <1>0, <1>4 DEF BeginFull, Begin, LocalOK
    <2> QED
      BY <2>1, <2>2 DEF TypeOK
  <1>5. ASSUME NEW p \in Passes, Acquire(p) PROVE TypeOK'
    <2>1. StoresOK'
      BY <1>0, <1>5 DEF Acquire, StoresOK
    <2>2. LocalOK'
      BY <1>0, <1>5 DEF Acquire, LocalOK
    <2> QED
      BY <2>1, <2>2 DEF TypeOK
  <1>6. ASSUME NEW p \in Passes, ProceedUnlocked(p) PROVE TypeOK'
    <2>1. StoresOK'
      BY <1>0, <1>6, StrikeType DEF ProceedUnlocked, StoresOK
    <2>2. LocalOK'
      BY <1>0, <1>6 DEF ProceedUnlocked, LocalOK
    <2> QED
      BY <2>1, <2>2 DEF TypeOK
  <1>7. ASSUME NEW p \in Passes, ReadTurns(p) PROVE TypeOK'
    <2>1. StoresOK'
      BY <1>0, <1>7 DEF ReadTurns, StoresOK
    <2>2. LocalOK'
      BY <1>0, <1>7 DEF ReadTurns, LocalOK, StoresOK
    <2> QED
      BY <2>1, <2>2 DEF TypeOK
  <1>8. ASSUME NEW p \in Passes, LoadStarts(p) PROVE TypeOK'
    BY <1>8, StartsType
  <1>9. ASSUME NEW p \in Passes, NEW m \in Metrics, ResetChat(p, m) PROVE TypeOK'
    <2>1. chat' \in [Metrics -> Seq(Turns)]
      <3>1. chat' = Emptied(m) \/ chat' = chat
        BY <1>9 DEF ResetChat
      <3>2. Emptied(m) \in [Metrics -> Seq(Turns)]
        BY <1>0 DEF Emptied, StoresOK
      <3> QED
        BY <1>0, <3>1, <3>2 DEF StoresOK
    <2>2. struck' \subseteq Faults /\ faults' \in Nat
      BY <1>9, StrikeType, NoFaultType DEF ResetChat
    <2>3. StoresOK'
      BY <1>0, <1>9, <2>1, <2>2 DEF ResetChat, StoresOK
    <2>4. LocalOK'
      BY <1>0, <1>9 DEF ResetChat, LocalOK
    <2> QED
      BY <2>3, <2>4 DEF TypeOK
  <1>10. ASSUME NEW p \in Passes, ClearStale(p) PROVE TypeOK'
    <2>1. progress' \in [Metrics -> [turns : Seq(Turns), payload : Turns \cup {NoTurn}]]
      <3>1. \/ progress' = [n \in Metrics |-> IF n \in got[p] THEN NoRow ELSE progress[n]]
            \/ progress' = progress
        BY <1>10 DEF ClearStale
      <3>2. NoRow \in [turns : Seq(Turns), payload : Turns \cup {NoTurn}]
        BY DEF NoRow
      <3> QED
        BY <1>0, <3>1, <3>2 DEF StoresOK
    <2>2. struck' \subseteq Faults /\ faults' \in Nat
      BY <1>10, StrikeType, NoFaultType DEF ClearStale
    <2>3. StoresOK'
      BY <1>0, <1>10, <2>1, <2>2 DEF ClearStale, StoresOK
    <2>4. LocalOK'
      BY <1>0, <1>10 DEF ClearStale, LocalOK
    <2> QED
      BY <2>3, <2>4 DEF TypeOK
  <1>11. ASSUME NEW p \in Passes, NextTurn(p) PROVE TypeOK'
    <2>1. StoresOK'
      BY <1>0, <1>11 DEF NextTurn, StoresOK
    <2>2. at' \in [Passes -> Nat] /\ pc' \in [Passes -> PCs]
      <3>1. \/ at' = at
            \/ at' = [at EXCEPT ![p] = @ + 1]
        BY <1>11 DEF NextTurn
      <3>2. \/ pc' = pc
            \/ pc' = [pc EXCEPT ![p] = "release"]
            \/ pc' = [pc EXCEPT ![p] = "grade"]
        BY <1>11 DEF NextTurn
      <3>3. at \in [Passes -> Nat] /\ pc \in [Passes -> PCs]
        BY <1>0 DEF LocalOK
      <3>4. at' \in [Passes -> Nat]
        BY <3>1, <3>3
      <3>5. pc' \in [Passes -> PCs]
        BY <3>2, <3>3
      <3> QED
        BY <3>4, <3>5
    <2>3. todo' \in [Passes -> SUBSET Metrics]
      BY <1>0, <1>11 DEF NextTurn, Due, LocalOK
    <2>4. LocalOK'
      BY <1>0, <1>11, <2>2, <2>3 DEF NextTurn, LocalOK
    <2> QED
      BY <2>1, <2>4 DEF TypeOK
  <1>12. ASSUME NEW p \in Passes, NEW m \in Metrics, Grade(p, m) PROVE TypeOK'
    <2>1. Turn(p) \in Turns
      BY <1>12, TurnType DEF Grade
    <2>2. Told(p, m) \in [Metrics -> Seq(Turns)]
      BY <1>0, <2>1 DEF Told, StoresOK
    <2>3. chat' \in {chat, Told(p, m)}
      BY <1>12 DEF Grade, Judged, JudgeFailed
    <2>4. struck' \subseteq Faults /\ faults' \in Nat
      BY <1>12, StrikeType, NoFaultType DEF Grade, Judged, JudgeFailed, NoFault
    <2>5. got' \in [Passes -> SUBSET Metrics] /\ todo' \in [Passes -> SUBSET Metrics]
      <3>1. got' = got \/ got' = [got EXCEPT ![p] = @ \cup {m}]
        BY <1>12 DEF Grade, Judged, JudgeFailed
      <3>2. todo' = [todo EXCEPT ![p] = @ \ {m}]
        BY <1>12 DEF Grade
      <3>3. got \in [Passes -> SUBSET Metrics] /\ todo \in [Passes -> SUBSET Metrics]
        BY <1>0 DEF LocalOK
      <3>4. got' \in [Passes -> SUBSET Metrics]
        BY <3>1, <3>3
      <3>5. todo' \in [Passes -> SUBSET Metrics]
        BY <3>2, <3>3
      <3> QED
        BY <3>4, <3>5
    <2>6. StoresOK'
      BY <1>0, <1>12, <2>2, <2>3, <2>4 DEF Grade, StoresOK
    <2>7. LocalOK'
      BY <1>0, <1>12, <2>5 DEF Grade, LocalOK
    <2> QED
      BY <2>6, <2>7 DEF TypeOK
  <1>13. ASSUME NEW p \in Passes, WriteScores(p) PROVE TypeOK'
    <2>1. Turn(p) \in Turns
      BY <1>13, TurnType DEF WriteScores
    <2>2. scored' \in [Metrics -> SUBSET Turns]
      BY <1>0, <1>13, <2>1 DEF WriteScores, StoresOK
    <2>3. chain' \in [Passes -> [Metrics -> Turns \cup {NoTurn}]]
      BY <1>0, <1>13, <2>1 DEF WriteScores, LocalOK
    <2>4. todo' \in [Passes -> SUBSET Metrics] /\ got' \in [Passes -> SUBSET Metrics]
      BY <1>0, <1>13 DEF WriteScores, Due, LocalOK
    <2>5. StoresOK'
      BY <1>0, <1>13, <2>2 DEF WriteScores, StoresOK
    <2>6. LocalOK'
      BY <1>0, <1>13, <2>3, <2>4 DEF WriteScores, LocalOK
    <2> QED
      BY <2>5, <2>6 DEF TypeOK
  <1>14. ASSUME NEW p \in Passes, NEW m \in Metrics, Record(p, m) PROVE TypeOK'
    <2>1. RowUpTo(p, m) \in [turns : Seq(Turns), payload : Turns \cup {NoTurn}]
      <3>1. at[p] \in 1 .. Len(view[p]) /\ view[p] \in Seq(Turns)
        BY <1>0, <1>14 DEF Record, At, PassInv, LoopInv, CursorInv, Looping, LocalOK
      <3>2. SubSeq(view[p], 1, at[p]) \in Seq(Turns)
        BY <3>1
      <3> QED
        BY <1>0, <3>2 DEF RowUpTo, LocalOK
    <2>2. progress' \in [Metrics -> [turns : Seq(Turns), payload : Turns \cup {NoTurn}]]
      BY <1>0, <1>14, <2>1 DEF Record, StoresOK
    <2>3. struck' \subseteq Faults /\ faults' \in Nat
      BY <1>14, StrikeType, NoFaultType DEF Record
    <2>4. StoresOK'
      BY <1>0, <1>14, <2>2, <2>3 DEF Record, StoresOK
    <2>5. LocalOK'
      <3>1. \/ todo' = [todo EXCEPT ![p] = @ \ {m}]
            \/ todo' = [todo EXCEPT ![p] = {}]
        BY <1>14 DEF Record
      <3>2. todo \in [Passes -> SUBSET Metrics]
        BY <1>0 DEF LocalOK
      <3>3. todo' \in [Passes -> SUBSET Metrics]
        BY <3>1, <3>2
      <3> QED
        BY <1>0, <1>14, <3>3 DEF Record, LocalOK
    <2> QED
      BY <2>4, <2>5 DEF TypeOK
  <1>15. ASSUME NEW p \in Passes, Recorded(p) PROVE TypeOK'
    <2>1. StoresOK'
      BY <1>0, <1>15 DEF Recorded, StoresOK
    <2>2. LocalOK'
      BY <1>0, <1>15 DEF Recorded, LocalOK
    <2> QED
      BY <2>1, <2>2 DEF TypeOK
  <1>16. ASSUME NEW p \in Passes, Release(p) PROVE TypeOK'
    <2>1. struck' \subseteq Faults /\ faults' \in Nat
      BY <1>16, StrikeType, NoFaultType DEF Release
    <2>2. StoresOK'
      BY <1>0, <1>16, <2>1 DEF Release, Released, StoresOK
    <2>3. LocalOK'
      BY <1>0, <1>16, EndType DEF Release
    <2> QED
      BY <2>2, <2>3 DEF TypeOK
  <1>17. ASSUME NEW p \in Passes, Raise(p) PROVE TypeOK'
    <2>1. StoresOK'
      BY <1>0, <1>17, StrikeType DEF Raise, Released, Requeued, StoresOK
    <2>2. LocalOK'
      BY <1>0, <1>17, EndType DEF Raise
    <2> QED
      BY <2>1, <2>2 DEF TypeOK
  <1>18. ASSUME NEW p \in Passes, Crash(p) PROVE TypeOK'
    <2>1. StoresOK'
      BY <1>0, <1>18, StrikeType DEF Crash, Requeued, StoresOK
    <2>2. LocalOK'
      BY <1>0, <1>18, EndType DEF Crash
    <2> QED
      BY <2>1, <2>2 DEF TypeOK
  <1>19. CASE UNCHANGED vars
    BY <1>0, <1>19 DEF vars, TypeOK, StoresOK, LocalOK
  <1> QED
    BY <1>1, <1>2, <1>3, <1>4, <1>5, <1>6, <1>7, <1>8, <1>9, <1>10, <1>11, <1>12,
       <1>13, <1>14, <1>15, <1>16, <1>17, <1>18, <1>19 DEF Next, Step

-----------------------------------------------------------------------------
(* Who may change what                                                     *)

\* Everything a pass that is mid-way can do.
PassStep(p) ==
    \/ BeginAuto(p)
    \/ \E chosen \in SUBSET Metrics \ {{}} : BeginFull(p, chosen)
    \/ Step(p)
    \/ Raise(p)
    \/ Crash(p)

\* The local state of a pass stays as it is.
Undisturbed(q) ==
    /\ pc'[q] = pc[q] /\ names'[q] = names[q] /\ view'[q] = view[q]
    /\ start'[q] = start[q] /\ at'[q] = at[q] /\ todo'[q] = todo[q]
    /\ got'[q] = got[q] /\ chain'[q] = chain[q]

\* A step of one pass leaves the local state of the others alone.
LEMMA OthersUndisturbed ==
    ASSUME TypeOK, NEW p \in Passes, NEW q \in Passes \ {p}, PassStep(p)
    PROVE  Undisturbed(q)
  <1>0. LocalOK
    BY DEF TypeOK
  <1> USE DEF env, stores, faultVars, plan, work, Goto, LocalOK, Undisturbed
  <1>1. CASE BeginAuto(p)
    BY <1>0, <1>1 DEF BeginAuto, Begin
  <1>2. ASSUME NEW chosen \in SUBSET Metrics \ {{}}, BeginFull(p, chosen)
        PROVE  Undisturbed(q)
    BY <1>0, <1>2 DEF BeginFull, Begin
  <1>3. CASE Acquire(p)
    BY <1>0, <1>3 DEF Acquire
  <1>4. CASE ProceedUnlocked(p)
    BY <1>0, <1>4 DEF ProceedUnlocked
  <1>5. CASE ReadTurns(p)
    BY <1>0, <1>5 DEF ReadTurns
  <1>6. CASE LoadStarts(p)
    BY <1>0, <1>6 DEF LoadStarts
  <1>7. ASSUME NEW m \in Metrics, ResetChat(p, m) PROVE Undisturbed(q)
    BY <1>0, <1>7 DEF ResetChat
  <1>8. ASSUME NEW m \in Metrics, Grade(p, m) PROVE Undisturbed(q)
    <2>1. got'[q] = got[q]
      BY <1>0, <1>8 DEF Grade, Judged, JudgeFailed
    <2> QED
      BY <1>0, <1>8, <2>1 DEF Grade
  <1>9. ASSUME NEW m \in Metrics, Record(p, m) PROVE Undisturbed(q)
    <2>1. todo'[q] = todo[q]
      BY <1>0, <1>9 DEF Record
    <2> QED
      BY <1>0, <1>9, <2>1 DEF Record
  <1>10. CASE ClearStale(p)
    BY <1>0, <1>10 DEF ClearStale
  <1>11. CASE NextTurn(p)
    <2>1. pc'[q] = pc[q] /\ at'[q] = at[q] /\ todo'[q] = todo[q]
      BY <1>0, <1>11 DEF NextTurn
    <2> QED
      BY <1>0, <1>11, <2>1 DEF NextTurn
  <1>12. CASE WriteScores(p)
    BY <1>0, <1>12 DEF WriteScores
  <1>13. CASE Recorded(p)
    BY <1>0, <1>13 DEF Recorded
  <1>14. CASE Release(p) \/ Raise(p) \/ Crash(p)
    <2>1. End(p)
      BY <1>14 DEF Release, Raise, Crash
    <2> QED
      BY <1>0, <2>1 DEF End
  <1> QED
    BY <1>1, <1>2, <1>3, <1>4, <1>5, <1>6, <1>7, <1>8, <1>9, <1>10, <1>11, <1>12,
       <1>13, <1>14 DEF PassStep, Step

\* Scores are never taken back and a fault that struck is not forgotten.
Grown ==
    /\ struck \subseteq struck'
    /\ \A m \in Metrics : scored[m] \subseteq scored'[m]

LEMMA Grows == TypeOK /\ [Next]_vars => Grown
  <1> SUFFICES ASSUME TypeOK, [Next]_vars PROVE Grown
    OBVIOUS
  <1>0. StoresOK
    BY DEF TypeOK
  <1>1. struck \subseteq struck'
    <2>1. ASSUME NEW kind, Strike(kind) PROVE struck \subseteq struck'
      BY <2>1 DEF Strike
    <2>2. CASE NoFault
      BY <2>2 DEF NoFault, faultVars
    <2>3. CASE \E t \in Turns : \E k \in 1 .. Len(order) + 1 : Arrive(t, k)
      BY <2>2, <2>3 DEF Arrive, NoFault
    <2>4. CASE Expire
      BY <2>1, <2>2, <2>4 DEF Expire
    <2>5. ASSUME NEW p \in Passes, PassStep(p) PROVE struck \subseteq struck'
      <3>1. CASE BeginAuto(p) \/ \E chosen \in SUBSET Metrics \ {{}} : BeginFull(p, chosen)
        BY <2>2, <3>1 DEF BeginAuto, BeginFull, NoFault
      <3>2. CASE Acquire(p) \/ ReadTurns(p) \/ NextTurn(p) \/ WriteScores(p) \/ Recorded(p)
        BY <2>2, <3>2 DEF Acquire, ReadTurns, NextTurn, WriteScores, Recorded, NoFault
      <3>3. CASE ProceedUnlocked(p) \/ Release(p) \/ Raise(p) \/ Crash(p)
        BY <2>1, <2>2, <3>3 DEF ProceedUnlocked, Release, Raise, Crash
      <3>4. CASE LoadStarts(p) \/ ClearStale(p)
        BY <2>1, <2>2, <3>4 DEF LoadStarts, ClearStale
      <3>5. ASSUME NEW m \in Metrics, ResetChat(p, m) \/ Record(p, m)
            PROVE  struck \subseteq struck'
        BY <2>1, <2>2, <3>5 DEF ResetChat, Record
      <3>6. ASSUME NEW m \in Metrics, Grade(p, m) PROVE struck \subseteq struck'
        BY <2>1, <2>2, <3>6 DEF Grade, Judged, JudgeFailed, NoFault
      <3> QED
        BY <2>5, <3>1, <3>2, <3>3, <3>4, <3>5, <3>6 DEF PassStep, Step
    <2>6. CASE UNCHANGED vars
      BY <2>2, <2>6 DEF vars, NoFault
    <2> QED
      BY <2>3, <2>4, <2>5, <2>6 DEF Next, PassStep
  <1>2. \/ scored' = scored
        \/ \E p \in Passes : WriteScores(p)
    BY DEF Next, Step, vars, stores, Arrive, Expire, BeginAuto,
           BeginFull, Acquire, ProceedUnlocked, ReadTurns, LoadStarts, ResetChat,
           ClearStale, NextTurn, Grade, Record, Recorded, Release, Raise, Crash
  <1>3. ASSUME NEW p \in Passes, WriteScores(p), NEW m \in Metrics
        PROVE  scored[m] \subseteq scored'[m]
    BY <1>0, <1>3 DEF WriteScores, StoresOK
  <1> QED
    BY <1>1, <1>2, <1>3 DEF Grown

\* What holds of a pass's loop goes on holding while the pass stands still.
LEMMA Frame ==
    ASSUME TypeOK, NEW q \in Passes, Looping(q) => LoopInv(q), Undisturbed(q), Grown
    PROVE  (Looping(q) => LoopInv(q))'
  <1> SUFFICES ASSUME Looping(q)' PROVE LoopInv(q)'
    OBVIOUS
  <1>0. LoopInv(q)
    BY DEF Looping, Undisturbed
  <1>1. Due(q)' = Due(q) /\ Turn(q)' = Turn(q)
    BY DEF Due, Turn, Undisturbed
  <1>2. At(q, "grade")' = At(q, "grade")
    BY DEF At, Undisturbed
  <1>3. ASSUME NEW m, NEW j PROVE Dealt(q, m, j)' <=> Dealt(q, m, j)
    BY DEF Dealt, At, Undisturbed
  <1>4. Struck({"judge_failed"}) => Struck({"judge_failed"})'
    BY DEF Struck, Grown
  <1>5. CursorInv(q)'
    BY <1>0, <1>1 DEF LoopInv, CursorInv, Undisturbed
  <1>6. ChainInv(q)'
    BY <1>0, <1>3 DEF LoopInv, ChainInv, Undisturbed
  <1>7. ScoredInv(q)'
    <2>1. names[q] \subseteq Metrics
      BY DEF TypeOK, LocalOK
    <2> QED
      BY <1>0, <1>3, <1>4, <2>1 DEF LoopInv, ScoredInv, Undisturbed, Grown
  <1>8. JudgedInv(q)'
    BY <1>0, <1>1, <1>2, <1>4 DEF LoopInv, JudgedInv, Undisturbed
  <1> QED
    BY <1>5, <1>6, <1>7, <1>8 DEF LoopInv

-----------------------------------------------------------------------------
(* Each step of the loop keeps LoopInv of its own pass.                    *)

\* What the rows promise of one another's payloads and scores.
RowsInv == PayloadFromRecordedTurn /\ NoTurnRecordedUngraded

\* Going on from a row: the turns skipped are those the row records, so the
\* payload is about one of them and each has its score.
LEMMA LoadStartsLoop ==
    ASSUME TypeOK, RowsInv, NEW p \in Passes, LoadStarts(p)
    PROVE  LoopInv(p)'
  <1>1. PICK loaded \in BOOLEAN :
          /\ start' = [start EXCEPT ![p] = [m \in Metrics |->
                 IF m \in Continuing(p, Rows(p, loaded))
                 THEN Len(Rows(p, loaded)[m].turns) ELSE 0]]
          /\ chain' = [chain EXCEPT ![p] = [m \in Metrics |->
                 Seed(m \in Continuing(p, Rows(p, loaded)), Rows(p, loaded)[m])]]
          /\ struck \subseteq struck'
    BY DEF LoadStarts, NoFault, faultVars, Strike
  <1> DEFINE rows == Rows(p, loaded)
             goesOn == Continuing(p, rows)
  <1>2. /\ pc' = [pc EXCEPT ![p] = "reset"] /\ at' = [at EXCEPT ![p] = 1]
        /\ view' = view /\ names' = names /\ scored' = scored
    BY DEF LoadStarts, Goto, stores
  <1>3. /\ pc \in [Passes -> PCs] /\ at \in [Passes -> Nat]
        /\ view \in [Passes -> Seq(Turns)] /\ names \in [Passes -> SUBSET Metrics]
        /\ start \in [Passes -> [Metrics -> Nat]]
        /\ chain \in [Passes -> [Metrics -> Turns \cup {NoTurn}]]
        /\ progress \in [Metrics -> [turns : Seq(Turns), payload : Turns \cup {NoTurn}]]
    BY DEF TypeOK, LocalOK, StoresOK
  <1>4. pc'[p] = "reset" /\ at'[p] = 1
    BY <1>2, <1>3
  <1>5. ASSUME NEW m \in Metrics, m \in goesOn
        PROVE  /\ rows[m] = progress[m]
               /\ Len(progress[m].turns) <= Len(view[p])
               /\ \A j \in 1 .. Len(progress[m].turns) : view[p][j] = progress[m].turns[j]
    <2>1. rows[m].turns # <<>> /\ IsPrefix(rows[m].turns, view[p])
      BY <1>5 DEF Continuing, Continues
    <2>2. rows[m] = progress[m]
      BY <2>1 DEF Rows, NoRow
    <2>3. progress[m].turns \in Seq(Turns) /\ view[p] \in Seq(Turns)
      BY <1>3
    <2>4. /\ Len(progress[m].turns) <= Len(view[p])
          /\ SubSeq(progress[m].turns, 1, Len(progress[m].turns))
                = SubSeq(view[p], 1, Len(progress[m].turns))
      BY <2>1, <2>2 DEF IsPrefix
    <2>5. ASSUME NEW j \in 1 .. Len(progress[m].turns)
          PROVE  view[p][j] = progress[m].turns[j]
      BY <2>3, <2>4
    <2> QED
      BY <2>2, <2>4, <2>5
  <1>6. ASSUME NEW m \in Metrics
        PROVE  /\ start'[p][m] = IF m \in goesOn THEN Len(progress[m].turns) ELSE 0
               /\ chain'[p][m] = IF m \in goesOn THEN progress[m].payload ELSE NoTurn
    BY <1>1, <1>3, <1>5 DEF Seed
  <1> HIDE DEF goesOn
  <1>7. ASSUME NEW m \in Metrics, NEW j \in 1 .. Len(view[p])
        PROVE  Dealt(p, m, j)' <=> m \in goesOn /\ j <= Len(progress[m].turns)
    BY <1>3, <1>4, <1>6 DEF Dealt, At
  <1>8. CursorInv(p)'
    BY <1>4 DEF CursorInv
  <1>9. ChainInv(p)'
    <2> SUFFICES ASSUME NEW m \in Metrics, chain'[p][m] # NoTurn
                 PROVE  \E j \in 1 .. Len(view[p]) :
                            Dealt(p, m, j)' /\ view[p][j] = chain'[p][m]
      BY <1>2 DEF ChainInv
    <2>1. m \in goesOn /\ chain'[p][m] = progress[m].payload
      BY <1>6
    <2>2. progress[m].payload \in ToSet(progress[m].turns)
      BY <2>1 DEF RowsInv, PayloadFromRecordedTurn
    <2>3. progress[m].turns \in Seq(Turns)
      BY <1>3
    <2>4. PICK j \in 1 .. Len(progress[m].turns) :
              progress[m].turns[j] = progress[m].payload
      BY <2>2, <2>3 DEF ToSet
    <2>5. j \in 1 .. Len(view[p]) /\ view[p][j] = chain'[p][m]
      BY <1>3, <1>5, <2>1, <2>3, <2>4
    <2> QED
      BY <1>7, <2>1, <2>4, <2>5
  <1>10. ScoredInv(p)'
    <2> SUFFICES ASSUME ~Struck({"judge_failed"})', NEW m \in names[p],
                        NEW j \in 1 .. Len(view[p]),
                        Dealt(p, m, j)', view[p][j] \in Sampled[m]
                 PROVE  view[p][j] \in scored[m]
      BY <1>2 DEF ScoredInv
    <2>1. m \in Metrics
      BY <1>3
    <2>2. m \in goesOn /\ j \in 1 .. Len(progress[m].turns)
      BY <1>3, <1>7, <2>1
    <2>3. view[p][j] \in ToSet(progress[m].turns)
      <3>1. view[p][j] = progress[m].turns[j] /\ progress[m].turns \in Seq(Turns)
        BY <1>3, <1>5, <2>1, <2>2
      <3> QED
        BY <2>2, <3>1 DEF ToSet
    <2>4. ~Struck({"judge_failed"})
      BY <1>1 DEF Struck
    <2> QED
      BY <2>1, <2>3, <2>4 DEF RowsInv, NoTurnRecordedUngraded
  <1>11. JudgedInv(p)'
    BY <1>4 DEF JudgedInv, At
  <1> QED
    BY <1>8, <1>9, <1>10, <1>11 DEF LoopInv

\* Resetting a chat concerns none of this.
LEMMA ResetChatLoop ==
    ASSUME TypeOK, NEW p \in Passes, NEW m \in Metrics, ResetChat(p, m), LoopInv(p), Grown
    PROVE  LoopInv(p)'
  <1>1. /\ pc[p] = "reset" /\ UNCHANGED <<pc, names, view, start, at, got, chain, scored>>
    BY DEF ResetChat, At, plan
  <1>2. \A n, j : Dealt(p, n, j)' <=> Dealt(p, n, j)
    BY <1>1 DEF Dealt, At
  <1>3. CursorInv(p)'
    BY <1>1 DEF LoopInv, CursorInv
  <1>4. ChainInv(p)'
    BY <1>1, <1>2 DEF LoopInv, ChainInv
  <1>5. ScoredInv(p)'
    BY <1>1, <1>2 DEF LoopInv, ScoredInv, Struck, Grown
  <1>6. JudgedInv(p)'
    BY <1>1 DEF JudgedInv, At
  <1> QED
    BY <1>3, <1>4, <1>5, <1>6 DEF LoopInv

\* Nor does clearing the stale rows.
LEMMA ClearStaleLoop ==
    ASSUME TypeOK, NEW p \in Passes, ClearStale(p), LoopInv(p), Grown
    PROVE  LoopInv(p)'
  <1>1. /\ pc[p] = "reset" /\ pc' = [pc EXCEPT ![p] = "turn"]
        /\ UNCHANGED <<names, view, start, at, todo, chain, scored>>
    BY DEF ClearStale, At, Goto, plan
  <1>2. pc'[p] = "turn"
    BY <1>1 DEF TypeOK, LocalOK
  <1>3. \A n, j : Dealt(p, n, j)' <=> Dealt(p, n, j)
    BY <1>1, <1>2 DEF Dealt, At
  <1>4. CursorInv(p)'
    BY <1>1, <1>2 DEF LoopInv, CursorInv
  <1>5. ChainInv(p)'
    BY <1>1, <1>3 DEF LoopInv, ChainInv
  <1>6. ScoredInv(p)'
    BY <1>1, <1>3 DEF LoopInv, ScoredInv, Struck, Grown
  <1>7. JudgedInv(p)'
    BY <1>2 DEF JudgedInv, At
  <1> QED
    BY <1>4, <1>5, <1>6, <1>7 DEF LoopInv

\* A turn is left behind only when no metric of the pass is due at it.
LEMMA NextTurnLoop ==
    ASSUME TypeOK, NEW p \in Passes, NextTurn(p), LoopInv(p), Grown, Looping(p)'
    PROVE  LoopInv(p)'
  <1>1. /\ pc[p] = "turn" /\ UNCHANGED <<names, view, start, got, chain, scored>>
    BY DEF NextTurn, At, plan, stores
  <1>2. /\ pc \in [Passes -> PCs] /\ at \in [Passes -> Nat]
        /\ todo \in [Passes -> SUBSET Metrics] /\ names \in [Passes -> SUBSET Metrics]
        /\ start \in [Passes -> [Metrics -> Nat]]
        /\ view \in [Passes -> Seq(Turns)]
    BY DEF TypeOK, LocalOK
  <1>3. at[p] >= 1 /\ ChainInv(p) /\ ScoredInv(p)
    BY DEF LoopInv, CursorInv
  <1>4. Struck({"judge_failed"}) => Struck({"judge_failed"})'
    BY DEF Struck, Grown
  <1>5. CASE at[p] > Len(view[p]) /\ Goto(p, "release")
    BY <1>2, <1>5 DEF Looping, Goto
  <1>6. CASE /\ at[p] <= Len(view[p]) /\ Due(p) = {}
             /\ at' = [at EXCEPT ![p] = @ + 1]
             /\ UNCHANGED <<pc, todo>>
    <2>1. at'[p] = at[p] + 1 /\ pc'[p] = "turn"
      BY <1>1, <1>2, <1>6
    <2>2. \A m \in Metrics, j \in Nat : Dealt(p, m, j) => Dealt(p, m, j)'
      BY <1>1, <1>2, <2>1 DEF Dealt, At
    <2>3. \A m \in names[p], j \in Nat : Dealt(p, m, j)' => Dealt(p, m, j)
      <3> SUFFICES ASSUME NEW m \in names[p], NEW j \in Nat, Dealt(p, m, j)'
                   PROVE  Dealt(p, m, j)
        OBVIOUS
      <3>1. m \in Metrics /\ start[p][m] \in Nat /\ at[p] \in Nat
        BY <1>2
      <3>2. at[p] <= start[p][m]
        BY <1>6, <3>1 DEF Due
      <3> QED
        BY <1>1, <2>1, <3>1, <3>2 DEF Dealt, At
    <2>4. CursorInv(p)'
      BY <1>2, <1>3, <2>1 DEF CursorInv
    <2>5. ChainInv(p)'
      BY <1>1, <1>3, <2>2 DEF ChainInv
    <2>6. ScoredInv(p)'
      BY <1>1, <1>3, <1>4, <2>3 DEF ScoredInv
    <2>7. JudgedInv(p)'
      BY <2>1 DEF JudgedInv, At
    <2> QED
      BY <2>4, <2>5, <2>6, <2>7 DEF LoopInv
  <1>7. CASE /\ at[p] <= Len(view[p]) /\ Due(p) # {}
             /\ todo' = [todo EXCEPT ![p] = Due(p)]
             /\ Goto(p, "grade")
             /\ UNCHANGED at
    <2>1. at'[p] = at[p] /\ pc'[p] = "grade" /\ todo'[p] = Due(p) /\ Due(p)' = Due(p)
      BY <1>1, <1>2, <1>7 DEF Goto, Due
    <2>2. \A m, j : Dealt(p, m, j)' <=> Dealt(p, m, j)
      BY <1>1, <2>1 DEF Dealt, At
    <2>3. CursorInv(p)'
      BY <1>1, <1>3, <1>7, <2>1 DEF CursorInv
    <2>4. ChainInv(p)'
      BY <1>1, <1>3, <2>2 DEF ChainInv
    <2>5. ScoredInv(p)'
      BY <1>1, <1>3, <1>4, <2>2 DEF ScoredInv
    <2>6. JudgedInv(p)'
      BY <2>1 DEF JudgedInv
    <2> QED
      BY <2>3, <2>4, <2>5, <2>6 DEF LoopInv
  <1> QED
    BY <1>5, <1>6, <1>7 DEF NextTurn

\* A due metric that samples the turn gets a result, unless its judge raises.
LEMMA GradeLoop ==
    ASSUME TypeOK, NEW p \in Passes, NEW m \in Metrics, Grade(p, m), LoopInv(p), Grown
    PROVE  LoopInv(p)'
  <1>1. /\ pc[p] = "grade" /\ UNCHANGED <<pc, names, view, start, at, chain, scored>>
        /\ todo' = [todo EXCEPT ![p] = @ \ {m}]
    BY DEF Grade, At, plan
  <1>2. todo \in [Passes -> SUBSET Metrics] /\ got \in [Passes -> SUBSET Metrics]
    BY DEF TypeOK, LocalOK
  <1>3. todo'[p] = todo[p] \ {m} /\ Due(p)' = Due(p) /\ Turn(p)' = Turn(p)
    BY <1>1, <1>2 DEF Due, Turn
  <1>4. \A n, j : Dealt(p, n, j)' <=> Dealt(p, n, j)
    BY <1>1 DEF Dealt, At
  <1>5. CursorInv(p)'
    BY <1>1, <1>3 DEF LoopInv, CursorInv
  <1>6. ChainInv(p)'
    BY <1>1, <1>4 DEF LoopInv, ChainInv
  <1>7. ScoredInv(p)'
    BY <1>1, <1>4 DEF LoopInv, ScoredInv, Struck, Grown
  <1>8. JudgedInv(p)'
    <2>1. SUFFICES ASSUME ~Struck({"judge_failed"})', NEW n \in Due(p) \ todo'[p],
                          Turn(p) \in Sampled[n]
                   PROVE  n \in got'[p]
      BY <1>3 DEF JudgedInv
    <2>2. got'[p] = got[p] \/ got'[p] = got[p] \cup {m}
      BY <1>2 DEF Grade, Judged, JudgeFailed
    <2>3. CASE n # m
      <3>1. n \in Due(p) \ todo[p]
        BY <1>3, <2>3
      <3>2. ~Struck({"judge_failed"}) /\ At(p, "grade")
        BY <1>1, <2>1 DEF Struck, Grown, At
      <3>3. n \in got[p]
        BY <2>1, <3>1, <3>2 DEF LoopInv, JudgedInv
      <3> QED
        BY <2>2, <3>3
    <2>4. CASE n = m
      <3>1. Judged(p, m) \/ JudgeFailed(p, m)
        BY <2>1, <2>4 DEF Grade
      <3>2. ~JudgeFailed(p, m)
        BY <2>1 DEF JudgeFailed, Strike, Struck
      <3>3. got' = [got EXCEPT ![p] = @ \cup {m}]
        BY <3>1, <3>2 DEF Judged
      <3> QED
        BY <1>2, <2>4, <3>3
    <2> QED
      BY <2>3, <2>4
  <1> QED
    BY <1>5, <1>6, <1>7, <1>8 DEF LoopInv

\* Once the scores are written the current turn is dealt with.
LEMMA WriteScoresLoop ==
    ASSUME TypeOK, NEW p \in Passes, WriteScores(p), LoopInv(p), Grown
    PROVE  LoopInv(p)'
  <1>1. /\ pc[p] = "grade" /\ todo[p] = {}
        /\ UNCHANGED <<names, view, start, at>>
        /\ scored' = [m \in Metrics |->
                IF m \in got[p] THEN scored[m] \cup {Turn(p)} ELSE scored[m]]
        /\ chain' = [chain EXCEPT ![p] =
                [m \in Metrics |-> IF m \in got[p] THEN Turn(p) ELSE chain[p][m]]]
        /\ todo' = [todo EXCEPT ![p] = Due(p)]
        /\ pc' = [pc EXCEPT ![p] = "record"]
    BY DEF WriteScores, At, plan, Goto
  <1>2. /\ pc \in [Passes -> PCs] /\ at \in [Passes -> Nat]
        /\ todo \in [Passes -> SUBSET Metrics] /\ names \in [Passes -> SUBSET Metrics]
        /\ start \in [Passes -> [Metrics -> Nat]]
        /\ chain \in [Passes -> [Metrics -> Turns \cup {NoTurn}]]
        /\ view \in [Passes -> Seq(Turns)]
    BY DEF TypeOK, LocalOK
  <1>3. /\ pc'[p] = "record" /\ todo'[p] = Due(p) /\ Due(p)' = Due(p)
        /\ \A m \in Metrics :
              chain'[p][m] = IF m \in got[p] THEN Turn(p) ELSE chain[p][m]
    BY <1>1, <1>2 DEF Due
  <1>4. at[p] \in 1 .. Len(view[p]) /\ Turn(p) = view[p][at[p]]
    BY <1>1, <1>2 DEF LoopInv, CursorInv, Turn
  <1>5. \A m \in Metrics, j \in Nat : Dealt(p, m, j)' <=> Dealt(p, m, j) \/ j = at[p]
    BY <1>1, <1>2, <1>3 DEF Dealt, At
  <1>6. CursorInv(p)'
    BY <1>1, <1>3, <1>4 DEF CursorInv
  <1>7. ChainInv(p)'
    <2> SUFFICES ASSUME NEW m \in Metrics, chain'[p][m] # NoTurn
                 PROVE  \E j \in 1 .. Len(view[p]) :
                            Dealt(p, m, j)' /\ view[p][j] = chain'[p][m]
      BY <1>1 DEF ChainInv
    <2>1. CASE m \in got[p]
      BY <1>3, <1>4, <1>5, <2>1
    <2>2. CASE m \notin got[p]
      BY <1>3, <1>5, <2>2 DEF LoopInv, ChainInv
    <2> QED
      BY <2>1, <2>2
  <1>8. ScoredInv(p)'
    <2> SUFFICES ASSUME ~Struck({"judge_failed"})', NEW m \in names[p],
                        NEW j \in 1 .. Len(view[p]),
                        Dealt(p, m, j)', view[p][j] \in Sampled[m]
                 PROVE  view[p][j] \in scored'[m]
      BY <1>1 DEF ScoredInv
    <2>1. m \in Metrics /\ ~Struck({"judge_failed"})
      BY <1>2 DEF Struck, Grown
    <2>2. CASE Dealt(p, m, j)
      BY <2>1, <2>2 DEF LoopInv, ScoredInv, Grown
    <2>3. CASE j = at[p] /\ ~Dealt(p, m, j)
      <3>1. m \in Due(p) \ todo[p]
        BY <1>1, <1>2, <2>1, <2>3 DEF Due, Dealt
      <3>2. m \in got[p]
        BY <1>1, <1>4, <2>1, <2>3, <3>1 DEF LoopInv, JudgedInv, At
      <3> QED
        BY <1>1, <1>4, <2>1, <2>3, <3>2
    <2> QED
      BY <1>5, <2>1, <2>2, <2>3
  <1>9. JudgedInv(p)'
    BY <1>3 DEF JudgedInv, At
  <1> QED
    BY <1>6, <1>7, <1>8, <1>9 DEF LoopInv

\* Writing a row changes nothing the loop relies on.
LEMMA RecordLoop ==
    ASSUME TypeOK, NEW p \in Passes, NEW m \in Metrics, Record(p, m), LoopInv(p), Grown
    PROVE  LoopInv(p)'
  <1>1. pc[p] = "record" /\ UNCHANGED <<pc, names, view, start, at, got, chain, scored>>
    BY DEF Record, At, plan
  <1>2. todo'[p] \subseteq todo[p]
    BY DEF Record, TypeOK, LocalOK
  <1>3. Due(p)' = Due(p)
    BY <1>1 DEF Due
  <1>4. \A n, j : Dealt(p, n, j)' <=> Dealt(p, n, j)
    BY <1>1 DEF Dealt, At
  <1>5. CursorInv(p)'
    BY <1>1, <1>2, <1>3 DEF LoopInv, CursorInv
  <1>6. ChainInv(p)'
    BY <1>1, <1>4 DEF LoopInv, ChainInv
  <1>7. ScoredInv(p)'
    BY <1>1, <1>4 DEF LoopInv, ScoredInv, Struck, Grown
  <1>8. JudgedInv(p)'
    BY <1>1 DEF JudgedInv, At
  <1> QED
    BY <1>5, <1>6, <1>7, <1>8 DEF LoopInv

\* After the rows, the current turn is one left behind.
LEMMA RecordedLoop ==
    ASSUME TypeOK, NEW p \in Passes, Recorded(p), LoopInv(p), Grown
    PROVE  LoopInv(p)'
  <1>1. /\ pc[p] = "record" /\ pc' = [pc EXCEPT ![p] = "turn"]
        /\ at' = [at EXCEPT ![p] = @ + 1]
        /\ UNCHANGED <<names, view, start, todo, got, chain, scored>>
    BY DEF Recorded, At, Goto, plan, stores
  <1>2. /\ pc \in [Passes -> PCs] /\ at \in [Passes -> Nat]
        /\ names \in [Passes -> SUBSET Metrics]
        /\ start \in [Passes -> [Metrics -> Nat]]
        /\ view \in [Passes -> Seq(Turns)]
    BY DEF TypeOK, LocalOK
  <1>3. pc'[p] = "turn" /\ at'[p] = at[p] + 1 /\ at[p] >= 1
    BY <1>1, <1>2 DEF LoopInv, CursorInv
  <1>4. \A m \in Metrics, j \in Nat : Dealt(p, m, j)' <=> Dealt(p, m, j)
    BY <1>1, <1>2, <1>3 DEF Dealt, At
  <1>5. CursorInv(p)'
    BY <1>2, <1>3 DEF CursorInv
  <1>6. ChainInv(p)'
    BY <1>1, <1>4 DEF LoopInv, ChainInv
  <1>7. ScoredInv(p)'
    BY <1>1, <1>2, <1>4 DEF LoopInv, ScoredInv, Struck, Grown
  <1>8. JudgedInv(p)'
    BY <1>3 DEF JudgedInv, At
  <1> QED
    BY <1>5, <1>6, <1>7, <1>8 DEF LoopInv

-----------------------------------------------------------------------------
(* The inductive invariant                                                 *)

IInv == TypeOK /\ PassInv /\ RowsInv

\* No step, of a pass itself or of another, spoils what a pass knows.
LEMMA PassInvStep == IInv /\ [Next]_vars => PassInv'
  <1> SUFFICES ASSUME IInv, [Next]_vars, NEW q \in Passes
               PROVE  (Looping(q) => LoopInv(q))'
    BY DEF PassInv
  <1>0. /\ TypeOK /\ RowsInv /\ Grown
        /\ pc \in [Passes -> PCs]
        /\ \A p \in Passes : Looping(p) => LoopInv(p)
    BY Grows DEF IInv, PassInv, TypeOK, LocalOK
  <1>1. CASE Undisturbed(q)
    BY <1>0, <1>1, Frame
  <1>2. CASE PassStep(q)
    <2> SUFFICES ASSUME Looping(q)' PROVE LoopInv(q)'
      OBVIOUS
    <2>1. CASE BeginAuto(q) \/ \E chosen \in SUBSET Metrics \ {{}} : BeginFull(q, chosen)
      BY <1>0, <2>1 DEF BeginAuto, BeginFull, Begin, Goto, Looping
    <2>2. CASE Acquire(q) \/ ProceedUnlocked(q)
      BY <1>0, <2>2 DEF Acquire, ProceedUnlocked, Goto, Looping
    <2>3. CASE ReadTurns(q)
      BY <1>0, <2>3 DEF ReadTurns, Goto, Looping
    <2>4. CASE Release(q) \/ Raise(q) \/ Crash(q)
      BY <1>0, <2>4 DEF Release, Raise, Crash, End, Goto, Looping
    <2>5. CASE LoadStarts(q)
      BY <1>0, <2>5, LoadStartsLoop
    <2>6. ASSUME NEW m \in Metrics, ResetChat(q, m) PROVE LoopInv(q)'
      BY <1>0, <2>6, ResetChatLoop DEF ResetChat, At, Looping
    <2>7. CASE ClearStale(q)
      BY <1>0, <2>7, ClearStaleLoop DEF ClearStale, At, Looping
    <2>8. CASE NextTurn(q)
      BY <1>0, <2>8, NextTurnLoop DEF NextTurn, At, Looping
    <2>9. ASSUME NEW m \in Metrics, Grade(q, m) PROVE LoopInv(q)'
      BY <1>0, <2>9, GradeLoop DEF Grade, At, Looping
    <2>10. CASE WriteScores(q)
      BY <1>0, <2>10, WriteScoresLoop DEF WriteScores, At, Looping
    <2>11. ASSUME NEW m \in Metrics, Record(q, m) PROVE LoopInv(q)'
      BY <1>0, <2>11, RecordLoop DEF Record, At, Looping
    <2>12. CASE Recorded(q)
      BY <1>0, <2>12, RecordedLoop DEF Recorded, At, Looping
    <2> QED
      BY <1>2, <2>1, <2>2, <2>3, <2>4, <2>5, <2>6, <2>7, <2>8, <2>9, <2>10, <2>11, <2>12
      DEF PassStep, Step
  <1>3. Undisturbed(q) \/ PassStep(q)
    <2>1. CASE \E t \in Turns : \E k \in 1 .. Len(order) + 1 : Arrive(t, k)
      BY <2>1 DEF Arrive, plan, work, Undisturbed
    <2>2. CASE Expire
      BY <2>2 DEF Expire, plan, work, Undisturbed
    <2>3. ASSUME NEW p \in Passes, PassStep(p) PROVE Undisturbed(q) \/ PassStep(q)
      BY <1>0, <2>3, OthersUndisturbed
    <2>4. CASE UNCHANGED vars
      BY <2>4 DEF vars, plan, work, Undisturbed
    <2> QED
      BY <2>1, <2>2, <2>3, <2>4 DEF Next, PassStep
  <1> QED
    BY <1>1, <1>2, <1>3

\* The row a pass writes keeps both promises.
LEMMA RowUpToKeeps ==
    ASSUME IInv, NEW p \in Passes, NEW m \in Metrics, Record(p, m)
    PROVE  /\ RowUpTo(p, m).payload \in ToSet(RowUpTo(p, m).turns) \cup {NoTurn}
           /\ ~Struck({"judge_failed"}) =>
                 ToSet(RowUpTo(p, m).turns) \cap Sampled[m] \subseteq scored[m]
  <1>1. /\ pc[p] = "record" /\ m \in todo[p] /\ LoopInv(p)
    BY DEF Record, At, IInv, PassInv, Looping
  <1>2. /\ at[p] \in Nat /\ start[p][m] \in Nat /\ view[p] \in Seq(Turns)
    BY DEF IInv, TypeOK, LocalOK
  <1>3. at[p] \in 1 .. Len(view[p]) /\ m \in names[p] /\ start[p][m] < at[p]
    BY <1>1, <1>2 DEF LoopInv, CursorInv, Due
  <1> DEFINE row == SubSeq(view[p], 1, at[p])
  <1>4. /\ RowUpTo(p, m).turns = row /\ RowUpTo(p, m).payload = chain[p][m]
    BY DEF RowUpTo
  <1>5. /\ DOMAIN row = 1 .. at[p]
        /\ \A j \in 1 .. at[p] : row[j] = view[p][j]
    BY <1>2, <1>3
  <1>6. \A j \in 1 .. Len(view[p]) : Dealt(p, m, j) <=> j <= at[p]
    BY <1>1, <1>2, <1>3 DEF Dealt, At
  <1>7. ToSet(row) = {view[p][j] : j \in 1 .. at[p]}
    BY <1>5 DEF ToSet
  <1> HIDE DEF row
  <1>8. chain[p][m] \in ToSet(row) \cup {NoTurn}
    <2> SUFFICES ASSUME chain[p][m] # NoTurn PROVE chain[p][m] \in ToSet(row)
      OBVIOUS
    <2>1. PICK j \in 1 .. Len(view[p]) : Dealt(p, m, j) /\ view[p][j] = chain[p][m]
      BY <1>1 DEF LoopInv, ChainInv
    <2>2. j \in 1 .. at[p]
      BY <1>2, <1>6, <2>1
    <2> QED
      BY <1>7, <2>1, <2>2
  <1>9. ASSUME ~Struck({"judge_failed"}), NEW t \in ToSet(row) \cap Sampled[m]
        PROVE  t \in scored[m]
    <2>1. PICK j \in 1 .. at[p] : t = view[p][j]
      BY <1>7
    <2>2. j \in 1 .. Len(view[p]) /\ Dealt(p, m, j)
      BY <1>2, <1>3, <1>6
    <2> QED
      BY <1>1, <1>3, <1>9, <2>1, <2>2 DEF LoopInv, ScoredInv
  <1> QED
    BY <1>4, <1>8, <1>9

\* The rows are changed only by clearing them and by RowUpTo.
LEMMA RowsInvStep == IInv /\ [Next]_vars => RowsInv'
  <1> SUFFICES ASSUME IInv, [Next]_vars, NEW n \in Metrics
               PROVE  /\ progress'[n].payload \in ToSet(progress'[n].turns) \cup {NoTurn}
                      /\ ~Struck({"judge_failed"})' =>
                            ToSet(progress'[n].turns) \cap Sampled[n] \subseteq scored'[n]
    BY DEF RowsInv, PayloadFromRecordedTurn, NoTurnRecordedUngraded
  <1>0. /\ scored[n] \subseteq scored'[n]
        /\ Struck({"judge_failed"}) => Struck({"judge_failed"})'
    BY Grows DEF IInv, Grown, Struck
  <1>1. CASE progress'[n] = progress[n]
    BY <1>0, <1>1 DEF IInv, RowsInv, PayloadFromRecordedTurn, NoTurnRecordedUngraded
  <1>2. CASE progress'[n] = NoRow
    BY <1>2 DEF NoRow, ToSet
  <1>3. ASSUME NEW p \in Passes, Record(p, n), progress'[n] = RowUpTo(p, n)
        PROVE  /\ progress'[n].payload \in ToSet(progress'[n].turns) \cup {NoTurn}
               /\ ~Struck({"judge_failed"})' =>
                     ToSet(progress'[n].turns) \cap Sampled[n] \subseteq scored'[n]
    BY <1>0, <1>3, RowUpToKeeps
  <1>4. \/ progress'[n] = progress[n]
        \/ progress'[n] = NoRow
        \/ \E p \in Passes : Record(p, n) /\ progress'[n] = RowUpTo(p, n)
    <2>0. DOMAIN progress = Metrics
      BY DEF IInv, TypeOK, StoresOK
    <2>1. CASE progress' = progress
      BY <2>1
    <2>2. ASSUME NEW p \in Passes, ClearStale(p)
          PROVE  progress'[n] = progress[n] \/ progress'[n] = NoRow
      BY <2>2 DEF ClearStale
    <2>3. ASSUME NEW p \in Passes, NEW m \in Metrics, Record(p, m)
          PROVE  \/ progress'[n] = progress[n]
                 \/ Record(p, n) /\ progress'[n] = RowUpTo(p, n)
      <3>1. CASE progress' = progress
        BY <3>1
      <3>2. CASE progress' = [progress EXCEPT ![m] = RowUpTo(p, m)]
        BY <2>0, <2>3, <3>2
      <3> QED
        BY <2>3, <3>1, <3>2 DEF Record
    <2>4. \/ progress' = progress
          \/ \E p \in Passes : ClearStale(p) \/ \E m \in Metrics : Record(p, m)
      BY DEF Next, Step, vars, stores, Arrive, Expire, BeginAuto, BeginFull, Acquire,
             ProceedUnlocked, ReadTurns, LoadStarts, ResetChat, NextTurn, Grade,
             WriteScores, Recorded, Release, Raise, Crash
    <2> QED
      BY <2>1, <2>2, <2>3, <2>4
  <1> QED
    BY <1>1, <1>2, <1>3, <1>4

\* The invariant holds before any turn has arrived.
LEMMA InitIInv == Init => IInv
  <1> SUFFICES ASSUME Init PROVE IInv
    OBVIOUS
  <1>1. PassInv
    BY DEF Init, PassInv, Looping
  <1>2. RowsInv
    BY DEF Init, RowsInv, PayloadFromRecordedTurn, NoTurnRecordedUngraded, NoRow, ToSet
  <1> QED
    BY <1>1, <1>2, InitType DEF IInv

\* The invariant is inductive.
LEMMA StepIInv == IInv /\ [Next]_vars => IInv'
  BY StepType, PassInvStep, RowsInvStep DEF IInv

\* Types, what each pass knows and what each row promises hold together, in
\* every state of any number of passes over one thread, under every fault.
THEOREM Invariance == Spec => []IInv
  BY InitIInv, StepIInv, PTL DEF Spec

\* Every variable keeps its type, whatever faults strike.
THEOREM TypeCorrect == Spec => []TypeOK
  <1>1. IInv => TypeOK
    BY DEF IInv
  <1> QED
    BY <1>1, Invariance, PTL

\* chain_progress_set never stores a payload that is not about one of the
\* turns it records, for any number of passes, turns and faults.
THEOREM PayloadSound == Spec => []PayloadFromRecordedTurn
  <1>1. IInv => PayloadFromRecordedTurn
    BY DEF IInv, RowsInv
  <1> QED
    BY <1>1, Invariance, PTL

\* A sampled turn that eval_chain_progress counts as dealt with has a score,
\* unless a judge raised: losing the lock, crashing or failing to load, clear
\* or record the rows makes no pass skip a turn nobody graded.
THEOREM ProgressSound == Spec => []NoTurnRecordedUngraded
  <1>1. IInv => NoTurnRecordedUngraded
    BY DEF IInv, RowsInv
  <1> QED
    BY <1>1, Invariance, PTL

\* Every pass can vouch for the row it is about to write.
THEOREM PassesSound == Spec => []PassInv
  <1>1. IInv => PassInv
    BY DEF IInv
  <1> QED
    BY <1>1, Invariance, PTL

-----------------------------------------------------------------------------
(* The lock                                                                *)

LockFaults == {"lock_timeout", "redis_down", "ttl"}

\* A pass without a lock fault behind it got in by setting the key, and no
\* other pass can have changed the key since.
LEMMA OneWriterStep == IInv /\ OneWriter /\ [Next]_vars => OneWriter'
  <1> SUFFICES ASSUME IInv, OneWriter, [Next]_vars, ~Struck(LockFaults)',
                      NEW q \in Passes, Inside(q)'
               PROVE  lock' = q
    BY DEF OneWriter, LockFaults
  <1>0. /\ TypeOK /\ pc \in [Passes -> PCs]
        /\ Free \notin Passes /\ Orphaned \notin Passes
    BY ConstantsAssumption DEF IInv, TypeOK, LocalOK
  <1>1. ~Struck(LockFaults)
    BY Grows DEF IInv, Grown, Struck
  <1>2. \A p \in Passes : Inside(p) => lock = p
    BY <1>1 DEF OneWriter, LockFaults
  <1>3. ASSUME NEW kind \in LockFaults PROVE ~Strike(kind)
    BY DEF Strike, Struck
  <1>4. CASE lock' = lock /\ (Inside(q)' => Inside(q))
    BY <1>2, <1>4
  <1>5. CASE Expire
    <2>1. lock = Orphaned /\ pc' = pc
      BY <1>3, <1>5 DEF Expire, LockFaults
    <2> QED
      BY <1>0, <1>2, <2>1 DEF Inside
  <1>6. ASSUME NEW p \in Passes, PassStep(p) PROVE lock' = q
    <2>1. CASE Acquire(p)
      <3>1. lock = Free /\ lock' = p
        BY <2>1 DEF Acquire, KeyFree
      <3>2. q # p => Inside(q)
        BY <1>0, <1>6, OthersUndisturbed DEF Undisturbed, Inside
      <3> QED
        BY <1>0, <1>2, <3>1, <3>2
    <2>2. CASE ProceedUnlocked(p)
      BY <1>3, <2>2 DEF ProceedUnlocked, LockFaults
    <2>3. CASE Release(p) \/ Raise(p) \/ Crash(p)
      <3>1. pc'[p] = "idle"
        BY <1>0, <2>3 DEF Release, Raise, Crash, End, Goto
      <3>2. q # p
        BY <3>1 DEF Inside
      <3>3. lock = q
        BY <1>0, <1>2, <1>6, <3>2, OthersUndisturbed DEF Undisturbed, Inside
      <3> QED
        BY <2>3, <3>2, <3>3 DEF Release, Raise, Crash, Released
    <2>4. CASE BeginAuto(p) \/ \E chosen \in SUBSET Metrics \ {{}} : BeginFull(p, chosen)
      <3>1. lock' = lock
        BY <2>4 DEF BeginAuto, BeginFull
      <3>2. pc'[p] = "wait"
        BY <1>0, <2>4 DEF BeginAuto, BeginFull, Begin, Goto
      <3>3. q # p
        BY <3>2 DEF Inside
      <3> QED
        BY <1>0, <1>2, <1>6, <3>1, <3>3, OthersUndisturbed DEF Undisturbed, Inside
    <2>5. CASE lock' = lock /\ Inside(p)
      <3>1. Inside(q)
        BY <1>0, <1>6, <2>5, OthersUndisturbed DEF Undisturbed, Inside
      <3> QED
        BY <1>2, <2>5, <3>1
    <2>6. CASE \/ ReadTurns(p) \/ LoadStarts(p) \/ ClearStale(p) \/ NextTurn(p)
               \/ WriteScores(p) \/ Recorded(p)
      BY <2>5, <2>6 DEF ReadTurns, LoadStarts, ClearStale, NextTurn, WriteScores,
                        Recorded, At, Inside
    <2>7. CASE \E m \in Metrics : ResetChat(p, m) \/ Grade(p, m) \/ Record(p, m)
      BY <2>5, <2>7 DEF ResetChat, Grade, Record, At, Inside
    <2> QED
      BY <1>6, <2>1, <2>2, <2>3, <2>4, <2>6, <2>7 DEF PassStep, Step
  <1>7. CASE \E t \in Turns : \E k \in 1 .. Len(order) + 1 : Arrive(t, k)
    BY <1>4, <1>7 DEF Arrive, Inside
  <1>8. CASE UNCHANGED vars
    BY <1>4, <1>8 DEF vars, Inside
  <1> QED
    BY <1>5, <1>6, <1>7, <1>8 DEF Next, PassStep

\* thread_pass_lock keeps passes apart as long as its wait never times out,
\* Redis answers and no key expires under its owner.
THEOREM LockExclusive == Spec => []OneWriter
  <1>1. Init => OneWriter
    BY DEF Init, OneWriter, Inside
  <1> QED
    BY <1>1, Invariance, OneWriterStep, PTL DEF Spec

\* The compare-and-delete frees no other pass's key, even after a timeout, an
\* expiry or a crash.
THEOREM ReleaseSound == Spec => ReleasesOnlyItsOwn
  <1>1. ASSUME IInv, [Next]_vars, NEW p \in Passes, NEW q \in Passes,
               p # q, lock = q, pc'[p] # pc[p]
        PROVE  lock' = q
    <2>0. TypeOK /\ Free \notin Passes
      BY <1>1, ConstantsAssumption DEF IInv
    <2>1. CASE Expire \/ UNCHANGED vars \/
               \E t \in Turns : \E k \in 1 .. Len(order) + 1 : Arrive(t, k)
      BY <1>1, <2>1 DEF Expire, Arrive, vars
    <2>2. ASSUME NEW r \in Passes, PassStep(r) PROVE lock' = q
      <3>1. r = p
        BY <1>1, <2>0, <2>2, OthersUndisturbed DEF Undisturbed
      <3>2. lock' \in {lock, Released(p)} \/ Acquire(p) \/ lock = p \/ KeyFree
        BY <2>2, <3>1 DEF PassStep, Step, BeginAuto, BeginFull, ProceedUnlocked,
              ReadTurns, LoadStarts, ResetChat, ClearStale, NextTurn, Grade,
              WriteScores, Record, Recorded, Release, Raise, Crash
      <3> QED
        BY <1>1, <2>0, <3>2 DEF Acquire, KeyFree, Released
    <2> QED
      BY <1>1, <2>1, <2>2 DEF Next, PassStep
  <1>2. IInv /\ [Next]_vars =>
          [\A p, q \in Passes : p # q /\ lock = q /\ pc'[p] # pc[p] => lock' = q]_vars
    BY <1>1
  <1> QED
    BY <1>2, Invariance, PTL DEF Spec, ReleasesOnlyItsOwn

-----------------------------------------------------------------------------
(* How often a conversation repeats itself                                 *)

\* No element twice.
Distinct(s) == \A i, j \in DOMAIN s : s[i] = s[j] => i = j

\* A sequence has finitely many elements, and no more than its length.
LEMMA ToSetFinite ==
    ASSUME NEW s \in Seq(Turns)
    PROVE  /\ IsFiniteSet(ToSet(s)) /\ Cardinality(ToSet(s)) \in Nat
           /\ Cardinality(ToSet(s)) <= Len(s)
  <1>1. IsFiniteSet(1 .. Len(s)) /\ Cardinality(1 .. Len(s)) = Len(s)
    <2>1. Len(s) \in Nat /\ Len(s) \in Int /\ 1 \in Int
      OBVIOUS
    <2> QED
      BY <2>1, FS_Interval
  <1>2. s \in Surjection(1 .. Len(s), ToSet(s))
    <2>1. s \in [1 .. Len(s) -> ToSet(s)]
      BY DEF ToSet
    <2>2. \A t \in ToSet(s) : \E i \in 1 .. Len(s) : s[i] = t
      BY DEF ToSet
    <2> QED
      BY <2>1, <2>2 DEF Surjection
  <1>3. IsFiniteSet(ToSet(s)) /\ Cardinality(ToSet(s)) <= Cardinality(1 .. Len(s))
    BY <1>1, <1>2, FS_Surjection
  <1>4. Cardinality(ToSet(s)) \in Nat
    BY <1>3, FS_CardinalityType
  <1> QED
    BY <1>1, <1>3, <1>4

\* Repeats counts in natural numbers.
LEMMA RepeatsType == ASSUME NEW s \in Seq(Turns) PROVE Repeats(s) \in Nat
  BY ToSetFinite DEF Repeats

\* An element put at the end is all that is new.
LEMMA AppendElements ==
    ASSUME NEW s \in Seq(Turns), NEW x \in Turns
    PROVE  ToSet(Append(s, x)) = ToSet(s) \cup {x}
  <1>1. /\ DOMAIN Append(s, x) = 1 .. Len(s) + 1
        /\ \A i \in 1 .. Len(s) : Append(s, x)[i] = s[i]
        /\ Append(s, x)[Len(s) + 1] = x
    OBVIOUS
  <1>2. ToSet(Append(s, x)) \subseteq ToSet(s) \cup {x}
    BY <1>1 DEF ToSet
  <1>3. ToSet(s) \subseteq ToSet(Append(s, x)) /\ x \in ToSet(Append(s, x))
    BY <1>1 DEF ToSet
  <1> QED
    BY <1>2, <1>3

\* A conversation repeats itself once more exactly when it is told again what
\* it holds.
LEMMA AppendRepeats ==
    ASSUME NEW s \in Seq(Turns), NEW x \in Turns
    PROVE  Repeats(Append(s, x)) = IF x \in ToSet(s) THEN Repeats(s) + 1 ELSE Repeats(s)
  <1>1. IsFiniteSet(ToSet(s)) /\ Cardinality(ToSet(s)) \in Nat
    BY ToSetFinite
  <1>2. Cardinality(ToSet(s) \cup {x}) =
          IF x \in ToSet(s) THEN Cardinality(ToSet(s)) ELSE Cardinality(ToSet(s)) + 1
    BY <1>1, FS_AddElement
  <1>3. Cardinality(ToSet(Append(s, x))) = Cardinality(ToSet(s) \cup {x})
    BY AppendElements
  <1>4. Len(Append(s, x)) = Len(s) + 1 /\ Len(s) \in Nat
    OBVIOUS
  <1> QED
    BY <1>1, <1>2, <1>3, <1>4 DEF Repeats

\* The elements of a sequence up to a place.
LEMMA PrefixElements ==
    ASSUME NEW s \in Seq(Turns), NEW k \in 0 .. Len(s)
    PROVE  /\ SubSeq(s, 1, k) \in Seq(Turns) /\ Len(SubSeq(s, 1, k)) = k
           /\ \A j \in 1 .. k : SubSeq(s, 1, k)[j] = s[j]
           /\ ToSet(SubSeq(s, 1, k)) = {s[j] : j \in 1 .. k}
  <1>1. /\ SubSeq(s, 1, k) \in Seq(Turns) /\ Len(SubSeq(s, 1, k)) = k
        /\ \A j \in 1 .. k : SubSeq(s, 1, k)[j] = s[j]
    OBVIOUS
  <1>2. DOMAIN SubSeq(s, 1, k) = 1 .. k
    BY <1>1
  <1> QED
    BY <1>1, <1>2 DEF ToSet

\* Inserting a new element repeats nothing.
LEMMA InsertDistinct ==
    ASSUME NEW s \in Seq(Turns), Distinct(s), NEW x \in Turns, x \notin ToSet(s),
           NEW k \in 1 .. Len(s) + 1
    PROVE  Distinct(InsertAt(s, k, x))
  <1> DEFINE w == InsertAt(s, k, x)
  <1>1. /\ SubSeq(s, 1, k - 1) \in Seq(Turns) /\ Len(SubSeq(s, 1, k - 1)) = k - 1
        /\ \A j \in 1 .. k - 1 : SubSeq(s, 1, k - 1)[j] = s[j]
    OBVIOUS
  <1>2. /\ SubSeq(s, k, Len(s)) \in Seq(Turns) /\ Len(SubSeq(s, k, Len(s))) = Len(s) - k + 1
        /\ \A j \in 1 .. Len(s) - k + 1 : SubSeq(s, k, Len(s))[j] = s[k + j - 1]
    OBVIOUS
  <1> DEFINE a == SubSeq(s, 1, k - 1)
             b == SubSeq(s, k, Len(s))
  <1>3. w = (a \o <<x>>) \o b
    BY DEF InsertAt
  <1> HIDE DEF a, b, w
  <1>4. /\ a \in Seq(Turns) /\ Len(a) = k - 1 /\ b \in Seq(Turns) /\ Len(b) = Len(s) - k + 1
        /\ \A j \in 1 .. k - 1 : a[j] = s[j]
        /\ \A j \in 1 .. Len(s) - k + 1 : b[j] = s[k + j - 1]
    BY <1>1, <1>2 DEF a, b
  <1>5. /\ DOMAIN w = 1 .. Len(s) + 1
        /\ \A i \in 1 .. k - 1 : w[i] = a[i]
        /\ w[k] = x
        /\ \A i \in k + 1 .. Len(s) + 1 : w[i] = b[i - k]
    <2>1. k \in Nat /\ Len(s) \in Nat /\ k >= 1 /\ k <= Len(s) + 1
      OBVIOUS
    <2>2. /\ a \o <<x>> \in Seq(Turns) /\ Len(a \o <<x>>) = k
          /\ \A i \in 1 .. k - 1 : (a \o <<x>>)[i] = a[i]
          /\ (a \o <<x>>)[k] = x
      BY <1>4, <2>1
    <2> DEFINE c == a \o <<x>>
    <2> HIDE DEF c
    <2>3. /\ c \in Seq(Turns) /\ Len(c) = k /\ w = c \o b
          /\ \A i \in 1 .. k - 1 : c[i] = a[i]
          /\ c[k] = x
      BY <1>3, <2>2 DEF c
    <2>4. /\ Len(c \o b) = Len(s) + 1
          /\ \A i \in 1 .. k : (c \o b)[i] = c[i]
          /\ \A i \in k + 1 .. Len(s) + 1 : (c \o b)[i] = b[i - k]
      BY <1>4, <2>1, <2>3
    <2>5. DOMAIN w = 1 .. Len(s) + 1
      BY <1>4, <2>3, <2>4
    <2> QED
      BY <2>1, <2>3, <2>4, <2>5
  <1>6. /\ \A i \in 1 .. k - 1 : w[i] = s[i]
        /\ \A i \in k + 1 .. Len(s) + 1 : w[i] = s[i - 1]
    BY <1>4, <1>5
  <1>7. \A i \in 1 .. Len(s) : s[i] # x
    BY DEF ToSet
  <1>8. \A i, j \in 1 .. Len(s) : s[i] = s[j] => i = j
    BY DEF Distinct
  <1>9. \A i, j \in 1 .. Len(s) + 1 : w[i] = w[j] => i = j
    BY <1>5, <1>6, <1>7, <1>8
  <1> QED
    BY <1>5, <1>9 DEF Distinct, w

\* No fault lets two passes in, or keeps a conversation that was to be reset.
Clean == ~Struck({"lock_timeout", "redis_down", "ttl", "reset_failed"})

\* The turn a metric has been asked about and its row does not record yet.
Pending(p, m) ==
    IF \/ At(p, "grade") /\ m \in Due(p) \ todo[p]
       \/ At(p, "record") /\ m \in todo[p]
    THEN {Turn(p)} ELSE {}

\* The turns a pass takes as dealt with.
DealtTurns(p, m) == {view[p][j] : j \in {i \in 1 .. Len(view[p]) : Dealt(p, m, i)}}

\* A thread has no turn twice, and only a metric that keeps a conversation has one.
ThreadInv ==
    /\ Distinct(order)
    /\ \A p \in Passes : Distinct(view[p])
    /\ \A m \in Metrics \ RunLevel : chat[m] = <<>>

\* What is on a conversation and in the row is dealt with or in hand.
HeldInv(p) ==
    \A m \in names[p] \cap RunLevel :
        ~(At(p, "reset") /\ m \in todo[p]) =>
            ToSet(chat[m]) \cap ToSet(progress[m].turns)
              \subseteq DealtTurns(p, m) \cup Pending(p, m)

\* A row about to be cleared belongs to a conversation already emptied.
StaleInv(p) ==
    At(p, "reset") => \A m \in (got[p] \cap RunLevel) \ todo[p] : chat[m] = <<>>

\* The turns on a conversation that its row has lost, or never recorded.
Loose(m) ==
    (ToSet(chat[m]) \ ToSet(progress[m].turns)) \ UNION {Pending(p, m) : p \in Passes}

\* Every repetition, past or to come, was paid for by a fault.
PaidInv == \A m \in Metrics : Repeats(chat[m]) + Cardinality(Loose(m)) <= faults

RepeatInv ==
    /\ OneWriter /\ ThreadInv
    /\ Clean => PaidInv /\ \A p \in Passes : Looping(p) => HeldInv(p) /\ StaleInv(p)

\* A fault that has not struck is not striking.
LEMMA CleanStep ==
    ASSUME TypeOK, [Next]_vars, Clean'
    PROVE  /\ Clean
           /\ \A k \in {"lock_timeout", "redis_down", "ttl", "reset_failed"} : ~Strike(k)
  <1>1. Clean
    BY Grows DEF Clean, Struck, Grown
  <1>2. ASSUME NEW k \in {"lock_timeout", "redis_down", "ttl", "reset_failed"}, Strike(k)
        PROVE  FALSE
    BY <1>2 DEF Clean, Struck, Strike
  <1> QED
    BY <1>1, <1>2

\* At most one pass is inside.
LEMMA OnlyOneInside ==
    ASSUME OneWriter, Clean, NEW p \in Passes, Inside(p), NEW q \in Passes, Inside(q)
    PROVE  p = q
  BY DEF OneWriter, Clean, Struck

\* The only steps that touch a conversation or a row are those of a pass inside.
LEMMA OutsideStep ==
    ASSUME TypeOK, NEW p \in Passes, PassStep(p), ~Inside(p)
    PROVE  /\ chat' = chat /\ progress' = progress
           /\ pc'[p] \in {"idle", "wait", "read"}
  <1>1. /\ pc \in [Passes -> PCs] /\ pc[p] \in {"idle", "wait"}
    BY DEF TypeOK, LocalOK, Inside
  <1>2. CASE BeginAuto(p) \/ \E chosen \in SUBSET Metrics \ {{}} : BeginFull(p, chosen)
    BY <1>1, <1>2 DEF BeginAuto, BeginFull, Begin, Goto, stores
  <1>3. CASE Acquire(p) \/ ProceedUnlocked(p)
    BY <1>1, <1>3 DEF Acquire, ProceedUnlocked, Goto, stores
  <1>4. CASE Crash(p)
    BY <1>1, <1>4 DEF Crash, End, Goto, stores
  <1>5. \/ BeginAuto(p) \/ \E chosen \in SUBSET Metrics \ {{}} : BeginFull(p, chosen)
        \/ Acquire(p) \/ ProceedUnlocked(p) \/ Crash(p)
    BY <1>1 DEF PassStep, Step, At, ReadTurns, LoadStarts, ResetChat, ClearStale, NextTurn,
                Grade, WriteScores, Record, Recorded, Release, Raise
  <1> QED
    BY <1>2, <1>3, <1>4, <1>5

\* The pass inside is left alone by every step but its own.
LEMMA InsideAlone ==
    ASSUME TypeOK, OneWriter, Clean, [Next]_vars, NEW q \in Passes, Inside(q), ~PassStep(q)
    PROVE  Undisturbed(q) /\ chat' = chat /\ progress' = progress
  <1>1. CASE \E t \in Turns : \E k \in 1 .. Len(order) + 1 : Arrive(t, k)
    BY <1>1 DEF Arrive, plan, work, stores, Undisturbed
  <1>2. CASE Expire
    BY <1>2 DEF Expire, plan, work, stores, Undisturbed
  <1>3. ASSUME NEW p \in Passes, PassStep(p)
        PROVE  Undisturbed(q) /\ chat' = chat /\ progress' = progress
    <2>1. p # q
      BY <1>3
    <2>2. ~Inside(p)
      BY <2>1, OnlyOneInside
    <2> QED
      BY <1>3, <2>1, <2>2, OutsideStep, OthersUndisturbed
  <1>4. CASE UNCHANGED vars
    BY <1>4 DEF vars, plan, work, stores, Undisturbed
  <1> QED
    BY <1>1, <1>2, <1>3, <1>4 DEF Next, PassStep

\* Between its turns a pass has nothing in hand.
LEMMA NothingPending ==
    ASSUME NEW p \in Passes, pc[p] \notin {"grade", "record"}, NEW m
    PROVE  Pending(p, m) = {}
  BY DEF Pending, At

\* The thread's order and what the passes read of it have no turn twice.
LEMMA ThreadInvStep ==
    ASSUME IInv, ThreadInv, [Next]_vars
    PROVE  ThreadInv'
  <1>0. TypeOK
    BY DEF IInv
  <1>1. Distinct(order)'
    <2>1. ASSUME NEW t \in Turns, NEW k \in 1 .. Len(order) + 1, Arrive(t, k)
          PROVE  Distinct(order)'
      BY <1>0, <2>1, InsertDistinct DEF Arrive, ThreadInv, TypeOK, StoresOK
    <2>2. CASE order' = order
      BY <2>2 DEF ThreadInv
    <2>3. \/ order' = order
          \/ \E t \in Turns : \E k \in 1 .. Len(order) + 1 : Arrive(t, k)
      BY DEF Next, Step, vars, env, Expire, BeginAuto, BeginFull, Acquire, ProceedUnlocked,
             ReadTurns, LoadStarts, ResetChat, ClearStale, NextTurn, Grade, WriteScores,
             Record, Recorded, Release, Raise, Crash
    <2> QED
      BY <2>1, <2>2, <2>3
  <1>2. ASSUME NEW q \in Passes PROVE Distinct(view[q])'
    <2>0. Distinct(view[q]) /\ Distinct(order) /\ view \in [Passes -> Seq(Turns)]
      BY <1>0 DEF ThreadInv, TypeOK, LocalOK
    <2>1. CASE view'[q] = view[q]
      BY <2>0, <2>1
    <2>2. CASE view'[q] = order
      BY <2>0, <2>2
    <2>3. CASE view'[q] = <<>>
      BY <2>3 DEF Distinct
    <2>4. view'[q] \in {view[q], order, <<>>}
      <3>1. ASSUME NEW p \in Passes, PassStep(p) PROVE view'[q] \in {view[q], order, <<>>}
        <4>1. CASE p # q
          BY <1>0, <3>1, <4>1, OthersUndisturbed DEF Undisturbed
        <4>2. CASE ReadTurns(q)
          BY <2>0, <4>2 DEF ReadTurns
        <4>3. CASE Release(q) \/ Raise(q) \/ Crash(q)
          BY <2>0, <4>3 DEF Release, Raise, Crash, End
        <4>4. CASE view' = view
          BY <4>4
        <4>5. PassStep(q) => \/ view' = view \/ ReadTurns(q)
                             \/ Release(q) \/ Raise(q) \/ Crash(q)
          BY DEF PassStep, Step, plan, BeginAuto, BeginFull, Begin, Acquire, ProceedUnlocked,
                 LoadStarts, ResetChat, ClearStale, NextTurn, Grade, WriteScores, Record, Recorded
        <4> QED
          BY <3>1, <4>1, <4>2, <4>3, <4>4, <4>5
      <3>2. CASE view' = view
        BY <3>2
      <3>3. view' = view \/ \E p \in Passes : PassStep(p)
        BY DEF Next, PassStep, vars, plan, Arrive, Expire
      <3> QED
        BY <3>1, <3>2, <3>3
    <2> QED
      BY <2>1, <2>2, <2>3, <2>4
  <1>3. ASSUME NEW n \in Metrics \ RunLevel PROVE chat'[n] = <<>>
    <2>0. chat[n] = <<>> /\ chat \in [Metrics -> Seq(Turns)]
      BY <1>0 DEF ThreadInv, TypeOK, StoresOK
    <2>1. ASSUME NEW p \in Passes, NEW m \in Metrics, ResetChat(p, m) PROVE chat'[n] = <<>>
      BY <2>0, <2>1 DEF ResetChat, Emptied
    <2>2. ASSUME NEW p \in Passes, NEW m \in Metrics, Grade(p, m) PROVE chat'[n] = <<>>
      <3>1. chat' \in {chat, Told(p, m)}
        BY <2>2 DEF Grade, Judged, JudgeFailed
      <3>2. Told(p, m)[n] = <<>>
        BY <2>0 DEF Told
      <3> QED
        BY <2>0, <3>1, <3>2
    <2>3. \/ chat' = chat
          \/ \E p \in Passes : \E m \in Metrics : ResetChat(p, m) \/ Grade(p, m)
      BY DEF Next, Step, vars, stores, Arrive, Expire, BeginAuto, BeginFull, Acquire,
             ProceedUnlocked, ReadTurns, LoadStarts, ClearStale, NextTurn, WriteScores,
             Record, Recorded, Release, Raise, Crash
    <2> QED
      BY <2>0, <2>1, <2>2, <2>3
  <1> QED
    BY <1>1, <1>2, <1>3 DEF ThreadInv

\* A step is a pass's own or leaves it alone.
LEMMA OwnOrAlone ==
    ASSUME TypeOK, [Next]_vars, NEW q \in Passes
    PROVE  PassStep(q) \/ Undisturbed(q)
  <1>1. CASE \E t \in Turns : \E k \in 1 .. Len(order) + 1 : Arrive(t, k)
    BY <1>1 DEF Arrive, plan, work, Undisturbed
  <1>2. CASE Expire
    BY <1>2 DEF Expire, plan, work, Undisturbed
  <1>3. ASSUME NEW p \in Passes, PassStep(p) PROVE PassStep(q) \/ Undisturbed(q)
    BY <1>3, OthersUndisturbed
  <1>4. CASE UNCHANGED vars
    BY <1>4 DEF vars, plan, work, Undisturbed
  <1> QED
    BY <1>1, <1>2, <1>3, <1>4 DEF Next, PassStep

\* While a pass loops, its plan is fixed.
LEMMA PlanFixed ==
    ASSUME TypeOK, NEW q \in Passes, PassStep(q), Looping(q), Looping(q)'
    PROVE  names'[q] = names[q] /\ view'[q] = view[q] /\ start'[q] = start[q]
  <1>1. pc \in [Passes -> PCs]
    BY DEF TypeOK, LocalOK
  <1>2. CASE Release(q) \/ Raise(q) \/ Crash(q)
    BY <1>1, <1>2 DEF Release, Raise, Crash, End, Goto, Looping
  <1>3. CASE UNCHANGED plan
    BY <1>3 DEF plan
  <1> QED
    BY <1>2, <1>3 DEF PassStep, Step, BeginAuto, BeginFull, Begin, Acquire, ProceedUnlocked,
       ReadTurns, LoadStarts, ResetChat, ClearStale, NextTurn, Grade, WriteScores, Record,
       Recorded, At, Looping

\* Where a pass starts: a metric that goes on has a row with the first turns of
\* the view, a metric that starts over is reset if it keeps a conversation.
LEMMA LoadedStarts ==
    ASSUME IInv, NEW q \in Passes, LoadStarts(q), NEW m \in names[q]
    PROVE  /\ pc'[q] = "reset" /\ at'[q] = 1
           /\ names'[q] = names[q] /\ view'[q] = view[q]
           /\ chat' = chat /\ progress' = progress
           /\ \/ /\ start'[q][m] \in 0 .. Len(view[q])
                 /\ progress[m].turns = SubSeq(view[q], 1, start'[q][m])
                 /\ progress[m].turns # <<>>
                 /\ m \notin todo'[q] /\ m \notin got'[q]
              \/ /\ start'[q][m] = 0
                 /\ m \in todo'[q] <=> m \in RunLevel
                 /\ faults' = 0 => m \in got'[q] \/ progress[m].turns = <<>>
  <1>1. PICK loaded \in BOOLEAN :
          /\ IF loaded THEN NoFault ELSE auto[q] /\ Strike("load_failed")
          /\ start' = [start EXCEPT ![q] = [n \in Metrics |->
                 IF n \in Continuing(q, Rows(q, loaded))
                 THEN Len(Rows(q, loaded)[n].turns) ELSE 0]]
          /\ todo' = [todo EXCEPT ![q] =
                 (names[q] \cap RunLevel) \ Continuing(q, Rows(q, loaded))]
          /\ got' = [got EXCEPT ![q] =
                 {n \in names[q] \ Continuing(q, Rows(q, loaded)) :
                     Rows(q, loaded)[n].turns # <<>> \/ ~auto[q]}]
    BY DEF LoadStarts
  <1>2. /\ names[q] \subseteq Metrics /\ m \in Metrics
        /\ start \in [Passes -> [Metrics -> Nat]] /\ todo \in [Passes -> SUBSET Metrics]
        /\ got \in [Passes -> SUBSET Metrics] /\ at \in [Passes -> Nat]
        /\ pc \in [Passes -> PCs] /\ view[q] \in Seq(Turns) /\ faults \in Nat
        /\ progress[m].turns \in Seq(Turns)
    BY DEF IInv, TypeOK, LocalOK, StoresOK
  <1>3. /\ pc'[q] = "reset" /\ at'[q] = 1
        /\ names'[q] = names[q] /\ view'[q] = view[q]
        /\ chat' = chat /\ progress' = progress
    BY <1>2 DEF LoadStarts, Goto, stores
  <1> DEFINE rows == Rows(q, loaded)
  <1> HIDE DEF rows
  <1>4. /\ start'[q][m] = IF m \in Continuing(q, rows) THEN Len(rows[m].turns) ELSE 0
        /\ todo'[q] = (names[q] \cap RunLevel) \ Continuing(q, rows)
        /\ got'[q] = {n \in names[q] \ Continuing(q, rows) : rows[n].turns # <<>> \/ ~auto[q]}
    BY <1>1, <1>2 DEF rows
  <1>5. CASE m \in Continuing(q, rows)
    <2>1. Continues(auto[q], rows[m].turns, view[q])
      BY <1>5 DEF Continuing
    <2>2. auto[q] /\ rows[m].turns # <<>> /\ IsPrefix(rows[m].turns, view[q])
      BY <2>1 DEF Continues
    <2>3. rows[m] = progress[m]
      BY <1>2, <2>2 DEF rows, Rows, NoRow
    <2>4. /\ Len(progress[m].turns) \in 0 .. Len(view[q])
          /\ progress[m].turns = SubSeq(view[q], 1, Len(progress[m].turns))
      BY <1>2, <2>2, <2>3 DEF IsPrefix
    <2> QED
      BY <1>3, <1>4, <1>5, <2>2, <2>3, <2>4
  <1>6. CASE m \notin Continuing(q, rows)
    <2>1. faults' = 0 => rows[m] = progress[m] \/ ~auto[q]
      BY <1>1, <1>2 DEF rows, Rows, Strike
    <2> QED
      BY <1>3, <1>4, <1>6, <2>1
  <1> QED
    BY <1>5, <1>6

\* One turn more, one dealt with more.
LEMMA DealtGrows ==
    ASSUME TypeOK, NEW q \in Passes, Looping(q), Looping(q)', at'[q] \in Nat, at'[q] >= at[q],
           At(q, "record") => at'[q] > at[q] \/ At(q, "record")',
           names'[q] = names[q] /\ view'[q] = view[q] /\ start'[q] = start[q], NEW m
    PROVE  DealtTurns(q, m) \subseteq DealtTurns(q, m)'
  <1>1. at[q] \in Nat
    BY DEF TypeOK, LocalOK
  <1>2. ASSUME NEW i \in 1 .. Len(view[q]), Dealt(q, m, i) PROVE Dealt(q, m, i)'
    BY <1>1, <1>2 DEF Dealt
  <1> QED
    BY <1>2 DEF DealtTurns

\* A row as a pass writes it records what the pass takes as dealt with.
LEMMA RowIsDealt ==
    ASSUME IInv, NEW q \in Passes, At(q, "record"), NEW m \in todo[q]
    PROVE  /\ DealtTurns(q, m) = ToSet(RowUpTo(q, m).turns)
           /\ Turn(q) \in DealtTurns(q, m)
           /\ at[q] \in 1 .. Len(view[q]) /\ start[q][m] < at[q]
  <1>1. /\ at[q] \in Nat /\ view[q] \in Seq(Turns) /\ start[q] \in [Metrics -> Nat]
        /\ names[q] \subseteq Metrics
    BY DEF IInv, TypeOK, LocalOK
  <1>2. /\ at[q] \in 1 .. Len(view[q]) /\ m \in Due(q)
    BY <1>1 DEF IInv, PassInv, Looping, At, LoopInv, CursorInv
  <1>3. m \in Metrics /\ start[q][m] < at[q] /\ start[q][m] \in Nat
    BY <1>1, <1>2 DEF Due
  <1>4. \A j \in 1 .. Len(view[q]) : Dealt(q, m, j) <=> j <= at[q]
    BY <1>1, <1>2, <1>3 DEF Dealt
  <1>5. {i \in 1 .. Len(view[q]) : Dealt(q, m, i)} = 1 .. at[q]
    BY <1>1, <1>2, <1>4
  <1>6. ToSet(SubSeq(view[q], 1, at[q])) = {view[q][j] : j \in 1 .. at[q]}
    <2>1. at[q] \in 0 .. Len(view[q])
      BY <1>1, <1>2
    <2> QED
      BY <1>1, <2>1, PrefixElements
  <1> QED
    BY <1>2, <1>3, <1>5, <1>6 DEF RowUpTo, DealtTurns, Turn

\* What a pass finds on a conversation and in its row when it starts.
LEMMA LoadHeld ==
    ASSUME IInv, NEW q \in Passes, LoadStarts(q)
    PROVE  HeldInv(q)'
  <1>a. pc'[q] = "reset" /\ names' = names
    BY DEF LoadStarts, Goto, IInv, TypeOK, LocalOK
  <1> SUFFICES ASSUME NEW m \in names[q] \cap RunLevel, m \notin todo'[q]
               PROVE  ToSet(progress'[m].turns) \subseteq DealtTurns(q, m)'
    BY <1>a DEF HeldInv, At
  <1>0. m \in names[q]
    OBVIOUS
  <1>1. /\ view'[q] = view[q] /\ progress' = progress
        /\ start'[q][m] \in 0 .. Len(view[q])
        /\ progress[m].turns = SubSeq(view[q], 1, start'[q][m])
    BY <1>0, LoadedStarts
  <1>2. view[q] \in Seq(Turns)
    BY DEF IInv, TypeOK, LocalOK
  <1>3. ToSet(progress[m].turns) = {view[q][j] : j \in 1 .. start'[q][m]}
    <2>1. PICK k \in 0 .. Len(view[q]) :
            k = start'[q][m] /\ progress[m].turns = SubSeq(view[q], 1, k)
      BY <1>1
    <2>2. ToSet(SubSeq(view[q], 1, k)) = {view[q][j] : j \in 1 .. k}
      BY <1>2, <2>1, PrefixElements
    <2> QED
      BY <2>1, <2>2
  <1>4. \A j \in 1 .. start'[q][m] : j \in 1 .. Len(view[q]) /\ Dealt(q, m, j)'
    BY <1>1, <1>2 DEF Dealt
  <1> QED
    BY <1>1, <1>3, <1>4 DEF DealtTurns

\* Deleting a conversation leaves nothing of it in the row.
LEMMA ResetHeld ==
    ASSUME IInv, NEW q \in Passes, NEW n \in Metrics, ResetChat(q, n), ~Strike("reset_failed"),
           HeldInv(q), StaleInv(q)
    PROVE  HeldInv(q)' /\ StaleInv(q)'
  <1>1. /\ chat' = Emptied(n) /\ todo'[q] = todo[q] \ {n} /\ progress' = progress
        /\ pc' = pc /\ names' = names /\ view' = view /\ start' = start /\ at' = at /\ got' = got
        /\ pc[q] = "reset" /\ chat \in [Metrics -> Seq(Turns)] /\ names[q] \subseteq Metrics
    BY DEF ResetChat, plan, At, IInv, TypeOK, LocalOK, StoresOK
  <1>2. chat'[n] = <<>> /\ \A m \in Metrics \ {n} : chat'[m] = chat[m]
    BY <1>1 DEF Emptied
  <1>3. \A m : DealtTurns(q, m)' = DealtTurns(q, m)
    BY <1>1 DEF DealtTurns, Dealt, At
  <1>4. \A m : Pending(q, m) = {} /\ Pending(q, m)' = {}
    BY <1>1 DEF Pending, At
  <1>5. ToSet(<<>>) = {}
    BY DEF ToSet
  <1>6. HeldInv(q)'
    <2> SUFFICES ASSUME NEW m \in names[q] \cap RunLevel, m \notin todo'[q]
                 PROVE  ToSet(chat'[m]) \cap ToSet(progress[m].turns) \subseteq DealtTurns(q, m)
      BY <1>1, <1>3, <1>4 DEF HeldInv, At
    <2>1. CASE m = n
      BY <1>2, <1>5, <2>1
    <2>2. CASE m # n
      BY <1>1, <1>2, <1>4, <2>2 DEF HeldInv, At
    <2> QED
      BY <2>1, <2>2
  <1>7. StaleInv(q)'
    BY <1>1, <1>2, ConstantsAssumption DEF StaleInv, At
  <1> QED
    BY <1>6, <1>7

\* A row that is cleared takes turns away.
LEMMA ClearHeld ==
    ASSUME IInv, NEW q \in Passes, ClearStale(q), HeldInv(q)
    PROVE  HeldInv(q)' /\ StaleInv(q)'
  <1>1. /\ chat' = chat /\ todo' = todo /\ todo[q] = {}
        /\ names' = names /\ view' = view /\ start' = start /\ at' = at
        /\ pc[q] = "reset" /\ pc'[q] = "turn" /\ names[q] \subseteq Metrics
    BY DEF ClearStale, Goto, plan, At, IInv, TypeOK, LocalOK
  <1>2. \A m : DealtTurns(q, m)' = DealtTurns(q, m)
    BY <1>1 DEF DealtTurns, Dealt, At
  <1>3. \A m : Pending(q, m) = {} /\ Pending(q, m)' = {}
    BY <1>1 DEF Pending, At
  <1>4. \A m \in Metrics : ToSet(progress'[m].turns) \subseteq ToSet(progress[m].turns)
    <2>1. CASE progress' = progress
      BY <2>1
    <2>2. CASE progress' = [m \in Metrics |-> IF m \in got[q] THEN NoRow ELSE progress[m]]
      <3>1. ToSet(NoRow.turns) = {}
        BY DEF NoRow, ToSet
      <3> QED
        BY <2>2, <3>1
    <2> QED
      BY <2>1, <2>2 DEF ClearStale
  <1>5. HeldInv(q)'
    <2> SUFFICES ASSUME NEW m \in names[q] \cap RunLevel
                 PROVE  ToSet(chat[m]) \cap ToSet(progress'[m].turns) \subseteq DealtTurns(q, m)
      BY <1>1, <1>2, <1>3 DEF HeldInv, At
    <2>1. ToSet(chat[m]) \cap ToSet(progress[m].turns) \subseteq DealtTurns(q, m)
      BY <1>1, <1>3 DEF HeldInv, At
    <2> QED
      BY <1>1, <1>4, <2>1
  <1> QED
    BY <1>1, <1>5 DEF StaleInv, At

\* The loop's own moves only add to what is dealt with.
LEMMA MoveHeld ==
    ASSUME IInv, NEW q \in Passes, NextTurn(q) \/ WriteScores(q) \/ Recorded(q),
           HeldInv(q), Looping(q)'
    PROVE  HeldInv(q)' /\ StaleInv(q)'
  <1>1. /\ at \in [Passes -> Nat] /\ pc \in [Passes -> PCs] /\ names[q] \subseteq Metrics
        /\ todo \in [Passes -> SUBSET Metrics]
    BY DEF IInv, TypeOK, LocalOK
  <1>2. /\ chat' = chat /\ progress' = progress
        /\ names' = names /\ view' = view /\ start' = start
        /\ pc[q] # "reset" /\ pc'[q] # "reset"
        /\ Looping(q)
    BY <1>1 DEF NextTurn, WriteScores, Recorded, Goto, plan, stores, At, Looping
  <1>3. /\ at'[q] \in Nat /\ at'[q] >= at[q]
        /\ At(q, "record") => at'[q] > at[q] \/ At(q, "record")'
    BY <1>1 DEF NextTurn, WriteScores, Recorded, Goto, At
  <1>4. \A m : DealtTurns(q, m) \subseteq DealtTurns(q, m)'
    BY <1>2, <1>3, DealtGrows DEF IInv
  <1>5. \A m \in Metrics : Pending(q, m) \subseteq Pending(q, m)'
    <2>1. CASE NextTurn(q)
      BY <2>1, NothingPending DEF NextTurn, At
    <2>2. CASE WriteScores(q)
      <3>1. /\ todo[q] = {} /\ todo'[q] = Due(q) /\ pc[q] = "grade" /\ pc'[q] = "record"
            /\ at' = at
        BY <1>1, <2>2 DEF WriteScores, At, Goto
      <3> QED
        BY <1>2, <3>1 DEF Pending, At, Turn, Due
    <2>3. CASE Recorded(q)
      <3>1. todo[q] = {} /\ pc[q] = "record"
        BY <2>3 DEF Recorded, At
      <3> QED
        BY <3>1 DEF Pending, At
    <2> QED
      BY <2>1, <2>2, <2>3
  <1>6. HeldInv(q)'
    <2> SUFFICES ASSUME NEW m \in names[q] \cap RunLevel
                 PROVE  ToSet(chat[m]) \cap ToSet(progress[m].turns)
                            \subseteq DealtTurns(q, m)' \cup Pending(q, m)'
      BY <1>2 DEF HeldInv, At
    <2>1. ToSet(chat[m]) \cap ToSet(progress[m].turns) \subseteq DealtTurns(q, m) \cup Pending(q, m)
      BY <1>2 DEF HeldInv, At
    <2> QED
      BY <1>1, <1>4, <1>5, <2>1
  <1> QED
    BY <1>2, <1>6 DEF StaleInv, At

\* Grading puts at most the turn in hand on a conversation.
LEMMA GradeHeld ==
    ASSUME IInv, NEW q \in Passes, NEW n \in Metrics, Grade(q, n), HeldInv(q)
    PROVE  HeldInv(q)' /\ StaleInv(q)'
  <1>1. /\ pc[q] = "grade" /\ n \in todo[q] /\ todo'[q] = todo[q] \ {n} /\ progress' = progress
        /\ pc' = pc /\ names' = names /\ view' = view /\ start' = start /\ at' = at
        /\ chat \in [Metrics -> Seq(Turns)] /\ names[q] \subseteq Metrics
        /\ chat' \in {chat, Told(q, n)}
    BY DEF Grade, Judged, JudgeFailed, plan, At, IInv, TypeOK, LocalOK, StoresOK
  <1>2. \A m : DealtTurns(q, m)' = DealtTurns(q, m)
    BY <1>1 DEF DealtTurns, Dealt, At
  <1>3. todo[q] \subseteq Due(q)
    BY <1>1 DEF IInv, PassInv, Looping, LoopInv, CursorInv
  <1>4. /\ \A m : Pending(q, m) \subseteq Pending(q, m)'
        /\ Pending(q, n)' = {Turn(q)}
    BY <1>1, <1>3 DEF Pending, At, Due, Turn
  <1>5. \A m \in Metrics : ToSet(chat'[m]) \subseteq ToSet(chat[m]) \cup Pending(q, m)'
    <2>1. CASE chat' = chat
      BY <2>1
    <2>2. CASE chat' = Told(q, n)
      <3>1. Turn(q) \in Turns
        BY <1>1, TurnType DEF IInv, At
      <3>2. \A m \in Metrics : \/ chat'[m] = chat[m]
                                 \/ (m = n /\ chat'[m] = Append(chat[m], Turn(q)))
        BY <1>1, <2>2 DEF Told
      <3>3. ASSUME NEW m \in Metrics, chat'[m] = Append(chat[m], Turn(q))
            PROVE  ToSet(chat'[m]) = ToSet(chat[m]) \cup {Turn(q)}
        BY <1>1, <3>1, <3>3, AppendElements
      <3> QED
        BY <1>4, <3>2, <3>3
    <2> QED
      BY <1>1, <2>1, <2>2
  <1>6. HeldInv(q)'
    <2> SUFFICES ASSUME NEW m \in names[q] \cap RunLevel
                 PROVE  ToSet(chat'[m]) \cap ToSet(progress[m].turns)
                            \subseteq DealtTurns(q, m) \cup Pending(q, m)'
      BY <1>1, <1>2 DEF HeldInv, At
    <2>1. ToSet(chat[m]) \cap ToSet(progress[m].turns) \subseteq DealtTurns(q, m) \cup Pending(q, m)
      BY <1>1 DEF HeldInv, At
    <2> QED
      BY <1>1, <1>4, <1>5, <2>1
  <1> QED
    BY <1>1, <1>6 DEF StaleInv, At

\* What a row records is dealt with.
LEMMA RecordHeld ==
    ASSUME IInv, NEW q \in Passes, NEW n \in Metrics, Record(q, n), HeldInv(q)
    PROVE  HeldInv(q)' /\ StaleInv(q)'
  <1>1. /\ pc[q] = "record" /\ n \in todo[q] /\ chat' = chat
        /\ pc' = pc /\ names' = names /\ view' = view /\ start' = start /\ at' = at
        /\ names[q] \subseteq Metrics /\ DOMAIN progress = Metrics
        /\ todo \in [Passes -> SUBSET Metrics]
    BY DEF Record, plan, At, IInv, TypeOK, LocalOK, StoresOK
  <1>2. \A m : DealtTurns(q, m)' = DealtTurns(q, m)
    BY <1>1 DEF DealtTurns, Dealt, At
  <1>3. \A m : Pending(q, m) \subseteq DealtTurns(q, m)
    BY <1>1, RowIsDealt DEF Pending, At
  <1>4. \A m \in Metrics : \/ progress'[m] = progress[m]
                           \/ (m = n /\ progress'[m] = RowUpTo(q, m))
    <2>1. progress' = progress \/ progress' = [progress EXCEPT ![n] = RowUpTo(q, n)]
      BY DEF Record
    <2> QED
      BY <1>1, <2>1
  <1>5. HeldInv(q)'
    <2> SUFFICES ASSUME NEW m \in names[q] \cap RunLevel
                 PROVE  ToSet(chat[m]) \cap ToSet(progress'[m].turns) \subseteq DealtTurns(q, m)
      BY <1>1, <1>2 DEF HeldInv, At
    <2>1. ToSet(chat[m]) \cap ToSet(progress[m].turns) \subseteq DealtTurns(q, m)
      BY <1>1, <1>3 DEF HeldInv, At
    <2>2. m = n => ToSet(RowUpTo(q, m).turns) = DealtTurns(q, m)
      BY <1>1, RowIsDealt DEF At
    <2> QED
      BY <1>1, <1>4, <2>1, <2>2
  <1> QED
    BY <1>1, <1>5 DEF StaleInv, At

\* Together: what a pass finds on a conversation is dealt with or in hand.
LEMMA HeldStep ==
    ASSUME IInv, RepeatInv, [Next]_vars, Clean', NEW q \in Passes, Looping(q)'
    PROVE  HeldInv(q)' /\ StaleInv(q)'
  <1>0. TypeOK /\ OneWriter /\ Clean /\ ~Strike("reset_failed") /\ pc \in [Passes -> PCs]
    BY CleanStep DEF IInv, RepeatInv, TypeOK, LocalOK
  <1>1. CASE ~Inside(q)
    BY <1>0, <1>1, OwnOrAlone, OutsideStep DEF Undisturbed, Inside, Looping
  <1>2. CASE Inside(q) /\ ~PassStep(q)
    <2>1. Undisturbed(q) /\ chat' = chat /\ progress' = progress
      BY <1>0, <1>2, InsideAlone
    <2>2. Looping(q)
      BY <2>1 DEF Looping, Undisturbed
    <2>3. HeldInv(q) /\ StaleInv(q)
      BY <1>0, <2>2 DEF RepeatInv
    <2>4. \A m : Pending(q, m)' = Pending(q, m) /\ DealtTurns(q, m)' = DealtTurns(q, m)
      BY <2>1 DEF Undisturbed, Pending, DealtTurns, Dealt, At, Due, Turn
    <2> QED
      BY <2>1, <2>3, <2>4 DEF Undisturbed, HeldInv, StaleInv, At
  <1>3. CASE Inside(q) /\ PassStep(q)
    <2>1. CASE LoadStarts(q)
      <3>1. \A m \in got'[q] \cap RunLevel : m \in todo'[q]
        BY <2>1 DEF LoadStarts, IInv, TypeOK, LocalOK
      <3> QED
        BY <2>1, <3>1, LoadHeld DEF StaleInv
    <2>2. CASE ~LoadStarts(q)
      <3>1. Looping(q)
        BY <1>0, <1>3, <2>2 DEF PassStep, Step, Inside, At, Looping, Goto, End, BeginAuto,
           BeginFull, Begin, Acquire, ProceedUnlocked, ReadTurns, ResetChat, ClearStale,
           NextTurn, Grade, WriteScores, Record, Recorded, Release, Raise, Crash
      <3>2. HeldInv(q) /\ StaleInv(q)
        BY <1>0, <3>1 DEF RepeatInv
      <3>3. CASE \E n \in Metrics : ResetChat(q, n)
        BY <1>0, <3>2, <3>3, ResetHeld
      <3>4. CASE ClearStale(q)
        BY <3>2, <3>4, ClearHeld
      <3>5. CASE NextTurn(q) \/ WriteScores(q) \/ Recorded(q)
        BY <3>2, <3>5, MoveHeld
      <3>6. CASE \E n \in Metrics : Grade(q, n)
        BY <3>2, <3>6, GradeHeld
      <3>7. CASE \E n \in Metrics : Record(q, n)
        BY <3>2, <3>7, RecordHeld
      <3>8. CASE Release(q) \/ Raise(q) \/ Crash(q)
        BY <1>0, <3>8 DEF Release, Raise, Crash, End, Goto, Looping
      <3> QED
        BY <1>0, <1>3, <2>2, <3>1, <3>3, <3>4, <3>5, <3>6, <3>7, <3>8
        DEF PassStep, Step, Looping, At, BeginAuto, BeginFull, Begin, Acquire,
            ProceedUnlocked, ReadTurns
    <2> QED
      BY <2>1, <2>2
  <1> QED
    BY <1>1, <1>2, <1>3

\* What one pass, alone inside, leaves loose on a conversation.
LooseOf(p, m) == (ToSet(chat[m]) \ ToSet(progress[m].turns)) \ Pending(p, m)

\* The bound as the pass inside sees it.
Paid(p, m) == Repeats(chat[m]) + Cardinality(LooseOf(p, m)) <= faults

\* What a step of the pass inside may do to a conversation: loosen nothing,
\* leave nothing, repeat a loose turn, or be a fault that loosens the turn in hand.
Kept(p, m) ==
    Repeats(chat[m])' = Repeats(chat[m]) /\ LooseOf(p, m)' \subseteq LooseOf(p, m)

Gone(p, m) == Repeats(chat[m])' = 0 /\ LooseOf(p, m)' = {}

Repeated(p, m) ==
    \E x \in LooseOf(p, m) :
        /\ Repeats(chat[m])' = Repeats(chat[m]) + 1
        /\ LooseOf(p, m)' \subseteq LooseOf(p, m) \ {x}

Loosened(p, m) ==
    /\ \E k \in {"crash", "raise", "record_failed"} : Strike(k)
    /\ chat'[m] = chat[m]
    /\ LooseOf(p, m)' \subseteq LooseOf(p, m) \cup {Turn(p)}

Tally(p, m) == Kept(p, m) \/ Gone(p, m) \/ Repeated(p, m) \/ Loosened(p, m)

\* Its numbers are numbers.
LEMMA PaidType ==
    ASSUME TypeOK, NEW p \in Passes, NEW m \in Metrics
    PROVE  /\ Repeats(chat[m]) \in Nat /\ faults \in Nat
           /\ IsFiniteSet(LooseOf(p, m)) /\ Cardinality(LooseOf(p, m)) \in Nat
  <1>1. chat[m] \in Seq(Turns) /\ faults \in Nat
    BY DEF TypeOK, StoresOK
  <1>2. LooseOf(p, m) \in SUBSET ToSet(chat[m])
    BY DEF LooseOf
  <1>3. IsFiniteSet(LooseOf(p, m))
    BY <1>1, <1>2, ToSetFinite, FS_Subset
  <1>4. Cardinality(LooseOf(p, m)) \in Nat
    BY <1>3, FS_CardinalityType
  <1> QED
    BY <1>1, <1>3, <1>4, RepeatsType

\* A fault pays for one more.
LEMMA FaultPays ==
    ASSUME TypeOK, NEW p \in Passes, NEW m \in Metrics, Paid(p, m),
           chat'[m] = chat[m], NEW x, LooseOf(p, m)' \subseteq LooseOf(p, m) \cup {x},
           faults' = faults + 1
    PROVE  Paid(p, m)'
  <1>1. /\ Repeats(chat[m]) \in Nat /\ faults \in Nat
        /\ IsFiniteSet(LooseOf(p, m)) /\ Cardinality(LooseOf(p, m)) \in Nat
    BY PaidType
  <1>2. /\ IsFiniteSet(LooseOf(p, m) \cup {x})
        /\ Cardinality(LooseOf(p, m) \cup {x}) <= Cardinality(LooseOf(p, m)) + 1
    <2>1. /\ IsFiniteSet(LooseOf(p, m) \cup {x})
          /\ Cardinality(LooseOf(p, m) \cup {x}) =
               IF x \in LooseOf(p, m) THEN Cardinality(LooseOf(p, m))
                                      ELSE Cardinality(LooseOf(p, m)) + 1
      BY <1>1, FS_AddElement
    <2> QED
      BY <1>1, <2>1
  <1>3. /\ IsFiniteSet(LooseOf(p, m)') /\ Cardinality(LooseOf(p, m)') \in Nat
        /\ Cardinality(LooseOf(p, m)') <= Cardinality(LooseOf(p, m) \cup {x})
    BY <1>2, FS_Subset, FS_CardinalityType
  <1>4. Cardinality(LooseOf(p, m) \cup {x}) \in Nat
    BY <1>2, FS_CardinalityType
  <1> QED
    BY <1>1, <1>2, <1>3, <1>4 DEF Paid

\* Nothing more loose, nothing more to pay.
LEMMA NothingLoosened ==
    ASSUME TypeOK, NEW p \in Passes, NEW m \in Metrics, Paid(p, m),
           Repeats(chat[m])' = Repeats(chat[m]),
           LooseOf(p, m)' \subseteq LooseOf(p, m), faults' \in Nat, faults' >= faults
    PROVE  Paid(p, m)'
  <1>1. /\ Repeats(chat[m]) \in Nat /\ faults \in Nat
        /\ IsFiniteSet(LooseOf(p, m)) /\ Cardinality(LooseOf(p, m)) \in Nat
    BY PaidType
  <1>2. /\ IsFiniteSet(LooseOf(p, m)') /\ Cardinality(LooseOf(p, m)') \in Nat
        /\ Cardinality(LooseOf(p, m)') <= Cardinality(LooseOf(p, m))
    BY <1>1, FS_Subset, FS_CardinalityType
  <1> QED
    BY <1>1, <1>2 DEF Paid

\* A loose turn told again is a repetition, and no longer loose.
LEMMA LooseTurnRepeats ==
    ASSUME TypeOK, NEW p \in Passes, NEW m \in Metrics, Paid(p, m),
           Repeats(chat[m])' = Repeats(chat[m]) + 1, NEW x \in LooseOf(p, m),
           LooseOf(p, m)' \subseteq LooseOf(p, m) \ {x}, faults' \in Nat, faults' >= faults
    PROVE  Paid(p, m)'
  <1>1. /\ Repeats(chat[m]) \in Nat /\ faults \in Nat
        /\ IsFiniteSet(LooseOf(p, m)) /\ Cardinality(LooseOf(p, m)) \in Nat
    BY PaidType
  <1>2. /\ IsFiniteSet(LooseOf(p, m) \ {x})
        /\ Cardinality(LooseOf(p, m) \ {x}) = Cardinality(LooseOf(p, m)) - 1
    BY <1>1, FS_RemoveElement
  <1>3. /\ IsFiniteSet(LooseOf(p, m)') /\ Cardinality(LooseOf(p, m)') \in Nat
        /\ Cardinality(LooseOf(p, m)') <= Cardinality(LooseOf(p, m) \ {x})
    BY <1>2, FS_Subset, FS_CardinalityType
  <1> QED
    BY <1>1, <1>2, <1>3 DEF Paid

\* An empty conversation repeats nothing.
LEMMA EmptyRepeats == Repeats(<<>>) = 0
  <1>1. ToSet(<<>>) = {} /\ Len(<<>>) = 0
    BY DEF ToSet
  <1>2. Cardinality(ToSet(<<>>)) = 0
    BY <1>1, FS_EmptySet
  <1> QED
    BY <1>1, <1>2 DEF Repeats

\* Whatever it does is paid for.
LEMMA TallyPaid ==
    ASSUME TypeOK, NEW p \in Passes, NEW m \in Metrics, Paid(p, m), Tally(p, m),
           faults' \in Nat, faults' >= faults
    PROVE  Paid(p, m)'
  <1>1. CASE Kept(p, m)
    BY <1>1, NothingLoosened DEF Kept
  <1>2. CASE Gone(p, m)
    <2>1. Repeats(chat[m])' = 0 /\ Cardinality(LooseOf(p, m)') = 0
      BY <1>2, FS_EmptySet DEF Gone
    <2> QED
      BY <2>1 DEF Paid
  <1>3. CASE Repeated(p, m)
    BY <1>3, LooseTurnRepeats DEF Repeated
  <1>4. CASE Loosened(p, m)
    <2>1. faults' = faults + 1
      BY <1>4 DEF Loosened, Strike
    <2> QED
      BY <1>4, <2>1, FaultPays DEF Loosened
  <1> QED
    BY <1>1, <1>2, <1>3, <1>4 DEF Tally

\* With one pass inside, the turn in hand is its own.
LEMMA LooseAlone ==
    ASSUME NEW p \in Passes, \A q \in Passes \ {p} : ~Inside(q), NEW m \in Metrics
    PROVE  Loose(m) = LooseOf(p, m)
  <1>1. \A q \in Passes \ {p} : Pending(q, m) = {}
    BY NothingPending DEF Inside
  <1>2. UNION {Pending(q, m) : q \in Passes} = Pending(p, m)
    BY <1>1
  <1> QED
    BY <1>2 DEF Loose, LooseOf

\* A step is a fault or leaves the record of faults alone.
LEMMA FaultOrNot == [Next]_vars => (\E k \in FaultKinds : Strike(k)) \/ UNCHANGED faultVars
  <1> SUFFICES ASSUME [Next]_vars, \A k \in FaultKinds : ~Strike(k)
               PROVE  UNCHANGED faultVars
    OBVIOUS
  <1>0. /\ ~Strike("lock_timeout") /\ ~Strike("redis_down") /\ ~Strike("ttl")
        /\ ~Strike("crash") /\ ~Strike("raise") /\ ~Strike("load_failed")
        /\ ~Strike("reset_failed") /\ ~Strike("clear_failed") /\ ~Strike("judge_failed")
        /\ ~Strike("chat_down") /\ ~Strike("record_failed")
    BY DEF FaultKinds
  <1>1. CASE (\E t \in Turns : \E k \in 1 .. Len(order) + 1 : Arrive(t, k)) \/ Expire
    BY <1>0, <1>1 DEF Arrive, Expire, NoFault
  <1>2. ASSUME NEW p \in Passes, PassStep(p) PROVE UNCHANGED faultVars
    <2>1. CASE \/ BeginAuto(p) \/ \E chosen \in SUBSET Metrics \ {{}} : BeginFull(p, chosen)
               \/ Acquire(p) \/ ReadTurns(p) \/ NextTurn(p) \/ WriteScores(p) \/ Recorded(p)
      BY <2>1 DEF BeginAuto, BeginFull, Acquire, ReadTurns, NextTurn, WriteScores, Recorded,
                  faultVars
    <2>2. CASE ProceedUnlocked(p) \/ Release(p) \/ Raise(p) \/ Crash(p)
      BY <1>0, <2>2 DEF ProceedUnlocked, Release, Raise, Crash, NoFault
    <2>3. CASE LoadStarts(p) \/ ClearStale(p)
      BY <1>0, <2>3 DEF LoadStarts, ClearStale, NoFault
    <2>4. CASE \E m \in Metrics : ResetChat(p, m) \/ Grade(p, m) \/ Record(p, m)
      BY <1>0, <2>4 DEF ResetChat, Grade, Judged, JudgeFailed, Record, NoFault
    <2> QED
      BY <1>2, <2>1, <2>2, <2>3, <2>4 DEF PassStep, Step
  <1>3. CASE UNCHANGED vars
    BY <1>3 DEF vars
  <1> QED
    BY <1>1, <1>2, <1>3 DEF Next, PassStep

\* Counted faults are never forgotten.
LEMMA FaultsGrow == TypeOK /\ [Next]_vars => faults' \in Nat /\ faults' >= faults
  BY FaultOrNot DEF TypeOK, StoresOK, Strike, faultVars

\* A conversation deleted is gone.
LEMMA ResetTally ==
    ASSUME IInv, NEW q \in Passes, NEW m \in Metrics, ResetChat(q, m),
           ~Strike("reset_failed"), NEW n \in Metrics
    PROVE  Tally(q, n)
  <1>1. /\ chat' = Emptied(m) /\ progress' = progress /\ pc[q] = "reset" /\ pc' = pc
        /\ chat \in [Metrics -> Seq(Turns)] /\ TypeOK
    BY DEF ResetChat, At, IInv, TypeOK, StoresOK
  <1>2. CASE n = m
    <2>1. chat'[n] = <<>>
      BY <1>1, <1>2 DEF Emptied
    <2>2. LooseOf(q, n)' = {}
      BY <2>1 DEF LooseOf, ToSet
    <2> QED
      BY <2>1, <2>2, EmptyRepeats DEF Tally, Gone
  <1>3. CASE n # m
    <2>1. chat'[n] = chat[n]
      BY <1>1, <1>3 DEF Emptied
    <2>2. Pending(q, n) = {} /\ Pending(q, n)' = {}
      BY <1>1 DEF Pending, At
    <2> QED
      BY <1>1, <2>1, <2>2 DEF Tally, Kept, LooseOf
  <1> QED
    BY <1>2, <1>3

\* A row is cleared when its conversation is gone.
LEMMA ClearTally ==
    ASSUME IInv, ThreadInv, NEW q \in Passes, ClearStale(q), StaleInv(q),
           NEW n \in Metrics
    PROVE  Tally(q, n)
  <1>1. /\ chat' = chat /\ pc[q] = "reset" /\ pc'[q] = "turn" /\ todo[q] = {}
        /\ TypeOK
        /\ chat \in [Metrics -> Seq(Turns)]
    BY DEF ClearStale, At, Goto, IInv, TypeOK, StoresOK, LocalOK
  <1>2. Pending(q, n) = {} /\ Pending(q, n)' = {}
    BY <1>1 DEF Pending, At
  <1>3. CASE progress'[n] = progress[n]
    BY <1>1, <1>2, <1>3 DEF Tally, Kept, LooseOf
  <1>4. CASE n \in got[q]
    <2>1. chat'[n] = <<>>
      BY <1>1, <1>4 DEF StaleInv, At, ThreadInv
    <2>2. LooseOf(q, n)' = {} /\ LooseOf(q, n) = {} /\ Repeats(chat[n])' = Repeats(chat[n])
      BY <1>1, <2>1 DEF LooseOf, ToSet
    <2> QED
      BY <1>1, <2>2 DEF Tally, Kept
  <1> QED
    BY <1>3, <1>4 DEF ClearStale

\* Moving on loosens nothing.
LEMMA MoveTally ==
    ASSUME IInv, NEW q \in Passes, NEW n \in Metrics,
           \/ ReadTurns(q) \/ LoadStarts(q) \/ NextTurn(q) \/ WriteScores(q)
           \/ Recorded(q) \/ Release(q)
    PROVE  Tally(q, n)
  <1>1. /\ chat' = chat /\ progress' = progress /\ TypeOK
        /\ pc \in [Passes -> PCs] /\ todo \in [Passes -> SUBSET Metrics]
    BY DEF ReadTurns, LoadStarts, NextTurn, WriteScores, Recorded, Release, stores,
           IInv, TypeOK, StoresOK, LocalOK
  <1>2. Pending(q, n) \subseteq Pending(q, n)'
    <2>1. CASE ReadTurns(q) \/ LoadStarts(q) \/ NextTurn(q) \/ Release(q)
      BY <2>1, NothingPending DEF ReadTurns, LoadStarts, NextTurn, Release, At
    <2>2. CASE WriteScores(q)
      <3>1. /\ todo[q] = {} /\ todo'[q] = Due(q) /\ pc[q] = "grade" /\ pc'[q] = "record"
            /\ at' = at /\ view' = view
        BY <1>1, <2>2 DEF WriteScores, At, Goto, plan
      <3> QED
        BY <3>1 DEF Pending, At, Turn
    <2>3. CASE Recorded(q)
      <3>1. todo[q] = {} /\ pc[q] = "record"
        BY <2>3 DEF Recorded, At
      <3> QED
        BY <3>1 DEF Pending, At
    <2> QED
      BY <2>1, <2>2, <2>3
  <1>3. LooseOf(q, n)' \subseteq LooseOf(q, n)
    BY <1>1, <1>2 DEF LooseOf
  <1>4. Repeats(chat[n])' = Repeats(chat[n])
    BY <1>1
  <1> QED
    BY <1>1, <1>3, <1>4 DEF Tally, Kept

\* A turn told again is one an earlier fault left loose.
LEMMA GradeTally ==
    ASSUME IInv, ThreadInv, NEW q \in Passes, NEW m \in Metrics, Grade(q, m), HeldInv(q),
           NEW n \in Metrics
    PROVE  Tally(q, n)
  <1> DEFINE x == Turn(q)
  <1>1. /\ pc[q] = "grade" /\ m \in todo[q] /\ todo'[q] = todo[q] \ {m} /\ progress' = progress
        /\ pc' = pc /\ names' = names /\ view' = view /\ start' = start /\ at' = at
        /\ chat \in [Metrics -> Seq(Turns)] /\ chat' \in {chat, Told(q, m)}
        /\ TypeOK
    BY DEF Grade, Judged, JudgeFailed, plan, At, IInv, TypeOK, LocalOK, StoresOK
  <1>2. /\ at[q] \in Nat /\ start[q] \in [Metrics -> Nat] /\ names[q] \subseteq Metrics
        /\ view[q] \in Seq(Turns)
    BY <1>1 DEF TypeOK, LocalOK
  <1>3. todo[q] \subseteq Due(q) /\ at[q] \in 1 .. Len(view[q])
    BY <1>1, <1>2 DEF IInv, PassInv, Looping, LoopInv, CursorInv
  <1>4. x \in Turns
    BY <1>1, TurnType DEF IInv, At
  <1>5. /\ Pending(q, n) \subseteq Pending(q, n)'
        /\ Pending(q, m) = {} /\ Pending(q, m)' = {x}
    BY <1>1, <1>3 DEF Pending, At, Due, Turn
  <1>6. CASE chat'[n] = chat[n]
    <2>1. LooseOf(q, n)' \subseteq LooseOf(q, n)
      BY <1>1, <1>5, <1>6 DEF LooseOf
    <2>2. Repeats(chat[n])' = Repeats(chat[n])
      BY <1>6
    <2> QED
      BY <1>1, <2>1, <2>2 DEF Tally, Kept
  <1>7. CASE m \in RunLevel /\ n = m /\ chat'[n] = Append(chat[n], x)
    <2>1. ToSet(chat'[n]) = ToSet(chat[n]) \cup {x}
      BY <1>1, <1>4, <1>7, AppendElements
    <2>2. Repeats(chat[n])' = IF x \in ToSet(chat[n]) THEN Repeats(chat[n]) + 1
                                                      ELSE Repeats(chat[n])
      BY <1>1, <1>4, <1>7, AppendRepeats
    <2>3. LooseOf(q, n)' \subseteq LooseOf(q, n) \ {x}
      BY <1>1, <1>5, <1>7, <2>1 DEF LooseOf
    <2>4. CASE x \notin ToSet(chat[n])
      BY <1>1, <2>2, <2>3, <2>4 DEF Tally, Kept
    <2>5. CASE x \in ToSet(chat[n])
      <3>1. x \notin DealtTurns(q, n)
        <4>1. start[q][n] \in Nat /\ start[q][n] < at[q]
          BY <1>1, <1>2, <1>3, <1>7 DEF Due
        <4>2. ASSUME NEW j \in 1 .. Len(view[q]), Dealt(q, n, j), view[q][j] = x PROVE FALSE
          <5>1. j = at[q]
            BY <1>2, <1>3, <4>2 DEF ThreadInv, Distinct, Turn
          <5> QED
            BY <1>1, <1>2, <4>1, <4>2, <5>1 DEF Dealt, At
        <4> QED
          BY <4>2 DEF DealtTurns
      <3>2. ToSet(chat[n]) \cap ToSet(progress[n].turns) \subseteq DealtTurns(q, n)
        <4>1. n \in names[q] \cap RunLevel
          BY <1>1, <1>3, <1>7 DEF Due
        <4> QED
          BY <1>1, <1>5, <1>7, <4>1 DEF HeldInv, At
      <3>3. x \in LooseOf(q, n)
        BY <1>5, <1>7, <2>5, <3>1, <3>2 DEF LooseOf
      <3> QED
        BY <1>1, <2>2, <2>3, <2>5, <3>3 DEF Tally, Repeated
    <2> QED
      BY <2>4, <2>5
  <1>8. chat'[n] = chat[n] \/ (m \in RunLevel /\ n = m /\ chat'[n] = Append(chat[n], x))
    BY <1>1 DEF Told
  <1> QED
    BY <1>6, <1>7, <1>8

\* Recording the turns dealt with ties them down; failing to is a fault.
LEMMA RecordTally ==
    ASSUME IInv, NEW q \in Passes, NEW m \in Metrics, Record(q, m), HeldInv(q), ThreadInv,
           NEW n \in Metrics
    PROVE  Tally(q, n)
  <1>1. /\ pc[q] = "record" /\ m \in todo[q] /\ chat' = chat
        /\ pc' = pc /\ names' = names /\ view' = view /\ start' = start /\ at' = at
        /\ names[q] \subseteq Metrics /\ DOMAIN progress = Metrics
        /\ todo \in [Passes -> SUBSET Metrics] /\ TypeOK
    BY DEF Record, plan, At, IInv, TypeOK, LocalOK, StoresOK
  <1>2. CASE Strike("record_failed") /\ progress' = progress
    <2>1. LooseOf(q, n)' \subseteq LooseOf(q, n) \cup {Turn(q)}
      BY <1>1, <1>2 DEF LooseOf, Pending, At
    <2> QED
      BY <1>1, <1>2, <2>1 DEF Tally, Loosened
  <1>3. CASE /\ progress' = [progress EXCEPT ![m] = RowUpTo(q, m)]
             /\ todo'[q] = todo[q] \ {m}
    <2>1. CASE n # m
      <3>1. progress'[n] = progress[n] /\ Pending(q, n)' = Pending(q, n)
        BY <1>1, <1>3, <2>1 DEF Pending, At, Turn
      <3> QED
        BY <1>1, <3>1 DEF Tally, Kept, LooseOf
    <2>2. CASE n = m /\ n \in RunLevel
      <3>1. progress'[n].turns = RowUpTo(q, n).turns
        BY <1>1, <1>3, <2>2
      <3>2. /\ ToSet(progress'[n].turns) = DealtTurns(q, n) /\ Turn(q) \in DealtTurns(q, n)
        BY <1>1, <2>2, <3>1, RowIsDealt DEF At
      <3>3. Pending(q, n) = {Turn(q)} /\ Pending(q, n)' = {}
        BY <1>1, <1>3, <2>2 DEF Pending, At
      <3>4. ToSet(chat[n]) \cap ToSet(progress[n].turns) \subseteq DealtTurns(q, n)
        <4>1. m \in Due(q)
          BY <1>1 DEF IInv, PassInv, Looping, LoopInv, CursorInv
        <4>2. n \in names[q] \cap RunLevel
          BY <2>2, <4>1 DEF Due
        <4> QED
          BY <1>1, <3>2, <3>3, <4>2 DEF HeldInv, At
      <3>5. LooseOf(q, n)' \subseteq LooseOf(q, n)
        BY <1>1, <3>2, <3>3, <3>4 DEF LooseOf
      <3> QED
        BY <1>1, <3>5 DEF Tally, Kept
    <2>3. CASE n \notin RunLevel
      <3>1. chat'[n] = <<>>
        BY <1>1, <2>3 DEF ThreadInv
      <3>2. LooseOf(q, n)' = {}
        BY <3>1 DEF LooseOf, ToSet
      <3> QED
        BY <1>1, <3>2 DEF Tally, Kept
    <2> QED
      BY <2>1, <2>2, <2>3
  <1> QED
    BY <1>1, <1>2, <1>3 DEF Record

\* A pass that dies leaves the turn in hand loose.
LEMMA DeathTally ==
    ASSUME NEW q \in Passes, Raise(q) \/ Crash(q),
           NEW n \in Metrics
    PROVE  Tally(q, n)
  <1>1. /\ chat' = chat /\ progress' = progress
        /\ Strike("raise") \/ Strike("crash")
    BY DEF Raise, Crash, stores
  <1>2. LooseOf(q, n)' \subseteq LooseOf(q, n) \cup {Turn(q)}
    BY <1>1 DEF LooseOf, Pending
  <1> QED
    BY <1>1, <1>2 DEF Tally, Loosened

\* While a pass is inside, only its own steps count.
LEMMA InsideTally ==
    ASSUME IInv, RepeatInv, [Next]_vars, Clean', NEW q \in Passes, Inside(q), PassStep(q),
           NEW n \in Metrics
    PROVE  /\ Tally(q, n)
           /\ Loose(n) = LooseOf(q, n) /\ Loose(n)' = LooseOf(q, n)'
  <1>0. /\ TypeOK /\ ThreadInv /\ OneWriter /\ Clean /\ ~Strike("reset_failed")
    BY CleanStep DEF IInv, RepeatInv
  <1>1. \A p \in Passes \ {q} : ~Inside(p) /\ Undisturbed(p)
    BY <1>0, OnlyOneInside, OthersUndisturbed
  <1>2. Loose(n) = LooseOf(q, n)
    BY <1>1, LooseAlone
  <1>3. Loose(n)' = LooseOf(q, n)'
    <2>1. \A p \in Passes \ {q} : Pending(p, n)' = {}
      BY <1>1 DEF Undisturbed, Inside, Pending, At
    <2>2. UNION {Pending(p, n)' : p \in Passes} = Pending(q, n)'
      BY <2>1
    <2> QED
      BY <2>2 DEF Loose, LooseOf
  <1>4. Looping(q) => HeldInv(q) /\ StaleInv(q)
    BY <1>0 DEF RepeatInv
  <1>5. Tally(q, n)
    <2>1. CASE \E m \in Metrics : ResetChat(q, m)
      BY <1>0, <2>1, ResetTally
    <2>2. CASE ClearStale(q)
      BY <1>0, <1>4, <2>2, ClearTally DEF ClearStale, At, Looping
    <2>3. CASE \/ ReadTurns(q) \/ LoadStarts(q) \/ NextTurn(q) \/ WriteScores(q)
               \/ Recorded(q) \/ Release(q)
      BY <2>3, MoveTally
    <2>4. ASSUME NEW m \in Metrics, Grade(q, m) PROVE Tally(q, n)
      BY <1>0, <1>4, <2>4, GradeTally DEF Grade, At, Looping
    <2>5. ASSUME NEW m \in Metrics, Record(q, m) PROVE Tally(q, n)
      BY <1>0, <1>4, <2>5, RecordTally DEF Record, At, Looping
    <2>6. CASE Raise(q) \/ Crash(q)
      BY <2>6, DeathTally
    <2> QED
      BY <2>1, <2>2, <2>3, <2>4, <2>5, <2>6 DEF PassStep, Step, Inside, At,
         BeginAuto, BeginFull, Begin, Acquire, ProceedUnlocked
  <1> QED
    BY <1>2, <1>3, <1>5

\* While nobody inside moves, nothing is told, loosened or tied down.
LEMMA OutsideStill ==
    ASSUME TypeOK, [Next]_vars, \A q \in Passes : ~(Inside(q) /\ PassStep(q))
    PROVE  chat' = chat /\ \A n : Loose(n)' = Loose(n)
  <1>1. chat' = chat /\ progress' = progress
    <2>1. CASE \E p \in Passes : PassStep(p)
      BY <2>1, OutsideStep
    <2>2. CASE UNCHANGED stores
      BY <2>2 DEF stores
    <2> QED
      BY <2>1, <2>2 DEF Next, PassStep, Arrive, Expire, vars
  <1>2. ASSUME NEW p \in Passes, NEW n PROVE Pending(p, n)' = Pending(p, n)
    <2>1. CASE Undisturbed(p)
      BY <2>1 DEF Undisturbed, Pending, At, Due, Turn
    <2>2. CASE PassStep(p)
      <3>1. ~Inside(p) /\ pc'[p] \in {"idle", "wait", "read"}
        BY <2>2, OutsideStep
      <3> QED
        BY <3>1 DEF Inside, Pending, At
    <2> QED
      BY <2>1, <2>2, OwnOrAlone
  <1>3. ASSUME NEW n PROVE Loose(n)' = Loose(n)
    <2>1. UNION {Pending(p, n)' : p \in Passes} = UNION {Pending(p, n) : p \in Passes}
      BY <1>2
    <2> QED
      BY <1>1, <2>1 DEF Loose
  <1> QED
    BY <1>1, <1>3

\* Every step pays for what it repeats or loosens.
LEMMA PaidStep ==
    ASSUME IInv, RepeatInv, [Next]_vars, Clean'
    PROVE  PaidInv'
  <1> SUFFICES ASSUME NEW n \in Metrics
               PROVE  (Repeats(chat[n]) + Cardinality(Loose(n)) <= faults)'
    BY DEF PaidInv
  <1>0. /\ TypeOK /\ Clean /\ faults' >= faults /\ faults' \in Nat /\ faults \in Nat
        /\ Repeats(chat[n]) + Cardinality(Loose(n)) <= faults
    BY CleanStep, FaultsGrow DEF IInv, RepeatInv, PaidInv, TypeOK, StoresOK
  <1>1. ASSUME NEW q \in Passes, Inside(q), PassStep(q)
        PROVE  (Repeats(chat[n]) + Cardinality(Loose(n)) <= faults)'
    <2>1. /\ Tally(q, n)
          /\ Loose(n) = LooseOf(q, n) /\ Loose(n)' = LooseOf(q, n)'
      BY <1>1, InsideTally
    <2> QED
      BY <1>0, <2>1, TallyPaid DEF Paid
  <1>2. CASE \A q \in Passes : ~(Inside(q) /\ PassStep(q))
    <2>1. Repeats(chat[n]) + Cardinality(Loose(n)) \in Nat
      <3>1. chat[n] \in Seq(Turns) /\ Loose(n) \in SUBSET ToSet(chat[n])
        BY <1>0 DEF Loose, TypeOK, StoresOK
      <3>2. Cardinality(Loose(n)) \in Nat
        BY <3>1, ToSetFinite, FS_Subset, FS_CardinalityType
      <3> QED
        BY <3>1, <3>2, RepeatsType
    <2>2. (Repeats(chat[n]) + Cardinality(Loose(n)))' = Repeats(chat[n]) + Cardinality(Loose(n))
      BY <1>0, <1>2, OutsideStill
    <2> QED
      BY <1>0, <2>1, <2>2
  <1> QED
    BY <1>1, <1>2

\* The invariant holds before any turn has arrived.
LEMMA InitRepeatInv == Init => RepeatInv
  <1> SUFFICES ASSUME Init PROVE RepeatInv
    OBVIOUS
  <1>1. OneWriter /\ ThreadInv
    BY DEF Init, OneWriter, Inside, ThreadInv, Distinct
  <1>2. PaidInv
    <2> SUFFICES ASSUME NEW m \in Metrics
                 PROVE  Repeats(chat[m]) + Cardinality(Loose(m)) <= faults
      BY DEF PaidInv
    <2>1. chat[m] = <<>> /\ faults = 0
      BY DEF Init
    <2>2. Loose(m) = {} /\ Cardinality({}) = 0
      BY <2>1, FS_EmptySet DEF Loose, ToSet
    <2>3. Repeats(chat[m]) = 0 /\ Cardinality(Loose(m)) = 0
      BY <2>1, <2>2, EmptyRepeats
    <2> QED
      BY <2>1, <2>3
  <1>3. \A p \in Passes : ~Looping(p)
    BY DEF Init, Looping
  <1> QED
    BY <1>1, <1>2, <1>3 DEF RepeatInv

\* The invariant is inductive.
LEMMA StepRepeatInv == IInv /\ RepeatInv /\ [Next]_vars => RepeatInv'
  <1> SUFFICES ASSUME IInv, RepeatInv, [Next]_vars PROVE RepeatInv'
    OBVIOUS
  <1>1. OneWriter' /\ ThreadInv'
    BY OneWriterStep, ThreadInvStep DEF RepeatInv
  <1>2. Clean' => PaidInv'
    BY PaidStep
  <1>3. ASSUME Clean', NEW p \in Passes, Looping(p)' PROVE HeldInv(p)' /\ StaleInv(p)'
    BY <1>3, HeldStep
  <1> QED
    BY <1>1, <1>2, <1>3 DEF RepeatInv

\* What pays for what holds with the invariant of the rows.
THEOREM RepeatsInvariance == Spec => []RepeatInv
  BY InitRepeatInv, StepRepeatInv, Invariance, PTL DEF Spec

\* A judge's durable conversation repeats a turn at most once for each crash,
\* retry or lost progress write, for any number of passes and metrics, as long
\* as the lock keeps the passes apart and reset_chat does not fail.
THEOREM RepeatsBounded == Spec => []RepeatsBoundedByFaults
  <1>1. ASSUME IInv, RepeatInv PROVE RepeatsBoundedByFaults
    <2> SUFFICES ASSUME Clean, NEW m \in Metrics PROVE Repeats(chat[m]) <= faults
      BY DEF RepeatsBoundedByFaults, Clean
    <2>1. chat[m] \in Seq(Turns) /\ faults \in Nat /\ Loose(m) \in SUBSET ToSet(chat[m])
      BY <1>1 DEF IInv, TypeOK, StoresOK, Loose
    <2>2. Cardinality(Loose(m)) \in Nat /\ Repeats(chat[m]) \in Nat
      BY <2>1, ToSetFinite, FS_Subset, FS_CardinalityType, RepeatsType
    <2>3. Repeats(chat[m]) + Cardinality(Loose(m)) <= faults
      BY <1>1 DEF RepeatInv, PaidInv
    <2> QED
      BY <2>1, <2>2, <2>3
  <1>2. IInv /\ RepeatInv => RepeatsBoundedByFaults
    BY <1>1
  <1> QED
    BY <1>2, Invariance, RepeatsInvariance, PTL

-----------------------------------------------------------------------------
(* The refinement of the ordered conversations                             *)

\* The faults that neither end a pass, lose a row, nor let two passes in.
MildFaults == {"load_failed", "clear_failed", "judge_failed", "chat_down"}

\* No other fault has struck.
OnlyMild == struck \subseteq MildFaults

\* Then every turn on a conversation is recorded, or in hand.
TiedInv == OnlyMild => \A m \in Metrics : Loose(m) = {}

\* None is striking either.
LEMMA MildStep ==
    ASSUME TypeOK, [Next]_vars, OnlyMild'
    PROVE  OnlyMild /\ Clean' /\ \A k \in {"crash", "raise", "record_failed"} : ~Strike(k)
  <1>1. OnlyMild /\ Clean'
    BY Grows DEF OnlyMild, MildFaults, Clean, Struck, Grown
  <1>2. ASSUME NEW k \in {"crash", "raise", "record_failed"}, Strike(k) PROVE FALSE
    BY <1>2 DEF OnlyMild, MildFaults, Strike
  <1> QED
    BY <1>1, <1>2

\* No step loosens a turn.
LEMMA TiedStep == IInv /\ RepeatInv /\ TiedInv /\ [Next]_vars => TiedInv'
  <1> SUFFICES ASSUME IInv, RepeatInv, TiedInv, [Next]_vars, OnlyMild', NEW n \in Metrics
               PROVE  Loose(n)' = {}
    BY DEF TiedInv
  <1>0. /\ TypeOK /\ Clean' /\ Loose(n) = {}
        /\ \A k \in {"crash", "raise", "record_failed"} : ~Strike(k)
    BY MildStep DEF IInv, TiedInv
  <1>1. ASSUME NEW q \in Passes, Inside(q), PassStep(q) PROVE Loose(n)' = {}
    <2>1. /\ Tally(q, n)
          /\ Loose(n) = LooseOf(q, n) /\ Loose(n)' = LooseOf(q, n)'
      BY <1>0, <1>1, InsideTally
    <2> QED
      BY <1>0, <2>1 DEF Tally, Kept, Gone, Repeated, Loosened
  <1>2. CASE \A q \in Passes : ~(Inside(q) /\ PassStep(q))
    BY <1>0, <1>2, OutsideStill
  <1> QED
    BY <1>1, <1>2

\* A turn told to a judge is one its conversation does not hold.
LEMMA ToldIsNew ==
    ASSUME IInv, RepeatInv, TiedInv, [Next]_vars, OnlyMild',
           NEW q \in Passes, NEW n \in RunLevel, Grade(q, n), chat'[n] = Append(chat[n], Turn(q))
    PROVE  Turn(q) \in Turns \ ToSet(chat[n])
  <1>1. Turn(q) \in Turns
    BY TurnType DEF Grade, IInv
  <1>2. n \in Metrics /\ chat[n] \in Seq(Turns)
    BY ConstantsAssumption DEF IInv, TypeOK, StoresOK
  <1>3. Inside(q) /\ PassStep(q)
    BY <1>2 DEF Grade, At, Inside, PassStep, Step
  <1>4. Tally(q, n) /\ LooseOf(q, n) = {}
    BY <1>2, <1>3, MildStep, InsideTally DEF IInv, TiedInv
  <1>5. ASSUME Turn(q) \in ToSet(chat[n]) PROVE FALSE
    <2>1. Repeats(chat[n])' = Repeats(chat[n]) + 1 /\ Repeats(chat[n]) \in Nat
      BY <1>1, <1>2, <1>5, AppendRepeats, RepeatsType
    <2>2. chat'[n] # chat[n]
      <3>1. Len(Append(chat[n], Turn(q))) = Len(chat[n]) + 1 /\ Len(chat[n]) \in Nat
        BY <1>1, <1>2
      <3> QED
        BY <3>1
    <2>3. ~Kept(q, n) /\ ~Gone(q, n) /\ ~Repeated(q, n) /\ ~Loosened(q, n)
      BY <1>4, <2>1, <2>2 DEF Kept, Gone, Repeated, Loosened
    <2> QED
      BY <1>4, <2>3 DEF Tally
  <1> QED
    BY <1>1, <1>5

\* Every step of the passes is a step of one conversation, or of none.
LEMMA ConversationStep ==
    IInv /\ RepeatInv /\ TiedInv /\ [Next]_vars /\ OnlyMild' => [Conversations!Next]_chat
  <1> SUFFICES ASSUME IInv, RepeatInv, TiedInv, [Next]_vars, OnlyMild', chat' # chat
               PROVE  Conversations!Next
    OBVIOUS
  <1>0. RunLevel \subseteq Metrics
    BY ConstantsAssumption
  <1>1. ASSUME NEW q \in Passes, NEW n \in Metrics, ResetChat(q, n) PROVE Conversations!Next
    <2>1. chat' = [chat EXCEPT ![n] = <<>>]
      BY <1>1 DEF ResetChat, Emptied
    <2> QED
      BY <2>1 DEF Conversations!Next, Conversations!Restart
  <1>2. ASSUME NEW q \in Passes, NEW n \in Metrics, Grade(q, n) PROVE Conversations!Next
    <2>1. n \in RunLevel /\ chat' = [chat EXCEPT ![n] = Append(@, Turn(q))]
      BY <1>2 DEF Grade, Judged, JudgeFailed, Told
    <2>2. chat'[n] = Append(chat[n], Turn(q))
      BY <2>1 DEF IInv, TypeOK, StoresOK
    <2>3. Turn(q) \in Turns \ ToSet(chat[n])
      BY <1>2, <2>1, <2>2, ToldIsNew
    <2>4. \E t \in Turns \ ToSet(chat[n]) : chat' = [chat EXCEPT ![n] = Append(@, t)]
      BY <2>1, <2>3
    <2>5. Conversations!Grow(n)
      BY <2>4 DEF Conversations!Grow, Conversations!ToSet, ToSet
    <2> QED
      BY <2>5 DEF Conversations!Next
  <1>3. \E q \in Passes : \E n \in Metrics : ResetChat(q, n) \/ Grade(q, n)
    BY DEF Next, Step, vars, stores, Arrive, Expire, BeginAuto, BeginFull, Acquire,
           ProceedUnlocked, ReadTurns, LoadStarts, ClearStale, NextTurn, WriteScores,
           Record, Recorded, Release, Raise, Crash
  <1> QED
    BY <1>1, <1>2, <1>3

\* Turns stay tied down as long as only mild faults strike.
LEMMA TiedInvariance == Spec => []TiedInv
  <1>1. Init => TiedInv
    BY DEF Init, TiedInv, Loose, ToSet
  <1> QED
    BY <1>1, TiedStep, Invariance, RepeatsInvariance, PTL DEF Spec

\* What checkpointer.py promises, for every thread and any number of passes:
\* whatever interleaves, whichever turns arrive late or are graded again, and
\* even when loading or clearing the rows, a judge or its checkpointer fails,
\* a judge's conversation never holds a turn twice and is only ever extended or
\* started over.  Losing the lock, a reset, a row or a whole pass can break it.
THEOREM ConversationsOrdered ==
    ASSUME Faults \subseteq MildFaults
    PROVE  Spec => ChatIsOrderedConversation
  <1>1. Init => Conversations!Init
    BY DEF Init, Conversations!Init
  <1>2. TypeOK' => OnlyMild'
    BY DEF TypeOK, StoresOK, OnlyMild
  <1>3. IInv /\ IInv' /\ RepeatInv /\ TiedInv /\ [Next]_vars => [Conversations!Next]_chat
    BY <1>2, ConversationStep DEF IInv
  <1> QED
    BY <1>1, <1>3, Invariance, RepeatsInvariance, TiedInvariance, PTL
    DEF Spec, ChatIsOrderedConversation, Conversations!Spec

-----------------------------------------------------------------------------
(* Without faults: a conversation keeps the order of the thread            *)

\* The items of a conversation stand in the order of the sequence.
Ordered(c, s) == \A i, j \in DOMAIN c : i < j => Before(s, c[i], c[j])

\* How many turns of its view a pass has dealt with, and has recorded.
DealtLen(q, m) ==
    IF start[q][m] >= at[q] THEN start[q][m]
    ELSE IF At(q, "record") THEN at[q] ELSE at[q] - 1

RowLen(q, m) ==
    IF start[q][m] >= at[q] THEN start[q][m]
    ELSE IF At(q, "record") /\ m \notin todo[q] THEN at[q] ELSE at[q] - 1

\* A pass stays within its view and its metrics.
WithinPlan(q) ==
    /\ at[q] <= Len(view[q]) + 1
    /\ \A m \in names[q] : start[q][m] <= Len(view[q])
    /\ At(q, "reset") =>
          /\ at[q] = 1 /\ todo[q] \subseteq names[q] /\ got[q] \subseteq names[q]
          /\ \A m \in todo[q] : start[q][m] = 0

\* Before the stale rows are cleared: a metric starts over with a row to be
\* cleared or none, or goes on from its row.
StartSound(q, m) ==
    \/ start[q][m] = 0 /\ (m \in got[q] \/ progress[m].turns = <<>>)
    \/ /\ start[q][m] > 0 /\ m \notin got[q]
       /\ progress[m].turns = SubSeq(view[q], 1, start[q][m])

\* The row is what the pass has recorded of its view.
RowAsRead(q, m) ==
    IF At(q, "reset") THEN StartSound(q, m)
    ELSE progress[m].turns = SubSeq(view[q], 1, RowLen(q, m))

\* The conversation is what the pass has dealt with, in the order of its view.
ChatAsRead(q, m) ==
    /\ Ordered(chat[m], view[q])
    /\ ToSet(chat[m]) \subseteq DealtTurns(q, m) \cup Pending(q, m)
    /\ (DealtTurns(q, m) \cup Pending(q, m)) \cap Sampled[m] \subseteq ToSet(chat[m])

PassOrder(q) ==
    /\ WithinPlan(q)
    /\ \A m \in names[q] \cap RunLevel :
          /\ RowAsRead(q, m)
          /\ ~(At(q, "reset") /\ m \in todo[q]) => ChatAsRead(q, m)

\* Between passes conversation and row agree.
Steady(m) ==
    /\ Ordered(chat[m], progress[m].turns)
    /\ ToSet(progress[m].turns) \cap Sampled[m] \subseteq ToSet(chat[m])

\* No pass is at work on a metric.
LeftAlone(m) == \A q \in Passes : ~(Looping(q) /\ m \in names[q])

OrderInv ==
    faults = 0 =>
        /\ struck = {}
        /\ \A q \in Passes : Looping(q) => PassOrder(q)
        /\ \A m \in RunLevel : LeftAlone(m) => Steady(m)

\* Before the first fault none has struck.
LEMMA NoFaultStep ==
    ASSUME IInv, OrderInv, [Next]_vars, faults' = 0
    PROVE  /\ faults = 0 /\ struck = {} /\ struck' = {}
           /\ Clean /\ Clean' /\ OnlyMild /\ OnlyMild'
           /\ \A k : ~Strike(k)
  <1>1. faults \in Nat
    BY DEF IInv, TypeOK, StoresOK
  <1>2. \A k : ~Strike(k)
    BY <1>1 DEF Strike
  <1>3. faults = 0 /\ struck' = struck
    BY <1>2, FaultOrNot DEF faultVars
  <1>4. struck = {}
    BY <1>3 DEF OrderInv
  <1> QED
    BY <1>2, <1>3, <1>4 DEF Clean, Struck, OnlyMild

\* What stands in order in the first turns does so in all of them.
LEMMA PrefixBefore ==
    ASSUME NEW s \in Seq(Turns), NEW k \in 0 .. Len(s), NEW a, NEW b,
           Before(SubSeq(s, 1, k), a, b)
    PROVE  Before(s, a, b)
  <1>1. /\ SubSeq(s, 1, k) \in Seq(Turns) /\ Len(SubSeq(s, 1, k)) = k
        /\ \A j \in 1 .. k : SubSeq(s, 1, k)[j] = s[j]
    BY PrefixElements
  <1>2. DOMAIN SubSeq(s, 1, k) = 1 .. k /\ DOMAIN s = 1 .. Len(s)
    BY <1>1
  <1>3. PICK i, j \in 1 .. k : i < j /\ SubSeq(s, 1, k)[i] = a /\ SubSeq(s, 1, k)[j] = b
    BY <1>2 DEF Before
  <1>4. i \in DOMAIN s /\ j \in DOMAIN s /\ s[i] = a /\ s[j] = b
    BY <1>1, <1>2, <1>3
  <1> QED
    BY <1>3, <1>4 DEF Before

\* The next turn of the sequence comes after all that were told before.
LEMMA AppendOrdered ==
    ASSUME NEW c \in Seq(Turns), NEW s \in Seq(Turns), NEW k \in 1 .. Len(s),
           Ordered(c, s), ToSet(c) \subseteq {s[j] : j \in 1 .. k - 1}
    PROVE  Ordered(Append(c, s[k]), s)
  <1> DEFINE w == Append(c, s[k])
  <1>1. /\ DOMAIN w = 1 .. Len(c) + 1 /\ DOMAIN c = 1 .. Len(c) /\ Len(c) \in Nat
        /\ \A i \in 1 .. Len(c) : w[i] = c[i]
        /\ w[Len(c) + 1] = s[k]
        /\ DOMAIN s = 1 .. Len(s)
    OBVIOUS
  <1> HIDE DEF w
  <1>2. ASSUME NEW i \in DOMAIN w, NEW j \in DOMAIN w, i < j PROVE Before(s, w[i], w[j])
    <2>1. i \in 1 .. Len(c) /\ w[i] = c[i]
      BY <1>1, <1>2
    <2>2. CASE j \in 1 .. Len(c)
      BY <1>1, <1>2, <2>1, <2>2 DEF Ordered
    <2>3. CASE j = Len(c) + 1
      <3>1. c[i] \in ToSet(c)
        BY <1>1, <2>1 DEF ToSet
      <3>2. PICK l \in 1 .. k - 1 : c[i] = s[l]
        BY <3>1
      <3>3. l \in DOMAIN s /\ k \in DOMAIN s /\ l < k
        BY <1>1, <3>2
      <3> QED
        BY <1>1, <2>1, <2>3, <3>2, <3>3 DEF Before
    <2> QED
      BY <1>1, <2>2, <2>3
  <1> QED
    BY <1>2 DEF Ordered, w

\* The turns dealt with are the first ones of the view.
LEMMA DealtIsPrefix ==
    ASSUME IInv, NEW q \in Passes, Looping(q), WithinPlan(q), NEW m \in names[q]
    PROVE  /\ DealtLen(q, m) \in 0 .. Len(view[q])
           /\ DealtTurns(q, m) = {view[q][j] : j \in 1 .. DealtLen(q, m)}
  <1>1. /\ at[q] \in Nat /\ view[q] \in Seq(Turns) /\ Len(view[q]) \in Nat /\ at[q] >= 1
        /\ start[q][m] \in Nat /\ start[q][m] <= Len(view[q]) /\ at[q] <= Len(view[q]) + 1
        /\ At(q, "record") => at[q] <= Len(view[q])
    BY DEF IInv, TypeOK, LocalOK, PassInv, LoopInv, CursorInv, WithinPlan, At
  <1>2. DealtLen(q, m) \in 0 .. Len(view[q])
    BY <1>1 DEF DealtLen
  <1>3. ASSUME NEW j \in 1 .. Len(view[q])
        PROVE  Dealt(q, m, j) <=> j <= DealtLen(q, m)
    BY <1>1 DEF Dealt, DealtLen
  <1>4. {i \in 1 .. Len(view[q]) : Dealt(q, m, i)} = 1 .. DealtLen(q, m)
    BY <1>1, <1>2, <1>3
  <1> QED
    BY <1>2, <1>4 DEF DealtTurns

\* What the loop of a pass knows.
LEMMA LoopFacts ==
    ASSUME IInv, NEW q \in Passes, Looping(q)
    PROVE  /\ at[q] \in Nat /\ at[q] >= 1 /\ start[q] \in [Metrics -> Nat]
           /\ view[q] \in Seq(Turns) /\ Len(view[q]) \in Nat /\ names[q] \subseteq Metrics
           /\ pc[q] \in {"grade", "record"} =>
                 at[q] <= Len(view[q]) /\ todo[q] \subseteq Due(q) /\ todo[q] \subseteq names[q]
  BY DEF IInv, TypeOK, LocalOK, PassInv, LoopInv, CursorInv, Due

\* A pass starts in order, on rows and conversations that agree.
LEMMA LoadOrder ==
    ASSUME IInv, NEW q \in Passes, LoadStarts(q), faults' = 0,
           \A m \in names[q] \cap RunLevel :
               Steady(m) /\ ToSet(chat[m]) \subseteq ToSet(progress[m].turns)
    PROVE  PassOrder(q)'
  <1>0. /\ view[q] \in Seq(Turns) /\ Len(view[q]) \in Nat /\ names[q] \subseteq Metrics
        /\ view' = view /\ names' = names /\ chat' = chat /\ progress' = progress
        /\ at'[q] = 1 /\ pc'[q] = "reset" /\ \A m \in Metrics : start'[q][m] \in Nat
    <2>1. TypeOK'
      BY StartsType DEF IInv
    <2> QED
      BY <2>1 DEF LoadStarts, Goto, stores, IInv, TypeOK, LocalOK
  <1>1. WithinPlan(q)'
    <2>1. \A m \in names[q] : start'[q][m] <= Len(view[q])
      <3> TAKE m \in names[q]
      <3>1. start'[q][m] \in 0 .. Len(view[q]) \/ start'[q][m] = 0
        BY LoadedStarts
      <3> QED
        BY <1>0, <3>1
    <2>2. todo'[q] \subseteq names[q] /\ got'[q] \subseteq names[q]
      BY DEF LoadStarts, IInv, TypeOK, LocalOK
    <2>3. \A m \in todo'[q] : start'[q][m] = 0
      BY <2>2, LoadedStarts
    <2> QED
      BY <1>0, <2>1, <2>2, <2>3 DEF WithinPlan, At
  <1>2. ASSUME NEW m \in names[q] \cap RunLevel
        PROVE  RowAsRead(q, m)' /\ (m \notin todo'[q] => ChatAsRead(q, m)')
    <2>0. m \in names[q] /\ m \in Metrics /\ progress[m].turns \in Seq(Turns)
      BY <1>0 DEF IInv, TypeOK, StoresOK
    <2>1. CASE /\ start'[q][m] = 0
               /\ m \in todo'[q] <=> m \in RunLevel
               /\ faults' = 0 => m \in got'[q] \/ progress[m].turns = <<>>
      BY <1>0, <2>1 DEF RowAsRead, StartSound, At
    <2>2. CASE /\ start'[q][m] \in 0 .. Len(view[q])
               /\ progress[m].turns = SubSeq(view[q], 1, start'[q][m])
               /\ progress[m].turns # <<>>
               /\ m \notin todo'[q] /\ m \notin got'[q]
      <3>1. PICK k \in 0 .. Len(view[q]) :
              k = start'[q][m] /\ progress[m].turns = SubSeq(view[q], 1, k)
        BY <2>2
      <3>2. /\ Len(SubSeq(view[q], 1, k)) = k
            /\ ToSet(SubSeq(view[q], 1, k)) = {view[q][j] : j \in 1 .. k}
        BY <1>0, <3>1, PrefixElements
      <3>3. k > 0
        BY <2>0, <2>2, <3>1, <3>2
      <3>4. RowAsRead(q, m)'
        BY <1>0, <2>2, <3>1, <3>3 DEF RowAsRead, StartSound, At
      <3>5. DealtTurns(q, m)' = ToSet(progress[m].turns)
        <4>1. ASSUME NEW j \in 1 .. Len(view[q]) PROVE Dealt(q, m, j)' <=> j <= k
          BY <1>0, <3>1 DEF Dealt, At
        <4>2. {i \in 1 .. Len(view[q]) : Dealt(q, m, i)'} = 1 .. k
          BY <1>0, <3>1, <4>1
        <4> QED
          BY <1>0, <3>1, <3>2, <4>2 DEF DealtTurns
      <3>6. Pending(q, m)' = {}
        BY <1>0 DEF Pending, At
      <3>7. Ordered(chat[m], view[q])
        <4>1. ASSUME NEW i \in DOMAIN chat[m], NEW j \in DOMAIN chat[m], i < j
              PROVE  Before(view[q], chat[m][i], chat[m][j])
          <5>1. Before(SubSeq(view[q], 1, k), chat[m][i], chat[m][j])
            BY <3>1, <4>1 DEF Steady, Ordered
          <5> QED
            BY <1>0, <3>1, <5>1, PrefixBefore
        <4> QED
          BY <4>1 DEF Ordered
      <3>8. ChatAsRead(q, m)'
        BY <1>0, <3>5, <3>6, <3>7 DEF ChatAsRead, Steady
      <3> QED
        BY <3>4, <3>8
    <2>3. \/ /\ start'[q][m] \in 0 .. Len(view[q])
             /\ progress[m].turns = SubSeq(view[q], 1, start'[q][m])
             /\ progress[m].turns # <<>>
             /\ m \notin todo'[q] /\ m \notin got'[q]
          \/ /\ start'[q][m] = 0
             /\ m \in todo'[q] <=> m \in RunLevel
             /\ faults' = 0 => m \in got'[q] \/ progress[m].turns = <<>>
      BY <2>0, LoadedStarts
    <2> QED
      BY <2>1, <2>2, <2>3
  <1> QED
    BY <1>0, <1>1, <1>2 DEF PassOrder, At

\* A deleted conversation is in any order, and nothing is dealt with yet.
LEMMA ResetOrder ==
    ASSUME IInv, NEW q \in Passes, NEW n \in Metrics, ResetChat(q, n), \A k : ~Strike(k),
           PassOrder(q)
    PROVE  PassOrder(q)'
  <1>1. /\ chat' = Emptied(n) /\ todo'[q] = todo[q] \ {n} /\ progress' = progress
        /\ pc' = pc /\ names' = names /\ view' = view /\ start' = start /\ at' = at /\ got' = got
        /\ pc[q] = "reset" /\ n \in todo[q] /\ chat \in [Metrics -> Seq(Turns)]
        /\ names[q] \subseteq Metrics /\ at[q] = 1 /\ todo[q] \subseteq names[q]
        /\ progress[n].turns \in Seq(Turns) /\ start[q] \in [Metrics -> Nat]
    BY DEF ResetChat, plan, At, IInv, TypeOK, LocalOK, StoresOK, PassOrder, WithinPlan
  <1>2. chat'[n] = <<>> /\ \A m \in Metrics \ {n} : chat'[m] = chat[m]
    BY <1>1 DEF Emptied
  <1>3. WithinPlan(q)'
    BY <1>1 DEF PassOrder, WithinPlan, At
  <1>4. \A m : DealtTurns(q, m)' = DealtTurns(q, m) /\ Pending(q, m) = {} /\ Pending(q, m)' = {}
    BY <1>1 DEF DealtTurns, Dealt, Pending, At
  <1>5. ASSUME NEW m \in names[q] \cap RunLevel
        PROVE  RowAsRead(q, m)' /\ (m \notin todo'[q] => ChatAsRead(q, m)')
    <2>1. RowAsRead(q, m)'
      BY <1>1 DEF PassOrder, RowAsRead, StartSound, At
    <2>2. CASE m # n
      BY <1>1, <1>2, <1>4, <2>1, <2>2 DEF PassOrder, ChatAsRead, At
    <2>3. CASE m = n
      <3>1. start[q][n] = 0
        BY <1>1, <2>3 DEF PassOrder, WithinPlan, At
      <3>2. \A j \in 1 .. Len(view[q]) : ~Dealt(q, n, j)
        BY <1>1, <3>1 DEF Dealt, At
      <3>3. DealtTurns(q, n) = {}
        BY <3>2 DEF DealtTurns
      <3>4. Ordered(<<>>, view[q]) /\ ToSet(<<>>) = {}
        BY DEF Ordered, ToSet
      <3>5. ChatAsRead(q, m)'
        BY <1>1, <1>2, <1>4, <2>3, <3>3, <3>4 DEF ChatAsRead
      <3> QED
        BY <2>1, <3>5
    <2> QED
      BY <2>2, <2>3
  <1> QED
    BY <1>1, <1>3, <1>5 DEF PassOrder, At

\* Clearing leaves what goes on, and no row of what starts over.
LEMMA ClearOrder ==
    ASSUME IInv, NEW q \in Passes, ClearStale(q), \A k : ~Strike(k), PassOrder(q)
    PROVE  PassOrder(q)'
  <1>1. /\ chat' = chat /\ todo' = todo /\ todo[q] = {}
        /\ names' = names /\ view' = view /\ start' = start /\ at' = at
        /\ pc[q] = "reset" /\ pc'[q] = "turn" /\ names[q] \subseteq Metrics
        /\ progress' = [m \in Metrics |-> IF m \in got[q] THEN NoRow ELSE progress[m]]
        /\ at[q] = 1 /\ start[q] \in [Metrics -> Nat] /\ view[q] \in Seq(Turns)
    BY DEF ClearStale, Goto, plan, At, IInv, TypeOK, LocalOK, PassOrder, WithinPlan
  <1>2. \A m : DealtTurns(q, m)' = DealtTurns(q, m) /\ Pending(q, m) = {} /\ Pending(q, m)' = {}
    BY <1>1 DEF DealtTurns, Dealt, Pending, At
  <1>3. WithinPlan(q)'
    BY <1>1 DEF PassOrder, WithinPlan, At
  <1>4. ASSUME NEW m \in names[q] \cap RunLevel
        PROVE  RowAsRead(q, m)' /\ ChatAsRead(q, m)'
    <2>1. ChatAsRead(q, m)'
      BY <1>1, <1>2 DEF PassOrder, ChatAsRead, At
    <2>2. StartSound(q, m) /\ start[q][m] \in Nat /\ m \in Metrics
      BY <1>1 DEF PassOrder, RowAsRead, At
    <2>3. RowLen(q, m)' = start[q][m]
      BY <1>1, <2>2 DEF RowLen, At
    <2>4. CASE start[q][m] = 0
      <3>1. SubSeq(view[q], 1, 0) = <<>>
        BY <1>1
      <3>2. progress'[m].turns = <<>>
        BY <1>1, <2>2, <2>4 DEF StartSound, NoRow
      <3> QED
        BY <1>1, <2>1, <2>3, <2>4, <3>1, <3>2 DEF RowAsRead, At
    <2>5. CASE start[q][m] > 0
      <3>1. progress'[m].turns = SubSeq(view[q], 1, start[q][m])
        BY <1>1, <2>2, <2>5 DEF StartSound
      <3> QED
        BY <1>1, <2>1, <2>3, <3>1 DEF RowAsRead, At
    <2> QED
      BY <2>2, <2>4, <2>5
  <1> QED
    BY <1>1, <1>3, <1>4 DEF PassOrder, At

\* The loop's own moves change neither what is dealt with nor what is recorded.
LEMMA MoveOrder ==
    ASSUME IInv, NEW q \in Passes, NextTurn(q) \/ WriteScores(q) \/ Recorded(q),
           PassOrder(q), Looping(q)'
    PROVE  PassOrder(q)'
  <1>1. /\ at \in [Passes -> Nat] /\ pc \in [Passes -> PCs] /\ todo \in [Passes -> SUBSET Metrics]
    BY DEF IInv, TypeOK, LocalOK
  <1>2. /\ chat' = chat /\ progress' = progress
        /\ names' = names /\ view' = view /\ start' = start
        /\ pc[q] # "reset" /\ pc'[q] # "reset" /\ Looping(q)
    BY <1>1 DEF NextTurn, WriteScores, Recorded, Goto, plan, stores, At, Looping
  <1>3. /\ at[q] \in Nat /\ at[q] >= 1 /\ start[q] \in [Metrics -> Nat]
        /\ view[q] \in Seq(Turns) /\ Len(view[q]) \in Nat /\ names[q] \subseteq Metrics
        /\ pc[q] \in {"grade", "record"} => at[q] <= Len(view[q])
        /\ at[q] <= Len(view[q]) + 1
    BY <1>2, LoopFacts DEF PassOrder, WithinPlan
  <1>4. \/ /\ pc[q] = "turn" /\ pc'[q] = "turn" /\ Due(q) = {} /\ at'[q] = at[q] + 1
           /\ at[q] <= Len(view[q])
        \/ /\ pc[q] = "turn" /\ pc'[q] = "grade" /\ at'[q] = at[q] /\ todo'[q] = Due(q)
        \/ /\ pc[q] = "grade" /\ pc'[q] = "record" /\ at'[q] = at[q]
           /\ todo[q] = {} /\ todo'[q] = Due(q)
        \/ /\ pc[q] = "record" /\ pc'[q] = "turn" /\ at'[q] = at[q] + 1 /\ todo[q] = {}
    <2>1. CASE NextTurn(q)
      BY <1>1, <1>2, <2>1 DEF NextTurn, At, Goto, Looping
    <2>2. CASE WriteScores(q)
      BY <1>1, <2>2 DEF WriteScores, At, Goto
    <2>3. CASE Recorded(q)
      BY <1>1, <2>3 DEF Recorded, At, Goto
    <2> QED
      BY <2>1, <2>2, <2>3
  <1>5. WithinPlan(q)'
    <2>1. at'[q] <= Len(view[q]) + 1
      BY <1>3, <1>4
    <2> QED
      BY <1>2, <2>1 DEF PassOrder, WithinPlan, At
  <1>6. ASSUME NEW m \in names[q]
        PROVE  /\ RowLen(q, m)' = RowLen(q, m)
               /\ DealtTurns(q, m)' \cup Pending(q, m)' = DealtTurns(q, m) \cup Pending(q, m)
    <2>1. start[q][m] \in Nat /\ (m \in Due(q) <=> start[q][m] < at[q])
      BY <1>3 DEF Due
    <2>2. RowLen(q, m)' = RowLen(q, m)
      <3>1. /\ start[q][m] >= at[q] => RowLen(q, m) = start[q][m]
            /\ start[q][m] < at[q] =>
                  RowLen(q, m) = IF pc[q] = "record" /\ m \notin todo[q] THEN at[q] ELSE at[q] - 1
        BY <1>3, <2>1 DEF RowLen, At
      <3>2. /\ start[q][m] >= at'[q] => RowLen(q, m)' = start[q][m]
            /\ start[q][m] < at'[q] =>
                  RowLen(q, m)' =
                      IF pc'[q] = "record" /\ m \notin todo'[q] THEN at'[q] ELSE at'[q] - 1
        BY <1>2, <1>3, <1>4, <2>1 DEF RowLen, At
      <3>3. CASE at'[q] = at[q]
        <4>1. (pc'[q] = "record" /\ m \notin todo'[q]) => start[q][m] >= at[q]
          BY <1>3, <1>4, <2>1, <3>3
        <4>2. pc[q] # "record"
          BY <1>3, <1>4, <3>3
        <4> QED
          BY <1>3, <2>1, <3>1, <3>2, <3>3, <4>1, <4>2
      <3>4. CASE at'[q] = at[q] + 1
        <4>1. pc'[q] # "record"
          BY <1>3, <1>4, <3>4
        <4>2. start[q][m] < at[q] => pc[q] = "record" /\ m \notin todo[q]
          BY <1>3, <1>4, <2>1, <3>4
        <4> QED
          BY <1>3, <2>1, <3>1, <3>2, <3>4, <4>1, <4>2
      <3> QED
        BY <1>4, <3>3, <3>4
    <2>3. /\ DealtTurns(q, m) = {view[q][j] : j \in 1 .. DealtLen(q, m)}
          /\ DealtLen(q, m) \in 0 .. Len(view[q])
      BY <1>2, DealtIsPrefix DEF PassOrder
    <2>4. DealtTurns(q, m)' = {view[q][j] : j \in 1 .. DealtLen(q, m)'}
          /\ DealtLen(q, m)' \in 0 .. Len(view[q])
      <3>1. ASSUME NEW j \in 1 .. Len(view[q])
            PROVE  Dealt(q, m, j)' <=> j <= DealtLen(q, m)'
        BY <1>2, <1>3, <1>4, <2>1 DEF Dealt, DealtLen, At
      <3>2. DealtLen(q, m)' \in 0 .. Len(view[q])
        BY <1>2, <1>3, <1>4, <2>1 DEF DealtLen, At, PassOrder, WithinPlan
      <3>3. {i \in 1 .. Len(view[q]) : Dealt(q, m, i)'} = 1 .. DealtLen(q, m)'
        BY <1>3, <3>1, <3>2
      <3> QED
        BY <1>2, <3>2, <3>3 DEF DealtTurns
    <2>5. CASE WriteScores(q) /\ m \in Due(q)
      <3>1. pc[q] = "grade" /\ pc'[q] = "record" /\ at' = at /\ todo[q] = {} /\ todo'[q] = Due(q)
        BY <1>1, <2>5 DEF WriteScores, At, Goto
      <3>2. DealtLen(q, m) = at[q] - 1 /\ DealtLen(q, m)' = at[q]
        BY <1>2, <1>3, <2>1, <2>5, <3>1 DEF DealtLen, At
      <3>3. Pending(q, m) = {view[q][at[q]]} /\ Pending(q, m)' = {view[q][at[q]]}
        BY <1>2, <2>5, <3>1 DEF Pending, At, Turn
      <3>4. 1 .. at[q] = (1 .. at[q] - 1) \cup {at[q]}
        BY <1>3
      <3>5. DealtTurns(q, m)' = DealtTurns(q, m) \cup {view[q][at[q]]}
        BY <2>3, <2>4, <3>2, <3>4
      <3> QED
        BY <2>2, <3>3, <3>5
    <2>6. CASE ~(WriteScores(q) /\ m \in Due(q))
      <3>1. DealtLen(q, m)' = DealtLen(q, m)
        BY <1>2, <1>3, <1>4, <2>1, <2>6 DEF DealtLen, At, NextTurn, Recorded
      <3>2. Pending(q, m)' = Pending(q, m)
        <4>1. Pending(q, m) = {} /\ Pending(q, m)' = {}
          BY <1>2, <1>4, <2>1, <2>6 DEF Pending, At, Due, NextTurn, Recorded
        <4> QED
          BY <4>1
      <3> QED
        BY <2>2, <2>3, <2>4, <3>1, <3>2
    <2> QED
      BY <2>5, <2>6
  <1>7. ASSUME NEW m \in names[q] \cap RunLevel
        PROVE  RowAsRead(q, m)' /\ ChatAsRead(q, m)'
    <2>1. RowAsRead(q, m) /\ ChatAsRead(q, m)
      BY <1>2 DEF PassOrder, At
    <2>2. RowAsRead(q, m)'
      BY <1>2, <1>6, <2>1 DEF RowAsRead, At
    <2>3. ChatAsRead(q, m)'
      BY <1>2, <1>6, <2>1 DEF ChatAsRead
    <2> QED
      BY <2>2, <2>3
  <1> QED
    BY <1>2, <1>5, <1>7 DEF PassOrder, At

\* A turn in hand is told after all that came before it, if it is sampled.
LEMMA GradeOrder ==
    ASSUME IInv, NEW q \in Passes, NEW n \in Metrics, Grade(q, n), \A k : ~Strike(k),
           PassOrder(q)
    PROVE  PassOrder(q)'
  <1> DEFINE x == view[q][at[q]]
  <1>1. /\ pc[q] = "grade" /\ n \in todo[q] /\ todo'[q] = todo[q] \ {n} /\ progress' = progress
        /\ pc' = pc /\ names' = names /\ view' = view /\ start' = start /\ at' = at
        /\ chat \in [Metrics -> Seq(Turns)] /\ Looping(q)
    BY DEF Grade, plan, At, IInv, TypeOK, LocalOK, StoresOK, Looping
  <1>2. /\ at[q] \in Nat /\ at[q] >= 1 /\ start[q] \in [Metrics -> Nat]
        /\ view[q] \in Seq(Turns) /\ Len(view[q]) \in Nat /\ names[q] \subseteq Metrics
        /\ at[q] <= Len(view[q]) /\ todo[q] \subseteq Due(q)
    BY <1>1, LoopFacts
  <1>3. \/ chat' = chat /\ x \notin Sampled[n]
        \/ chat' = Told(q, n)
    BY DEF Grade, Judged, JudgeFailed, Turn
  <1>4. WithinPlan(q)'
    BY <1>1 DEF PassOrder, WithinPlan, At
  <1>5. \A m : DealtTurns(q, m)' = DealtTurns(q, m) /\ RowLen(q, m)' = RowLen(q, m)
    BY <1>1 DEF DealtTurns, Dealt, RowLen, At
  <1>6. ASSUME NEW m \in names[q] \cap RunLevel
        PROVE  RowAsRead(q, m)' /\ ChatAsRead(q, m)'
    <2>1. RowAsRead(q, m) /\ ChatAsRead(q, m) /\ m \in Metrics
      BY <1>1, <1>2 DEF PassOrder, At
    <2>2. RowAsRead(q, m)'
      BY <1>1, <1>5, <2>1 DEF RowAsRead, At
    <2>3. CASE m # n
      <3>1. chat'[m] = chat[m]
        BY <1>1, <1>3, <2>1, <2>3 DEF Told
      <3>2. Pending(q, m)' = Pending(q, m)
        BY <1>1, <2>3 DEF Pending, At, Due, Turn
      <3> QED
        BY <1>1, <1>5, <2>1, <2>2, <3>1, <3>2 DEF ChatAsRead
    <2>4. CASE m = n
      <3>1. Pending(q, n) = {} /\ Pending(q, n)' = {x}
        BY <1>1, <1>2 DEF Pending, At, Due, Turn
      <3>2. CASE chat' = chat /\ x \notin Sampled[n]
        BY <1>1, <1>5, <2>1, <2>2, <2>4, <3>1, <3>2 DEF ChatAsRead
      <3>3. CASE chat' = Told(q, n)
        <4>1. chat'[n] = Append(chat[n], x) /\ x \in Turns
          BY <1>1, <1>2, <2>4, <3>3 DEF Told, Turn
        <4>2. ToSet(chat'[n]) = ToSet(chat[n]) \cup {x}
          BY <1>1, <4>1, AppendElements
        <4>3. DealtLen(q, n) = at[q] - 1
          BY <1>1, <1>2 DEF DealtLen, At, Due
        <4>4. DealtTurns(q, n) = {view[q][j] : j \in 1 .. at[q] - 1}
          BY <1>1, <2>4, <4>3, DealtIsPrefix DEF PassOrder
        <4>5. ToSet(chat[n]) \subseteq {view[q][j] : j \in 1 .. at[q] - 1}
          BY <2>1, <2>4, <3>1, <4>4 DEF ChatAsRead
        <4>6. Ordered(chat'[n], view[q])
          <5>1. at[q] \in 1 .. Len(view[q]) /\ Ordered(chat[n], view[q]) /\ chat[n] \in Seq(Turns)
            BY <1>1, <1>2, <2>1, <2>4 DEF ChatAsRead
          <5>2. Ordered(Append(chat[n], view[q][at[q]]), view[q])
            BY <1>2, <4>5, <5>1, AppendOrdered
          <5> QED
            BY <4>1, <5>2
        <4>7. ChatAsRead(q, m)'
          BY <1>1, <1>5, <2>1, <2>4, <3>1, <4>2, <4>6 DEF ChatAsRead
        <4> QED
          BY <2>2, <4>7
      <3> QED
        BY <1>3, <3>2, <3>3
    <2> QED
      BY <2>3, <2>4
  <1> QED
    BY <1>1, <1>4, <1>6 DEF PassOrder, At

\* A row is written as far as the turn in hand.
LEMMA RecordOrder ==
    ASSUME IInv, NEW q \in Passes, NEW n \in Metrics, Record(q, n), \A k : ~Strike(k),
           PassOrder(q)
    PROVE  PassOrder(q)'
  <1>1. /\ pc[q] = "record" /\ n \in todo[q] /\ chat' = chat /\ todo'[q] = todo[q] \ {n}
        /\ pc' = pc /\ names' = names /\ view' = view /\ start' = start /\ at' = at
        /\ progress' = [progress EXCEPT ![n] = RowUpTo(q, n)] /\ DOMAIN progress = Metrics
        /\ names[q] \subseteq Metrics
    BY DEF Record, plan, At, IInv, TypeOK, LocalOK, StoresOK
  <1>2. WithinPlan(q)'
    BY <1>1 DEF PassOrder, WithinPlan, At
  <1>3. \A m : DealtTurns(q, m)' = DealtTurns(q, m)
    BY <1>1 DEF DealtTurns, Dealt, At
  <1>4. /\ \A m \in todo[q] : Turn(q) \in DealtTurns(q, m)
        /\ start[q][n] < at[q]
    BY <1>1, RowIsDealt DEF At
  <1>5. ASSUME NEW m \in names[q] \cap RunLevel
        PROVE  RowAsRead(q, m)' /\ ChatAsRead(q, m)'
    <2>1. RowAsRead(q, m) /\ ChatAsRead(q, m) /\ m \in Metrics
      BY <1>1 DEF PassOrder, At
    <2>2. DealtTurns(q, m) \cup Pending(q, m) = DealtTurns(q, m)' \cup Pending(q, m)'
      <3>1. Pending(q, m) \subseteq DealtTurns(q, m) /\ Pending(q, m)' \subseteq DealtTurns(q, m)
        BY <1>1, <1>4 DEF Pending, At, Turn
      <3> QED
        BY <1>3, <3>1
    <2>3. ChatAsRead(q, m)'
      BY <1>1, <2>1, <2>2 DEF ChatAsRead
    <2>4. CASE m # n
      <3>1. progress'[m] = progress[m] /\ RowLen(q, m)' = RowLen(q, m)
        BY <1>1, <2>1, <2>4 DEF RowLen, At
      <3> QED
        BY <1>1, <2>1, <2>3, <3>1 DEF RowAsRead, At
    <2>5. CASE m = n
      <3>1. progress'[m].turns = SubSeq(view[q], 1, at[q])
        BY <1>1, <2>1, <2>5 DEF RowUpTo
      <3>2. RowLen(q, m)' = at[q]
        <4>1. at[q] \in Nat /\ start[q][n] \in Nat
          BY DEF IInv, TypeOK, LocalOK
        <4> QED
          BY <1>1, <1>4, <2>5, <4>1 DEF RowLen, At
      <3> QED
        BY <1>1, <2>3, <3>1, <3>2 DEF RowAsRead, At
    <2> QED
      BY <2>4, <2>5
  <1> QED
    BY <1>1, <1>2, <1>5 DEF PassOrder, At

\* A pass that comes to the end of its view has recorded all of it.
LEMMA EndOrder ==
    ASSUME IInv, NEW q \in Passes, NextTurn(q), ~Looping(q)', PassOrder(q),
           NEW m \in names[q] \cap RunLevel
    PROVE  Steady(m)
  <1>1. pc[q] = "turn" /\ at[q] > Len(view[q]) /\ Looping(q)
    <2>1. pc \in [Passes -> PCs]
      BY DEF IInv, TypeOK, LocalOK
    <2> QED
      BY <2>1 DEF NextTurn, At, Goto, Looping
  <1>2. /\ at[q] \in Nat /\ at[q] >= 1 /\ start[q] \in [Metrics -> Nat]
        /\ view[q] \in Seq(Turns) /\ Len(view[q]) \in Nat /\ names[q] \subseteq Metrics
        /\ at[q] <= Len(view[q]) + 1 /\ start[q][m] <= Len(view[q])
    BY <1>1, LoopFacts DEF PassOrder, WithinPlan
  <1>3. /\ progress[m].turns = SubSeq(view[q], 1, RowLen(q, m)) /\ ChatAsRead(q, m)
    BY <1>1 DEF PassOrder, RowAsRead, At
  <1>4. RowLen(q, m) = Len(view[q]) /\ DealtLen(q, m) = Len(view[q])
    BY <1>1, <1>2 DEF RowLen, DealtLen, At
  <1>5. progress[m].turns = view[q]
    BY <1>2, <1>3, <1>4
  <1>6. DealtTurns(q, m) = ToSet(view[q])
    <2>1. DealtTurns(q, m) = {view[q][j] : j \in 1 .. Len(view[q])}
      BY <1>1, <1>4, DealtIsPrefix DEF PassOrder
    <2> QED
      BY <1>2, <2>1 DEF ToSet
  <1> QED
    BY <1>3, <1>5, <1>6 DEF ChatAsRead, Steady

\* Together: while a pass works, conversations and rows follow its view.
LEMMA PassOrderStep ==
    ASSUME IInv, RepeatInv, TiedInv, OrderInv, [Next]_vars, faults' = 0,
           NEW q \in Passes, Looping(q)'
    PROVE  PassOrder(q)'
  <1>0. /\ TypeOK /\ OneWriter /\ Clean /\ OnlyMild /\ pc \in [Passes -> PCs]
        /\ faults = 0 /\ \A k : ~Strike(k)
    BY NoFaultStep DEF IInv, RepeatInv, TypeOK, LocalOK
  <1>1. CASE ~Inside(q)
    BY <1>0, <1>1, OwnOrAlone, OutsideStep DEF Undisturbed, Inside, Looping
  <1>2. CASE Inside(q) /\ ~PassStep(q)
    <2>1. Undisturbed(q) /\ chat' = chat /\ progress' = progress
      BY <1>0, <1>2, InsideAlone
    <2>2. PassOrder(q)
      BY <1>0, <2>1 DEF OrderInv, Looping, Undisturbed
    <2>3. \A m : /\ Pending(q, m)' = Pending(q, m) /\ DealtTurns(q, m)' = DealtTurns(q, m)
                 /\ RowLen(q, m)' = RowLen(q, m)
      BY <2>1 DEF Undisturbed, Pending, DealtTurns, Dealt, RowLen, At, Due, Turn
    <2>4. WithinPlan(q)'
      BY <2>1, <2>2 DEF PassOrder, WithinPlan, Undisturbed, At
    <2>5. \A m : (RowAsRead(q, m) => RowAsRead(q, m)') /\ (ChatAsRead(q, m) => ChatAsRead(q, m)')
      BY <2>1, <2>3 DEF RowAsRead, StartSound, ChatAsRead, Undisturbed, At
    <2> QED
      BY <2>1, <2>2, <2>4, <2>5 DEF PassOrder, Undisturbed, At
  <1>3. CASE LoadStarts(q)
    <2>1. pc[q] = "load" /\ Inside(q)
      BY <1>3 DEF LoadStarts, At, Inside
    <2>2. \A p \in Passes : ~Looping(p)
      BY <1>0, <2>1, OnlyOneInside DEF Looping, Inside
    <2>3. ASSUME NEW m \in names[q] \cap RunLevel
          PROVE  Steady(m) /\ ToSet(chat[m]) \subseteq ToSet(progress[m].turns)
      <3>1. Steady(m)
        BY <1>0, <2>2 DEF OrderInv, LeftAlone
      <3>2. Loose(m) = {} /\ \A p \in Passes : Pending(p, m) = {}
        BY <1>0, <2>2, ConstantsAssumption DEF TiedInv, Looping, Pending, At
      <3> QED
        BY <3>1, <3>2 DEF Loose
    <2> QED
      BY <1>3, <2>3, LoadOrder
  <1>4. CASE Inside(q) /\ PassStep(q) /\ ~LoadStarts(q)
    <2>1. Looping(q) /\ ~Release(q)
      BY <1>0, <1>4 DEF PassStep, Step, Inside, At, Looping, Goto, End, BeginAuto,
         BeginFull, Begin, Acquire, ProceedUnlocked, ReadTurns, ResetChat, ClearStale,
         NextTurn, Grade, WriteScores, Record, Recorded, Release, Raise, Crash
    <2>2. PassOrder(q)
      BY <1>0, <2>1 DEF OrderInv
    <2>3. CASE \E n \in Metrics : ResetChat(q, n)
      BY <1>0, <2>2, <2>3, ResetOrder
    <2>4. CASE ClearStale(q)
      BY <1>0, <2>2, <2>4, ClearOrder
    <2>5. CASE NextTurn(q) \/ WriteScores(q) \/ Recorded(q)
      BY <2>2, <2>5, MoveOrder
    <2>6. CASE \E n \in Metrics : Grade(q, n)
      BY <1>0, <2>2, <2>6, GradeOrder
    <2>7. CASE \E n \in Metrics : Record(q, n)
      BY <1>0, <2>2, <2>7, RecordOrder
    <2>8. ~Raise(q) /\ ~Crash(q)
      BY <1>0 DEF Raise, Crash
    <2> QED
      BY <1>4, <2>1, <2>3, <2>4, <2>5, <2>6, <2>7, <2>8
      DEF PassStep, Step, Looping, At, BeginAuto, BeginFull, Begin, Acquire,
          ProceedUnlocked, ReadTurns
  <1> QED
    BY <1>1, <1>2, <1>3, <1>4

\* What a pass does not run, it does not touch.
LEMMA OthersSteady ==
    ASSUME IInv, NEW q \in Passes, PassStep(q), Looping(q), PassOrder(q),
           NEW m \in RunLevel, m \notin names[q]
    PROVE  chat'[m] = chat[m] /\ progress'[m] = progress[m]
  <1>1. /\ m \in Metrics /\ chat \in [Metrics -> Seq(Turns)] /\ DOMAIN progress = Metrics
        /\ pc[q] \in {"grade", "record"} => m \notin todo[q]
        /\ pc[q] = "reset" => m \notin todo[q] /\ m \notin got[q]
    BY ConstantsAssumption, LoopFacts DEF IInv, TypeOK, StoresOK, PassOrder, WithinPlan, At
  <1>2. ASSUME NEW n \in Metrics, ResetChat(q, n)
        PROVE  chat'[m] = chat[m] /\ progress'[m] = progress[m]
    BY <1>1, <1>2 DEF ResetChat, Emptied, At
  <1>3. ASSUME NEW n \in Metrics, Grade(q, n)
        PROVE  chat'[m] = chat[m] /\ progress'[m] = progress[m]
    <2>1. n # m /\ progress' = progress /\ chat' \in {chat, Told(q, n)}
      BY <1>1, <1>3 DEF Grade, Judged, JudgeFailed, At
    <2> QED
      BY <1>1, <2>1 DEF Told
  <1>4. ASSUME NEW n \in Metrics, Record(q, n)
        PROVE  chat'[m] = chat[m] /\ progress'[m] = progress[m]
    <2>1. n # m /\ chat' = chat
          /\ (progress' = progress \/ progress' = [progress EXCEPT ![n] = RowUpTo(q, n)])
      BY <1>1, <1>4 DEF Record, At
    <2> QED
      BY <1>1, <2>1
  <1>5. CASE ClearStale(q)
    BY <1>1, <1>5 DEF ClearStale, At
  <1>6. CASE UNCHANGED stores
    BY <1>6 DEF stores
  <1>7. CASE WriteScores(q)
    BY <1>7 DEF WriteScores
  <1> QED
    BY <1>2, <1>3, <1>4, <1>5, <1>6, <1>7 DEF PassStep, Step, BeginAuto, BeginFull, Acquire,
       ProceedUnlocked, ReadTurns, LoadStarts, NextTurn, Recorded, Release, Raise, Crash

\* A metric no pass works on stays as it is, or was just left at the end.
LEMMA SteadyStep ==
    ASSUME IInv, RepeatInv, OrderInv, [Next]_vars, faults' = 0,
           NEW m \in RunLevel, LeftAlone(m)'
    PROVE  Steady(m)'
  <1>0. /\ TypeOK /\ OneWriter /\ Clean /\ pc \in [Passes -> PCs]
        /\ faults = 0 /\ \A k : ~Strike(k)
    BY NoFaultStep DEF IInv, RepeatInv, TypeOK, LocalOK
  <1>1. CASE \E q \in Passes : Looping(q) /\ m \in names[q]
    <2>1. PICK q \in Passes : Looping(q) /\ m \in names[q]
      BY <1>1
    <2>2. Inside(q) /\ PassOrder(q)
      BY <1>0, <2>1 DEF Looping, Inside, OrderInv
    <2>3. ~Undisturbed(q)
      BY <2>1 DEF LeftAlone, Looping, Undisturbed
    <2>4. PassStep(q)
      BY <1>0, <2>3, OwnOrAlone
    <2>5. ~(Looping(q)' /\ m \in names'[q])
      BY DEF LeftAlone
    <2>6. ~Looping(q)'
      BY <1>0, <2>1, <2>4, <2>5, PlanFixed
    <2>7. NextTurn(q)
      <3>1. ~Raise(q) /\ ~Crash(q)
        BY <1>0 DEF Raise, Crash
      <3> QED
        BY <1>0, <2>1, <2>4, <2>6, <3>1 DEF PassStep, Step, At, Looping, Goto,
           BeginAuto, BeginFull, Begin, Acquire, ProceedUnlocked, ReadTurns, LoadStarts,
           ResetChat, ClearStale, Grade, WriteScores, Record, Recorded, Release
    <2>8. Steady(m)
      BY <2>1, <2>2, <2>6, <2>7, EndOrder
    <2>9. chat' = chat /\ progress' = progress
      BY <2>7 DEF NextTurn, stores
    <2> QED
      BY <2>8, <2>9 DEF Steady
  <1>2. CASE LeftAlone(m)
    <2>1. Steady(m)
      BY <1>0, <1>2 DEF OrderInv
    <2>2. chat'[m] = chat[m] /\ progress'[m] = progress[m]
      <3>1. CASE \A q \in Passes : ~(Inside(q) /\ PassStep(q))
        BY <1>0, <3>1, OutsideStep DEF Next, PassStep, Arrive, Expire, vars, stores
      <3>2. ASSUME NEW q \in Passes, Inside(q), PassStep(q)
            PROVE  chat'[m] = chat[m] /\ progress'[m] = progress[m]
        <4>1. CASE Looping(q)
          <5>1. m \notin names[q] /\ PassOrder(q)
            BY <1>0, <1>2, <4>1 DEF LeftAlone, OrderInv
          <5> QED
            BY <3>2, <4>1, <5>1, OthersSteady
        <4>2. CASE ~Looping(q)
          BY <3>2, <4>2 DEF PassStep, Step, At, Looping, Inside, stores, BeginAuto, BeginFull,
             Begin, Acquire, ProceedUnlocked, ReadTurns, LoadStarts, ResetChat, ClearStale,
             NextTurn, Grade, WriteScores, Record, Recorded, Release, Raise, Crash
        <4> QED
          BY <4>1, <4>2
      <3> QED
        BY <3>1, <3>2
    <2> QED
      BY <2>1, <2>2 DEF Steady
  <1> QED
    BY <1>1, <1>2 DEF LeftAlone

\* The invariant is inductive.
LEMMA StepOrderInv == IInv /\ RepeatInv /\ TiedInv /\ OrderInv /\ [Next]_vars => OrderInv'
  <1> SUFFICES ASSUME IInv, RepeatInv, TiedInv, OrderInv, [Next]_vars, faults' = 0
               PROVE  /\ struck' = {}
                      /\ \A q \in Passes : Looping(q)' => PassOrder(q)'
                      /\ \A m \in RunLevel : LeftAlone(m)' => Steady(m)'
    BY DEF OrderInv
  <1>1. struck' = {}
    BY NoFaultStep
  <1>2. ASSUME NEW q \in Passes, Looping(q)' PROVE PassOrder(q)'
    BY <1>2, PassOrderStep
  <1>3. ASSUME NEW m \in RunLevel, LeftAlone(m)' PROVE Steady(m)'
    BY <1>3, SteadyStep
  <1> QED
    BY <1>1, <1>2, <1>3

\* Nothing told, nothing out of order.
LEMMA InitOrderInv == Init => OrderInv
  <1> SUFFICES ASSUME Init PROVE OrderInv
    OBVIOUS
  <1>1. \A q \in Passes : ~Looping(q)
    BY DEF Init, Looping
  <1>2. ASSUME NEW m \in RunLevel PROVE Steady(m)
    BY ConstantsAssumption DEF Init, Steady, Ordered, ToSet, NoRow
  <1> QED
    BY <1>1, <1>2 DEF OrderInv, Init

\* Order and coverage hold between any steps of any passes.
LEMMA OrderInvariance == Spec => []OrderInv
  BY InitOrderInv, StepOrderInv, Invariance, RepeatsInvariance, TiedInvariance, PTL DEF Spec

\* Without faults, whenever no pass is inside, each judge's conversation is the
\* turns its progress row records: in thread order, none twice, every sampled
\* one there -- for any thread, any late arrivals, any explicit runs and any
\* number of passes waiting at the lock.
THEOREM TranscriptSound == Spec => []TranscriptMatchesRow
  <1>1. ASSUME IInv, RepeatInv, TiedInv, OrderInv PROVE TranscriptMatchesRow
    <2> SUFFICES ASSUME faults = 0, Quiet, NEW m \in RunLevel
                 PROVE  /\ Repeats(chat[m]) = 0
                        /\ Follows(chat[m], progress[m].turns)
                        /\ ToSet(progress[m].turns) \cap Sampled[m] \subseteq ToSet(chat[m])
      BY DEF TranscriptMatchesRow
    <2>1. /\ m \in Metrics /\ struck = {} /\ chat[m] \in Seq(Turns)
      BY <1>1, ConstantsAssumption DEF OrderInv, IInv, TypeOK, StoresOK
    <2>2. \A p \in Passes : ~Looping(p) /\ Pending(p, m) = {}
      BY DEF Quiet, Inside, Looping, Pending, At
    <2>3. Steady(m) /\ Loose(m) = {}
      BY <1>1, <2>1, <2>2 DEF OrderInv, LeftAlone, TiedInv, OnlyMild
    <2>4. ToSet(chat[m]) \subseteq ToSet(progress[m].turns)
      BY <2>2, <2>3 DEF Loose
    <2>5. Repeats(chat[m]) = 0
      <3>1. Repeats(chat[m]) + Cardinality(Loose(m)) <= 0
        BY <1>1, <2>1 DEF RepeatInv, PaidInv, Clean, Struck
      <3>2. Cardinality(Loose(m)) = 0 /\ Repeats(chat[m]) \in Nat
        BY <2>1, <2>3, FS_EmptySet, RepeatsType
      <3> QED
        BY <3>1, <3>2
    <2> QED
      BY <2>3, <2>4, <2>5 DEF Steady, Ordered, Follows
  <1>2. IInv /\ RepeatInv /\ TiedInv /\ OrderInv => TranscriptMatchesRow
    BY <1>1
  <1> QED
    BY <1>2, Invariance, RepeatsInvariance, TiedInvariance, OrderInvariance, PTL
=============================================================================
