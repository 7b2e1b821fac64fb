------------------------- MODULE AfterEvaluation_proof -------------------------
(***************************************************************************)
(* Theorems about what an evaluation of a trace, or a beat, sets off.      *)
(* FailureClusters, for every finite set of failing traces, every way      *)
(* their signatures agree, and any number of evaluators; RollingSummary,   *)
(* for every finite set of spans and any number of passes over them;       *)
(* Alerts, for every set of monitors and of runs, every interval and every *)
(* bound on time.                                                          *)
(***************************************************************************)
EXTENDS FailureClusters, RollingSummary, Alerts, FiniteSetTheorems, TLAPS

-----------------------------------------------------------------------------
(* Failure clusters                                                        *)

WorkerRecords ==
    [at : {"free", "find", "create", "refind", "member", "commit", "notify"},
     trace : Failing \cup {NoTrace}, id : OptionalId, loaded : Nat, known : BOOLEAN]

\* What an evaluator knows: the trace it clusters; and of the cluster it joins,
\* as long as that is there, a count that does not exceed its members, and that
\* a trace it took for a member is one.  A cluster it alerts for was created.
Sound(q) ==
    /\ q.at \in {"find", "create", "refind", "member", "commit"} => q.trace \in Failing
    /\ q.at \in {"member", "commit"} =>
         /\ q.id \in 1..created
         /\ q.id \in clusters => q.loaded <= Cardinality(members[q.id])
    /\ q.at = "commit" /\ q.known /\ q.id \in clusters => q.trace \in members[q.id]
    /\ q.at = "notify" => q.id \in 1..created

WorkersSound == \A w \in Evaluators : Sound(worker[w])

CountInv == ClusterTypeOK /\ WorkersSound /\ CountFollowsMembers

\* Whoever is about to alert is the only one for its cluster, and the first.
AboutToAlert ==
    /\ \A i \in ClusterIds : i > created => alerts[i] = 0
    /\ \A w \in Evaluators : worker[w].at = "notify" => alerts[worker[w].id] = 0
    /\ \A v, w \in Evaluators :
         worker[v].at = "notify" /\ worker[w].at = "notify" /\ worker[v].id = worker[w].id
           => v = w

AlertInv == CountInv /\ AboutToAlert /\ OneAlertPerCluster

-----------------------------------------------------------------------------
\* A cluster's members can be counted.
LEMMA MembersCount ==
    ASSUME ClusterTypeOK, NEW i \in ClusterIds
    PROVE  /\ IsFiniteSet(members[i])
           /\ Cardinality(members[i]) \in Nat
  <1>1. members[i] \in SUBSET Failing /\ IsFiniteSet(Failing)
    BY ClusterAssumption DEF ClusterTypeOK
  <1>2. IsFiniteSet(members[i])
    BY <1>1, FS_Subset
  <1> QED
    BY <1>2, FS_CardinalityType

\* The rows have ids, and those that will be created have others.
LEMMA IdsInRange ==
    ASSUME ClusterTypeOK
    PROVE  /\ created \in Nat
           /\ clusters \subseteq ClusterIds
           /\ 1..created \subseteq ClusterIds
           /\ \A i \in clusters : i <= created
           /\ created < MaxClusters =>
                created + 1 \in ClusterIds /\ created + 1 \notin clusters
  BY ClusterAssumption DEF ClusterTypeOK, ClusterIds

\* One evaluator changes, the others stay.
LEMMA WorkerType ==
    ASSUME ClusterTypeOK, NEW w \in Evaluators, NEW new \in WorkerRecords,
           worker' = [worker EXCEPT ![w] = new]
    PROVE  /\ worker' \in [Evaluators -> WorkerRecords]
           /\ worker'[w] = new
           /\ \A v \in Evaluators \ {w} : worker'[v] = worker[v]
  BY DEF ClusterTypeOK, WorkerRecords

\* An evaluator that joins a cluster has loaded its count.
LEMMA Joins ==
    ASSUME ClusterTypeOK, NEW w \in Evaluators, NEW i \in clusters, JoinsCluster(w, i)
    PROVE  /\ worker' \in [Evaluators -> WorkerRecords]
           /\ worker'[w].at = "member" /\ worker'[w].id = i
           /\ worker'[w].loaded = size[i] /\ worker'[w].trace = worker[w].trace
           /\ \A v \in Evaluators \ {w} : worker'[v] = worker[v]
  <1> DEFINE new == [worker[w] EXCEPT !.at = "member", !.id = i, !.loaded = size[i]]
  <1>1. i \in OptionalId /\ size[i] \in Nat
    BY IdsInRange, ClusterAssumption DEF ClusterTypeOK, ClusterIds, OptionalId
  <1>2. worker[w] \in WorkerRecords
    BY DEF ClusterTypeOK, WorkerRecords
  <1>3. /\ new \in WorkerRecords
        /\ new.at = "member" /\ new.id = i /\ new.loaded = size[i]
        /\ new.trace = worker[w].trace
    BY <1>1, <1>2 DEF WorkerRecords
  <1>4. worker' = [worker EXCEPT ![w] = new]
    BY DEF JoinsCluster
  <1> HIDE DEF new
  <1> QED
    BY <1>3, <1>4, WorkerType

\* A resting evaluator.
LEMMA FreeType ==
    /\ Free \in WorkerRecords
    /\ Free.at = "free"
  BY ClusterAssumption DEF Free, WorkerRecords, OptionalId

\* An evaluator that leaves rests.
LEMMA LeavesOne ==
    ASSUME ClusterTypeOK, NEW w \in Evaluators, worker' = [worker EXCEPT ![w] = Free]
    PROVE  /\ worker' \in [Evaluators -> WorkerRecords]
           /\ worker'[w].at = "free"
           /\ \A v \in Evaluators \ {w} : worker'[v] = worker[v]
  BY FreeType, WorkerType

\* An evaluator that goes on to another step, with the trace it has.
LEMMA GoesOn ==
    ASSUME ClusterTypeOK, NEW w \in Evaluators,
           NEW at \in {"find", "create", "refind", "member", "commit"},
           worker' = [worker EXCEPT ![w].at = at]
    PROVE  /\ worker' \in [Evaluators -> WorkerRecords]
           /\ worker'[w] = [worker[w] EXCEPT !.at = at]
           /\ worker'[w].at = at /\ worker'[w].trace = worker[w].trace
           /\ \A v \in Evaluators \ {w} : worker'[v] = worker[v]
  <1> DEFINE new == [worker[w] EXCEPT !.at = at]
  <1>1. worker[w] \in WorkerRecords
    BY DEF ClusterTypeOK, WorkerRecords
  <1>2. new \in WorkerRecords /\ new.at = at /\ new.trace = worker[w].trace
    BY <1>1 DEF WorkerRecords
  <1>3. worker' = [worker EXCEPT ![w] = new]
    OBVIOUS
  <1> QED
    BY <1>2, <1>3, WorkerType

-----------------------------------------------------------------------------
\* What the evaluators that do not move know stays true when ids are only added
\* and members of what is left only join.
LEMMA OthersSound ==
    ASSUME NEW v \in Evaluators, Sound(worker[v]), worker'[v] = worker[v],
           ClusterTypeOK, created' \in Nat, created <= created',
           \A j \in clusters' : j > created \/ (j \in clusters /\ members[j] \subseteq members'[j]),
           \A j \in clusters' \cap clusters :
             Cardinality(members[j]) <= Cardinality(members'[j])
                /\ Cardinality(members[j]) \in Nat /\ Cardinality(members'[j]) \in Nat
    PROVE  Sound(worker[v])'
  <1> PICK q : q = worker[v]
    OBVIOUS
  <1>1. q.loaded \in Nat
    BY DEF ClusterTypeOK
  <1>2. ASSUME q.at \in {"find", "create", "refind", "member", "commit"}
        PROVE  q.trace \in Failing
    BY <1>2 DEF Sound
  <1>3. ASSUME q.at \in {"member", "commit"}
        PROVE  /\ q.id \in 1..created'
               /\ q.id \in clusters' => q.loaded <= Cardinality(members'[q.id])
    <2>1. /\ q.id \in 1..created
          /\ q.id \in clusters => q.loaded <= Cardinality(members[q.id])
      BY <1>3 DEF Sound
    <2>2. created \in Nat
      BY IdsInRange
    <2> QED
      BY <1>1, <2>1, <2>2
  <1>4. ASSUME q.at = "commit", q.known, q.id \in clusters'
        PROVE  q.trace \in members'[q.id]
    <2>1. q.id \in 1..created /\ (q.id \in clusters => q.trace \in members[q.id])
      BY <1>4 DEF Sound
    <2>2. q.id \in clusters
      BY <1>4, <2>1, IdsInRange
    <2> QED
      BY <1>4, <2>1, <2>2, IdsInRange
  <1>5. ASSUME q.at = "notify"
        PROVE  q.id \in 1..created'
    <2>1. q.id \in 1..created /\ created \in Nat
      BY <1>5, IdsInRange DEF Sound
    <2> QED
      BY <2>1
  <1> QED
    BY <1>2, <1>3, <1>4, <1>5 DEF Sound

\* The steps that touch no row: the evaluator's knowledge is right afterwards.
\* Find and Refind load a count that does not exceed the members.
LEMMA QuietStep ==
    ASSUME CountInv, NEW w \in Evaluators,
           \/ \E t \in Failing : BeginClustering(w, t)
           \/ Find(w) \/ Refind(w) \/ ReadMember(w)
    PROVE  /\ worker' \in [Evaluators -> WorkerRecords]
           /\ Sound(worker[w])'
           /\ \A v \in Evaluators \ {w} : worker'[v] = worker[v]
           /\ worker[w].at # "notify" /\ worker'[w].at # "notify"
           /\ UNCHANGED <<table, clusterGhosts>>
  <1> USE DEF CountInv
  <1>0. Sound(worker[w]) /\ worker[w] \in WorkerRecords
    BY DEF WorkersSound, ClusterTypeOK, WorkerRecords
  <1>1. ASSUME NEW i \in clusters, JoinsCluster(w, i), worker[w].trace \in Failing,
               UNCHANGED <<table, clusterGhosts>>
        PROVE  /\ worker' \in [Evaluators -> WorkerRecords]
               /\ Sound(worker[w])'
               /\ \A v \in Evaluators \ {w} : worker'[v] = worker[v]
               /\ worker'[w].at # "notify"
    <2>1. size[i] <= Cardinality(members[i]) /\ i \in 1..created
      BY <1>1, IdsInRange DEF CountFollowsMembers, ClusterTypeOK
    <2>2. UNCHANGED <<created, clusters, members>>
      BY <1>1 DEF table
    <2> QED
      BY <1>1, <2>1, <2>2, Joins DEF Sound
  <1>2. CASE \E t \in Failing : BeginClustering(w, t)
    <2>1. PICK t \in Failing : BeginClustering(w, t)
      BY <1>2
    <2> DEFINE new == [worker[w] EXCEPT !.at = "find", !.trace = t]
    <2>2. new \in WorkerRecords /\ new.at = "find" /\ new.trace = t
      BY <1>0 DEF WorkerRecords
    <2>3. worker' = [worker EXCEPT ![w] = new] /\ worker[w].at = "free"
          /\ UNCHANGED <<table, clusterGhosts>>
      BY <2>1 DEF BeginClustering
    <2> HIDE DEF new
    <2> QED
      BY <2>2, <2>3, WorkerType DEF Sound
  <1>3. CASE Find(w)
    <2>1. /\ worker[w].at = "find" /\ worker[w].trace \in Failing
          /\ UNCHANGED <<table, clusterGhosts>>
      BY <1>0, <1>3 DEF Find, Sound
    <2>2. \/ \E i \in clusters : JoinsCluster(w, i)
          \/ worker' = [worker EXCEPT ![w].at = "create"]
      BY <1>3 DEF Find, Existing, SimilarTo
    <2>3. CASE \E i \in clusters : JoinsCluster(w, i)
      BY <1>1, <2>1, <2>3
    <2>4. CASE worker' = [worker EXCEPT ![w].at = "create"]
      BY <2>1, <2>4, GoesOn DEF Sound
    <2> QED
      BY <2>1, <2>2, <2>3, <2>4
  <1>4. CASE Refind(w)
    <2>1. /\ worker[w].at = "refind" /\ worker[w].trace \in Failing
          /\ UNCHANGED <<table, clusterGhosts>>
      BY <1>0, <1>4 DEF Refind, Sound
    <2>2. \/ \E i \in clusters : JoinsCluster(w, i)
          \/ worker' = [worker EXCEPT ![w] = Free]
      BY <1>4 DEF Refind, Existing
    <2>3. CASE \E i \in clusters : JoinsCluster(w, i)
      BY <1>1, <2>1, <2>3
    <2>4. CASE worker' = [worker EXCEPT ![w] = Free]
      BY <2>1, <2>4, LeavesOne DEF Sound
    <2> QED
      BY <2>1, <2>2, <2>3, <2>4
  <1>5. CASE ReadMember(w)
    <2> DEFINE known == worker[w].trace \in members[worker[w].id]
               new == [worker[w] EXCEPT !.at = "commit", !.known = known]
    <2>1. /\ worker[w].at = "member" /\ worker[w].trace \in Failing
          /\ UNCHANGED <<table, clusterGhosts>>
          /\ worker' = [worker EXCEPT ![w] = new]
      BY <1>0, <1>5 DEF ReadMember, Sound
    <2>2. /\ new \in WorkerRecords /\ new.at = "commit" /\ new.known = known
          /\ new.trace = worker[w].trace /\ new.id = worker[w].id
          /\ new.loaded = worker[w].loaded
      <3> HIDE DEF known
      <3>1. known \in BOOLEAN
        BY DEF known
      <3> QED
        BY <1>0, <3>1 DEF WorkerRecords
    <2>3. UNCHANGED <<created, clusters, members>>
      BY <2>1 DEF table
    <2>4. worker' \in [Evaluators -> WorkerRecords] /\ worker'[w] = new
          /\ \A v \in Evaluators \ {w} : worker'[v] = worker[v]
      BY <2>1, <2>2, WorkerType
    <2> HIDE DEF new
    <2> QED
      BY <1>0, <2>1, <2>2, <2>3, <2>4 DEF Sound
  <1> QED
    BY <1>2, <1>3, <1>4, <1>5

-----------------------------------------------------------------------------
\* A step that writes no row keeps the invariant when its evaluator's knowledge
\* is right afterwards.
LEMMA NoRowWritten ==
    ASSUME CountInv, NEW w \in Evaluators,
           worker' \in [Evaluators -> WorkerRecords], Sound(worker[w])',
           \A v \in Evaluators \ {w} : worker'[v] = worker[v],
           UNCHANGED <<table, staleCounts>>,
           alerts' \in [ClusterIds -> Nat], unalerted' \subseteq ClusterIds
    PROVE  CountInv'
  <1> USE DEF CountInv
  <1>1. UNCHANGED <<clusters, created, key, size, members, ignored, staleCounts>>
    BY DEF table
  <1>2. ClusterTypeOK'
    BY <1>1 DEF ClusterTypeOK, WorkerRecords
  <1>3. CountFollowsMembers'
    BY <1>1 DEF CountFollowsMembers
  <1>4. ASSUME NEW v \in Evaluators
        PROVE  Sound(worker[v])'
    <2>1. CASE v = w
      BY <2>1
    <2>2. CASE v # w
      <3>1. worker'[v] = worker[v] /\ Sound(worker[v])
        BY <2>2 DEF WorkersSound
      <3> QED
        BY <1>1, <3>1 DEF Sound
    <2> QED
      BY <2>1, <2>2
  <1> QED
    BY <1>2, <1>3, <1>4 DEF WorkersSound

\* A commit: the count it writes does not exceed the members there then are, and
\* is all of them when the count it loaded was still the one of the row.
LEMMA CommitCounts ==
    ASSUME CountInv, NEW w \in Evaluators, Commit(w)
    PROVE  CountInv'
  <1> USE DEF CountInv
  <1> DEFINE i == worker[w].id
             t == worker[w].trace
             fails == i \notin clusters \/ (~worker[w].known /\ t \in members[i])
  <1>1. Sound(worker[w]) /\ worker[w] \in WorkerRecords /\ worker[w].at = "commit"
    BY DEF WorkersSound, ClusterTypeOK, WorkerRecords, Commit
  <1>2. /\ worker' \in [Evaluators -> WorkerRecords]
        /\ worker'[w].at = "free"
        /\ \A v \in Evaluators \ {w} : worker'[v] = worker[v]
        /\ Sound(worker[w])'
    <2>1. worker' = [worker EXCEPT ![w] = Free]
      BY DEF Commit
    <2> QED
      BY <2>1, LeavesOne DEF Sound
  <1>3. UNCHANGED <<clusters, created, key, ignored, alerts, unalerted>>
    BY DEF Commit
  <1>4. alerts' \in [ClusterIds -> Nat] /\ unalerted' \subseteq ClusterIds
    BY <1>3 DEF ClusterTypeOK
  <1>5. CASE fails
    <2>1. UNCHANGED <<table, staleCounts>>
      BY <1>3, <1>5 DEF Commit, table
    <2> QED
      BY <1>2, <1>4, <2>1, NoRowWritten
  <1>6. CASE ~fails
    <2>1. /\ i \in clusters /\ i \in ClusterIds /\ t \in Failing
          /\ worker[w].loaded <= Cardinality(members[i])
          /\ worker[w].loaded \in Nat
          /\ worker[w].known \in BOOLEAN
          /\ worker[w].known <=> t \in members[i]
      BY <1>1, <1>6, IdsInRange DEF Sound, WorkerRecords
    <2>2. /\ size' = [size EXCEPT ![i] = NewCount(w)]
          /\ members' = [members EXCEPT ![i] = @ \cup {t}]
          /\ staleCounts' = IF ~worker[w].known /\ worker[w].loaded # size[i]
                            THEN staleCounts \cup {i} ELSE staleCounts
      BY <1>6 DEF Commit
    <2>3. /\ size \in [ClusterIds -> Nat] /\ members \in [ClusterIds -> SUBSET Failing]
          /\ size[i] <= Cardinality(members[i])
          /\ i \notin staleCounts => size[i] = Cardinality(members[i])
      BY <2>1 DEF ClusterTypeOK, CountFollowsMembers
    <2>4. IsFiniteSet(members[i]) /\ Cardinality(members[i]) \in Nat
      BY <2>1, MembersCount
    <2>5. members'[i] = members[i] \cup {t} /\ size'[i] = NewCount(w)
      BY <2>1, <2>2, <2>3
    <2>6. Cardinality(members'[i])
            = IF worker[w].known THEN Cardinality(members[i]) ELSE Cardinality(members[i]) + 1
      <3>1. Cardinality(members[i] \cup {t})
              = IF t \in members[i] THEN Cardinality(members[i])
                ELSE Cardinality(members[i]) + 1
        BY <2>4, FS_AddElement
      <3> QED
        BY <2>1, <2>5, <3>1
    <2>7. /\ NewCount(w) \in Nat
          /\ size'[i] <= Cardinality(members'[i])
          /\ i \notin staleCounts' => size'[i] = Cardinality(members'[i])
      <3>1. CASE worker[w].known
        BY <2>1, <2>2, <2>3, <2>4, <2>5, <2>6, <3>1 DEF NewCount
      <3>2. CASE ~worker[w].known
        BY <2>1, <2>2, <2>3, <2>4, <2>5, <2>6, <3>2 DEF NewCount
      <3> QED
        BY <3>1, <3>2
    <2>8. \A j \in ClusterIds \ {i} : members'[j] = members[j] /\ size'[j] = size[j]
      BY <2>2, <2>3
    <2>9. /\ size' \in [ClusterIds -> Nat]
          /\ members' \in [ClusterIds -> SUBSET Failing]
          /\ staleCounts' \subseteq ClusterIds
          /\ \A j \in ClusterIds \ {i} : j \in staleCounts' <=> j \in staleCounts
      BY <2>1, <2>2, <2>3, <2>7 DEF ClusterTypeOK
    <2>10. ClusterTypeOK'
      BY <1>2, <1>3, <2>9 DEF ClusterTypeOK, WorkerRecords
    <2>11. CountFollowsMembers'
      <3> SUFFICES ASSUME NEW j \in clusters
                   PROVE  /\ size'[j] <= Cardinality(members'[j])
                          /\ j \notin staleCounts' => size'[j] = Cardinality(members'[j])
        BY <1>3 DEF CountFollowsMembers
      <3>1. CASE j = i
        BY <2>7, <3>1
      <3>2. CASE j # i
        BY <2>8, <2>9, <3>2, IdsInRange DEF CountFollowsMembers
      <3> QED
        BY <3>1, <3>2
    <2>12. ASSUME NEW v \in Evaluators
           PROVE  Sound(worker[v])'
      <3>1. CASE v = w
        BY <1>2, <3>1
      <3>2. CASE v # w
        <4>1. Sound(worker[v]) /\ worker'[v] = worker[v]
          BY <1>2, <3>2 DEF WorkersSound
        <4>2. \A j \in clusters' : j \in clusters /\ members[j] \subseteq members'[j]
          BY <1>3, <2>5, <2>8, IdsInRange
        <4>3. ASSUME NEW j \in clusters
              PROVE  /\ Cardinality(members[j]) <= Cardinality(members'[j])
                     /\ Cardinality(members[j]) \in Nat
                     /\ Cardinality(members'[j]) \in Nat
          <5>1. Cardinality(members[j]) \in Nat /\ j \in ClusterIds
            BY MembersCount, IdsInRange
          <5>2. CASE j = i
            BY <2>4, <2>6, <5>2
          <5>3. CASE j # i
            BY <2>8, <5>1, <5>3
          <5> QED
            BY <5>2, <5>3
        <4>4. created' \in Nat /\ created <= created'
          BY <1>3, IdsInRange
        <4> QED
          BY <4>1, <4>2, <4>3, <4>4, OthersSound
      <3> QED
        BY <3>1, <3>2
    <2> QED
      BY <2>10, <2>11, <2>12 DEF WorkersSound
  <1> QED
    BY <1>5, <1>6

\* A cluster that goes takes nothing from what is known of the others.
LEMMA DeleteCounts ==
    ASSUME CountInv, NEW i \in ClusterIds, Delete(i)
    PROVE  CountInv'
  <1> USE DEF CountInv
  <1>1. /\ clusters' = clusters \ {i} /\ key' = [j \in clusters' |-> key[j]]
        /\ size' = [size EXCEPT ![i] = 0] /\ members' = [members EXCEPT ![i] = {}]
        /\ UNCHANGED <<created, ignored, worker, alerts, unalerted, staleCounts>>
    BY DEF Delete, clusterGhosts
  <1>2. \A j \in clusters' :
          /\ j \in clusters /\ j \in ClusterIds
          /\ members'[j] = members[j] /\ size'[j] = size[j]
    BY <1>1, IdsInRange DEF ClusterTypeOK
  <1>3. ClusterTypeOK'
    BY <1>1 DEF ClusterTypeOK
  <1>4. CountFollowsMembers'
    BY <1>1, <1>2 DEF CountFollowsMembers
  <1>5. ASSUME NEW v \in Evaluators
        PROVE  Sound(worker[v])'
    <2>1. Sound(worker[v]) /\ worker'[v] = worker[v]
      BY <1>1 DEF WorkersSound
    <2>2. \A j \in clusters' : Cardinality(members[j]) \in Nat
      BY <1>2, MembersCount
    <2>3. created' \in Nat /\ created <= created'
      BY <1>1, IdsInRange
    <2>4. \A j \in clusters' \cap clusters :
             Cardinality(members[j]) <= Cardinality(members'[j])
                /\ Cardinality(members[j]) \in Nat /\ Cardinality(members'[j]) \in Nat
      BY <1>2, <2>2
    <2> QED
      BY <1>2, <2>1, <2>3, <2>4, OthersSound
  <1> QED
    BY <1>3, <1>4, <1>5 DEF WorkersSound

\* A cluster begins with the one member it counts, under an id nobody has.
LEMMA CreateCounts ==
    ASSUME CountInv, NEW w \in Evaluators, Create(w)
    PROVE  /\ CountInv'
           /\ \A v \in Evaluators \ {w} : worker'[v] = worker[v]
           /\ worker[w].at # "notify"
           /\ UNCHANGED clusterGhosts
           /\ \/ worker'[w].at # "notify" /\ created' = created
              \/ /\ worker'[w].at = "notify" /\ worker'[w].id = created'
                 /\ created < MaxClusters /\ created' = created + 1
  <1> USE DEF CountInv
  <1>1. /\ Sound(worker[w]) /\ worker[w] \in WorkerRecords /\ worker[w].at = "create"
        /\ worker[w].trace \in Failing
    BY DEF WorkersSound, Sound, ClusterTypeOK, WorkerRecords, Create
  <1>2. /\ UNCHANGED clusterGhosts
        /\ alerts' \in [ClusterIds -> Nat] /\ unalerted' \subseteq ClusterIds
        /\ staleCounts' = staleCounts
    BY DEF Create, clusterGhosts, ClusterTypeOK
  <1>3. CASE worker' = [worker EXCEPT ![w].at = "refind"] /\ UNCHANGED table
    <2>1. /\ worker' \in [Evaluators -> WorkerRecords]
          /\ worker'[w].at = "refind" /\ worker'[w].trace = worker[w].trace
          /\ \A v \in Evaluators \ {w} : worker'[v] = worker[v]
      BY <1>3, GoesOn
    <2>2. Sound(worker[w])'
      BY <1>1, <2>1 DEF Sound
    <2>3. CountInv'
      BY <1>2, <1>3, <2>1, <2>2, NoRowWritten
    <2> QED
      BY <1>1, <1>2, <1>3, <2>1, <2>3 DEF table
  <1>4. CASE /\ created < MaxClusters /\ created' = created + 1
             /\ clusters' = clusters \cup {created'}
             /\ key' = [i \in clusters' |-> IF i = created' THEN KeyOf(w) ELSE key[i]]
             /\ size' = [size EXCEPT ![created'] = 1]
             /\ members' = [members EXCEPT ![created'] = {worker[w].trace}]
             /\ worker' = [worker EXCEPT ![w].at = "notify", ![w].id = created']
             /\ UNCHANGED ignored
    <2>1. /\ created \in Nat /\ created' \in ClusterIds /\ created' \notin clusters
          /\ clusters \subseteq ClusterIds /\ created' \in OptionalId
          /\ created' \in 0..MaxClusters /\ created' \in 1..created'
          /\ clusters' \subseteq 1..created'
      BY <1>4, IdsInRange, ClusterAssumption DEF ClusterIds, OptionalId, ClusterTypeOK
    <2> PICK c : c = created'
      OBVIOUS
    <2> DEFINE new == [worker[w] EXCEPT !.at = "notify", !.id = c]
    <2>2. new \in WorkerRecords /\ new.at = "notify" /\ new.id = c
      BY <1>1, <2>1 DEF WorkerRecords
    <2>3. worker' = [worker EXCEPT ![w] = new]
      BY <1>4
    <2> HIDE DEF new
    <2>4. /\ worker' \in [Evaluators -> WorkerRecords] /\ worker'[w] = new
          /\ \A v \in Evaluators \ {w} : worker'[v] = worker[v]
      BY <2>2, <2>3, WorkerType
    <2>5. KeyOf(w) \in Keys
      BY <1>1 DEF KeyOf, Keys
    <2>6. /\ size' \in [ClusterIds -> Nat] /\ members' \in [ClusterIds -> SUBSET Failing]
          /\ size'[c] = 1 /\ members'[c] = {worker[w].trace}
          /\ \A j \in ClusterIds \ {c} : size'[j] = size[j] /\ members'[j] = members[j]
      BY <1>1, <1>4, <2>1 DEF ClusterTypeOK
    <2>7. key' \in [clusters' -> Keys]
      BY <1>4, <2>1, <2>5 DEF ClusterTypeOK
    <2>8. ignored' = ignored
      BY <1>4
    <2>9. ClusterTypeOK'
      BY <1>2, <2>1, <2>4, <2>6, <2>7, <2>8 DEF ClusterTypeOK, WorkerRecords
    <2>10. Cardinality(members'[c]) = 1
      BY <2>6, FS_Singleton
    <2>11. CountFollowsMembers'
      <3> SUFFICES ASSUME NEW j \in clusters'
                   PROVE  /\ size'[j] <= Cardinality(members'[j])
                          /\ j \notin staleCounts' => size'[j] = Cardinality(members'[j])
        BY DEF CountFollowsMembers
      <3>1. CASE j = c
        <4>1. size'[j] = 1 /\ Cardinality(members'[j]) = 1
          BY <2>6, <2>10, <3>1
        <4> QED
          BY <4>1
      <3>2. CASE j # c
        <4>1. j \in clusters /\ j \in ClusterIds
          BY <1>4, <2>1, <3>2
        <4> QED
          BY <1>2, <2>6, <3>2, <4>1 DEF CountFollowsMembers
      <3> QED
        BY <3>1, <3>2
    <2>12. ASSUME NEW v \in Evaluators
           PROVE  Sound(worker[v])'
      <3>1. CASE v = w
        BY <2>1, <2>2, <2>4, <3>1 DEF Sound
      <3>2. CASE v # w
        <4>1. Sound(worker[v]) /\ worker'[v] = worker[v]
          BY <2>4, <3>2 DEF WorkersSound
        <4>2. \A j \in clusters : j # c /\ members'[j] = members[j]
          BY <2>1, <2>6
        <4>3. \A j \in clusters : Cardinality(members[j]) \in Nat
          BY <2>1, MembersCount
        <4>4. \A j \in clusters' :
                j > created \/ (j \in clusters /\ members[j] \subseteq members'[j])
          BY <1>4, <2>1, <4>2
        <4>5. \A j \in clusters' \cap clusters :
                Cardinality(members[j]) <= Cardinality(members'[j])
                  /\ Cardinality(members[j]) \in Nat /\ Cardinality(members'[j]) \in Nat
          BY <4>2, <4>3
        <4>6. created' \in Nat /\ created <= created'
          BY <1>4, <2>1
        <4> QED
          BY <4>1, <4>4, <4>5, <4>6, OthersSound
      <3> QED
        BY <3>1, <3>2
    <2>13. worker'[w].at = "notify" /\ worker'[w].id = created'
      BY <2>2, <2>4
    <2> QED
      BY <1>1, <1>2, <1>4, <2>4, <2>9, <2>11, <2>12, <2>13 DEF WorkersSound
  <1> QED
    BY <1>3, <1>4 DEF Create

-----------------------------------------------------------------------------
\* No step makes a count exceed its members, or lag behind them unnoticed.
LEMMA CountStep ==
    ASSUME CountInv, [ClusterNext]_clusterVars
    PROVE  CountInv'
  <1>0. ClusterTypeOK
    BY DEF CountInv
  <1>1. ASSUME NEW w \in Evaluators,
               \/ \E t \in Failing : BeginClustering(w, t)
               \/ Find(w) \/ Refind(w) \/ ReadMember(w)
        PROVE  CountInv'
    <2>1. alerts' \in [ClusterIds -> Nat] /\ unalerted' \subseteq ClusterIds
          /\ staleCounts' = staleCounts
      BY <1>0, <1>1, QuietStep DEF clusterGhosts, ClusterTypeOK
    <2> QED
      BY <1>1, <2>1, QuietStep, NoRowWritten
  <1>2. ASSUME NEW w \in Evaluators, Create(w)
        PROVE  CountInv'
    BY <1>2, CreateCounts
  <1>3. ASSUME NEW w \in Evaluators, Commit(w)
        PROVE  CountInv'
    BY <1>3, CommitCounts
  <1>4. ASSUME NEW w \in Evaluators, Notify(w) \/ EvaluatorDies(w)
        PROVE  CountInv'
    <2>1. /\ worker' = [worker EXCEPT ![w] = Free]
          /\ UNCHANGED <<table, staleCounts>>
          /\ alerts' = alerts \/ alerts' = [alerts EXCEPT ![worker[w].id] = @ + 1]
          /\ unalerted' = unalerted
               \/ (worker[w].at = "notify" /\ unalerted' = unalerted \cup {worker[w].id})
      BY <1>4 DEF Notify, EvaluatorDies
    <2>2. alerts' \in [ClusterIds -> Nat]
      BY <1>0, <2>1 DEF ClusterTypeOK
    <2>3. worker[w].at = "notify" => worker[w].id \in ClusterIds
      BY <1>0, IdsInRange DEF CountInv, WorkersSound, Sound
    <2>4. unalerted' \subseteq ClusterIds
      BY <1>0, <2>1, <2>3 DEF ClusterTypeOK
    <2>5. /\ worker' \in [Evaluators -> WorkerRecords] /\ worker'[w].at = "free"
          /\ \A v \in Evaluators \ {w} : worker'[v] = worker[v]
      BY <1>0, <2>1, LeavesOne
    <2>6. Sound(worker[w])'
      BY <2>5 DEF Sound
    <2> QED
      BY <2>1, <2>2, <2>4, <2>5, <2>6, NoRowWritten
  <1>5. ASSUME NEW i \in ClusterIds, Delete(i)
        PROVE  CountInv'
    BY <1>5, DeleteCounts
  <1>6. ASSUME NEW i \in ClusterIds, Ignore(i)
        PROVE  CountInv'
    <2>1. /\ ignored' \subseteq ClusterIds
          /\ UNCHANGED <<clusters, created, key, size, members, worker, alerts, unalerted,
                         staleCounts>>
      BY <1>6, <1>0 DEF Ignore, clusterGhosts, ClusterTypeOK
    <2> QED
      BY <2>1 DEF CountInv, ClusterTypeOK, WorkersSound, Sound, CountFollowsMembers
  <1>7. CASE UNCHANGED clusterVars
    BY <1>7 DEF clusterVars, CountInv, ClusterTypeOK, WorkersSound, Sound, CountFollowsMembers
  <1> QED
    BY <1>1, <1>2, <1>3, <1>4, <1>5, <1>6, <1>7 DEF ClusterNext

LEMMA CountBegins ==
    ASSUME ClusterInit
    PROVE  CountInv
  <1>1. clusters = {} /\ created = 0 /\ worker = [w \in Evaluators |-> Free]
    BY DEF ClusterInit
  <1>2. ClusterTypeOK
    BY FreeType, ClusterAssumption DEF ClusterInit, ClusterTypeOK, WorkerRecords, ClusterIds
  <1>3. WorkersSound
    BY <1>1, FreeType DEF WorkersSound, Sound
  <1> QED
    BY <1>1, <1>2, <1>3 DEF CountInv, CountFollowsMembers

LEMMA CountsKept == ClusterSpec => []CountInv
  BY CountBegins, CountStep, PTL DEF ClusterSpec

\* The rows, the sessions of the evaluators and the alerts are always of their
\* types: in particular every count is a natural number and no evaluation works
\* on a cluster that never was.
THEOREM ClusterTypes == ClusterSpec => []ClusterTypeOK
  BY CountsKept, PTL DEF CountInv

\* failure_clusters.count never exceeds the members of the cluster, and equals
\* them as long as no commit of _record_member has counted from an old value.
THEOREM CountsFollow == ClusterSpec => []CountFollowsMembers
  BY CountsKept, PTL DEF CountInv

-----------------------------------------------------------------------------
\* Steps that neither alert nor give an evaluator an alert to send.
LEMMA NothingToAlert ==
    ASSUME AlertInv, NEW w \in Evaluators,
           worker[w].at # "notify", worker'[w].at # "notify",
           \A v \in Evaluators \ {w} : worker'[v] = worker[v],
           UNCHANGED <<created, alerts, unalerted>>
    PROVE  (AboutToAlert /\ OneAlertPerCluster)'
  <1>1. \A v \in Evaluators : worker'[v].at = "notify" \/ worker[v].at = "notify"
                               => worker'[v] = worker[v]
    OBVIOUS
  <1>2. AboutToAlert'
    BY <1>1 DEF AlertInv, AboutToAlert
  <1>3. OneAlertPerCluster'
    BY <1>1 DEF AlertInv, OneAlertPerCluster
  <1> QED
    BY <1>2, <1>3

\* Whoever creates a cluster has the alert of a new id to itself.
LEMMA CreatorAlerts ==
    ASSUME AlertInv, NEW w \in Evaluators, worker[w].at # "notify",
           worker'[w].at = "notify", worker'[w].id = created',
           created < MaxClusters, created' = created + 1,
           \A v \in Evaluators \ {w} : worker'[v] = worker[v],
           UNCHANGED <<alerts, unalerted>>
    PROVE  (AboutToAlert /\ OneAlertPerCluster)'
  <1>1. created \in Nat /\ created' \in ClusterIds /\ created' \in Nat
    BY IdsInRange DEF AlertInv, CountInv
  <1>2. \A v \in Evaluators : worker'[v].at = "notify" /\ v # w =>
          worker'[v] = worker[v] /\ worker[v].id \in 1..created
    BY DEF AlertInv, CountInv, WorkersSound, Sound
  <1>3. \A v \in Evaluators : worker'[v].at = "notify" /\ v # w => worker'[v].id # created'
    BY <1>1, <1>2
  <1>4. alerts'[created'] = 0
    BY <1>1 DEF AlertInv, AboutToAlert
  <1>5. AboutToAlert'
    <2>1. \A i \in ClusterIds : i > created' => alerts'[i] = 0
      BY <1>1 DEF AlertInv, AboutToAlert, ClusterIds
    <2>2. \A v \in Evaluators : worker'[v].at = "notify" => alerts'[worker'[v].id] = 0
      BY <1>2, <1>4 DEF AlertInv, AboutToAlert
    <2>3. \A u, v \in Evaluators :
            worker'[u].at = "notify" /\ worker'[v].at = "notify" /\ worker'[u].id = worker'[v].id
              => u = v
      BY <1>2, <1>3 DEF AlertInv, AboutToAlert
    <2> QED
      BY <2>1, <2>2, <2>3 DEF AboutToAlert
  <1>6. OneAlertPerCluster'
    <2> SUFFICES ASSUME NEW i \in 1..created'
                 PROVE  /\ alerts'[i] <= 1
                        /\ alerts'[i] = 0 => i \in unalerted'
                             \/ \E v \in Evaluators :
                                  worker'[v].at = "notify" /\ worker'[v].id = i
      BY DEF OneAlertPerCluster
    <2>1. CASE i = created'
      BY <1>4, <2>1
    <2>2. CASE i # created'
      <3>1. i \in 1..created
        BY <1>1, <2>2
      <3>2. \A v \in Evaluators : worker[v].at = "notify" => worker'[v] = worker[v]
        OBVIOUS
      <3> QED
        BY <3>1, <3>2 DEF AlertInv, OneAlertPerCluster
    <2> QED
      BY <2>1, <2>2
  <1> QED
    BY <1>5, <1>6

\* The alert goes out, or is lost with its evaluator, which the ghost records.
LEMMA AlertGoes ==
    ASSUME AlertInv, NEW w \in Evaluators, Notify(w) \/ EvaluatorDies(w)
    PROVE  (AboutToAlert /\ OneAlertPerCluster)'
  <1>1. /\ worker'[w].at = "free" /\ created' = created
        /\ \A v \in Evaluators \ {w} : worker'[v] = worker[v]
    <2>1. worker' = [worker EXCEPT ![w] = Free] /\ created' = created
      BY DEF Notify, EvaluatorDies, table
    <2> QED
      BY <2>1, LeavesOne DEF AlertInv, CountInv
  <1>2. CASE worker[w].at # "notify"
    <2>1. UNCHANGED <<created, alerts, unalerted>>
      BY <1>2 DEF Notify, EvaluatorDies, table
    <2> QED
      BY <1>1, <1>2, <2>1, NothingToAlert
  <1>3. CASE worker[w].at = "notify"
    <2> PICK c : c = worker[w].id
      OBVIOUS
    <2>1. c \in 1..created /\ c \in ClusterIds /\ alerts[c] = 0 /\ created \in Nat
      BY <1>3, IdsInRange DEF AlertInv, CountInv, WorkersSound, Sound, AboutToAlert
    <2>2. \A v \in Evaluators : worker'[v].at = "notify" =>
            worker'[v] = worker[v] /\ v # w /\ worker'[v].id # c
      BY <1>1, <1>3 DEF AlertInv, AboutToAlert
    <2>3. alerts \in [ClusterIds -> Nat]
      BY DEF AlertInv, CountInv, ClusterTypeOK
    <2>4. \/ alerts' = [alerts EXCEPT ![c] = @ + 1] /\ unalerted' = unalerted
          \/ alerts' = alerts /\ unalerted' = unalerted \cup {c}
      BY <1>3 DEF Notify, EvaluatorDies
    <2>5. /\ \A i \in ClusterIds \ {c} : alerts'[i] = alerts[i]
          /\ alerts'[c] = 1 \/ (alerts'[c] = 0 /\ c \in unalerted')
          /\ unalerted \subseteq unalerted'
      BY <2>1, <2>3, <2>4
    <2>6. \A v \in Evaluators : worker'[v].at = "notify" => worker'[v].id \in ClusterIds
      BY <2>2, IdsInRange DEF AlertInv, CountInv, WorkersSound, Sound
    <2>7. \A i \in ClusterIds : i > created => i # c
      BY <2>1
    <2>8. AboutToAlert'
      BY <1>1, <2>2, <2>5, <2>6, <2>7 DEF AlertInv, AboutToAlert
    <2>9. OneAlertPerCluster'
      <3> SUFFICES ASSUME NEW i \in 1..created
                   PROVE  /\ alerts'[i] <= 1
                          /\ alerts'[i] = 0 => i \in unalerted'
                               \/ \E v \in Evaluators :
                                    worker'[v].at = "notify" /\ worker'[v].id = i
        BY <1>1 DEF OneAlertPerCluster
      <3>1. CASE i = c
        BY <2>5, <3>1
      <3>2. CASE i # c
        <4>1. i \in ClusterIds /\ alerts'[i] = alerts[i]
          BY <2>5, <3>2, IdsInRange DEF AlertInv, CountInv
        <4>2. /\ alerts[i] <= 1
              /\ alerts[i] = 0 => i \in unalerted
                   \/ \E v \in Evaluators : worker[v].at = "notify" /\ worker[v].id = i
          BY DEF AlertInv, OneAlertPerCluster
        <4>3. \A v \in Evaluators : worker[v].at = "notify" /\ worker[v].id = i
                                     => v # w /\ worker'[v] = worker[v]
          BY <1>1, <3>2
        <4> QED
          BY <2>5, <4>1, <4>2, <4>3
      <3> QED
        BY <3>1, <3>2
    <2> QED
      BY <2>8, <2>9
  <1> QED
    BY <1>2, <1>3

LEMMA AlertStep ==
    ASSUME AlertInv, [ClusterNext]_clusterVars
    PROVE  AlertInv'
  <1>1. CountInv /\ ClusterTypeOK
    BY DEF AlertInv, CountInv
  <1>2. CountInv'
    BY <1>1, CountStep
  <1>3. ASSUME NEW w \in Evaluators,
               \/ \E t \in Failing : BeginClustering(w, t)
               \/ Find(w) \/ Refind(w) \/ ReadMember(w)
        PROVE  (AboutToAlert /\ OneAlertPerCluster)'
    <2>1. /\ worker[w].at # "notify" /\ worker'[w].at # "notify"
          /\ \A v \in Evaluators \ {w} : worker'[v] = worker[v]
          /\ UNCHANGED <<table, clusterGhosts>>
      BY <1>1, <1>3, QuietStep
    <2> QED
      BY <2>1, NothingToAlert DEF table, clusterGhosts
  <1>4. ASSUME NEW w \in Evaluators, Create(w)
        PROVE  (AboutToAlert /\ OneAlertPerCluster)'
    <2>1. UNCHANGED <<alerts, unalerted>>
      BY <1>1, <1>4, CreateCounts DEF clusterGhosts
    <2> QED
      BY <1>1, <1>4, <2>1, CreateCounts, CreatorAlerts, NothingToAlert
  <1>5. ASSUME NEW w \in Evaluators, Commit(w)
        PROVE  (AboutToAlert /\ OneAlertPerCluster)'
    <2>1. /\ worker[w].at = "commit" /\ worker' = [worker EXCEPT ![w] = Free]
          /\ UNCHANGED <<created, alerts, unalerted>>
      BY <1>5 DEF Commit
    <2> QED
      BY <1>1, <2>1, LeavesOne, NothingToAlert
  <1>6. ASSUME NEW w \in Evaluators, Notify(w) \/ EvaluatorDies(w)
        PROVE  (AboutToAlert /\ OneAlertPerCluster)'
    BY <1>6, AlertGoes
  <1>7. ASSUME \/ \E i \in ClusterIds : Delete(i) \/ Ignore(i)
               \/ UNCHANGED clusterVars
        PROVE  (AboutToAlert /\ OneAlertPerCluster)'
    <2>1. UNCHANGED <<created, worker, alerts, unalerted>>
      BY <1>7 DEF Delete, Ignore, clusterVars, clusterGhosts
    <2> QED
      BY <2>1 DEF AlertInv, AboutToAlert, OneAlertPerCluster
  <1>8. (AboutToAlert /\ OneAlertPerCluster)'
    BY <1>3, <1>4, <1>5, <1>6, <1>7 DEF ClusterNext
  <1> QED
    BY <1>2, <1>8 DEF AlertInv

LEMMA AlertsBegin ==
    ASSUME ClusterInit
    PROVE  AlertInv
  <1>1. CountInv
    BY CountBegins
  <1>2. /\ created = 0 /\ alerts = [i \in ClusterIds |-> 0]
        /\ \A w \in Evaluators : worker[w].at = "free"
    BY FreeType DEF ClusterInit
  <1> QED
    BY <1>1, <1>2 DEF AlertInv, AboutToAlert, OneAlertPerCluster

\* One alert for each new failure mode: two evaluations that race for a signature
\* never both raise it, and it fails to come only if the evaluation that created
\* the cluster died before _notify_new_cluster.
THEOREM AlertedOnce == ClusterSpec => []OneAlertPerCluster
  <1>1. AlertInv => OneAlertPerCluster
    BY DEF AlertInv
  <1> QED
    BY <1>1, AlertsBegin, AlertStep, PTL DEF ClusterSpec

-----------------------------------------------------------------------------
(* The rolling summary                                                     *)

\* What a pass keeps.
Passes ==
    [at : {"rest", "rows", "list", "delete", "loop"}, flat : SUBSET Spans, done : SUBSET Spans,
     existing : [Spans -> SUBSET SummaryRows], running : SUBSET Spans]

SummaryTypes ==
    /\ arrived \in SUBSET Spans /\ late \in SUBSET arrived
    /\ summary \in [Spans -> SUBSET SummaryRows]
    /\ \A x \in Spans : \A q, r \in summary[x] : q = r
    /\ build \in [Builders -> Passes]

\* A pass goes through the spans it has read, in the order they then had; what
\* is not late has the place before or after them that it had then.
PassReads(b) ==
    /\ build[b].flat \subseteq arrived /\ build[b].done \subseteq build[b].flat
    /\ build[b].at = "rest" => build[b].flat = {}
    /\ build[b].at # "loop" => build[b].done = {}
    /\ \A y \in arrived \ late, z \in build[b].flat :
         Before(arrived, y, z) <=> y \in build[b].flat /\ Before(build[b].flat, y, z)
    /\ \A d \in build[b].done, z \in build[b].flat \ build[b].done : Before(build[b].flat, d, z)

\* y is x or, in the walk of what has arrived, before it.
UpTo(y, x) == y = x \/ Before(arrived, y, x)

\* What a pass carries on, and what it has read of a row, has taken in every
\* span so far but the late ones.
PassCarries(b) ==
    /\ build[b].at = "loop" =>
         \A x \in build[b].flat : \A r \in build[b].existing[x] :
           \A y \in arrived \ late : UpTo(y, x) => y \in r.covers
    /\ \A y \in arrived \ late, d \in build[b].done : UpTo(y, d) => y \in build[b].running

\* So has every row, of a span that is there.
RowsCover ==
    \A x \in Spans : \A r \in summary[x] :
        x \in arrived /\ \A y \in arrived \ late : UpTo(y, x) => y \in r.covers

Earlier(x) == {y \in arrived : Before(arrived, y, x)}

\* With none late, a row's place is the number of spans before it.
RowsInPlace ==
    late = {} => \A x \in Spans : \A r \in summary[x] : r.order = Cardinality(Earlier(x))

SummaryInv ==
    /\ SummaryTypes
    /\ \A b \in Builders : PassReads(b) /\ PassCarries(b)
    /\ RowsCover /\ RowsInPlace

\* _group_turns: no span is before itself, or both before and after another.
LEMMA WalkIsStrict ==
    ASSUME NEW S \in SUBSET Spans, NEW x \in Spans, NEW y \in Spans, Before(S, x, y)
    PROVE  ~Before(S, y, x)
  <1>1. \A z \in Spans : z \in Nat
    BY SummaryAssumption
  <1>2. CASE TraceOf[x] = TraceOf[y]
    BY <1>1, <1>2 DEF Before
  <1>3. CASE TraceOf[x] # TraceOf[y]
    <2>1. PICK z \in S : /\ TraceOf[z] = TraceOf[x]
                         /\ \A w \in S : TraceOf[w] = TraceOf[y] => z < w
      BY <1>3 DEF Before
    <2>2. ASSUME NEW v \in S, TraceOf[v] = TraceOf[y],
                 \A w \in S : TraceOf[w] = TraceOf[x] => v < w
          PROVE  FALSE
      <3>1. z < v /\ v < z
        BY <2>1, <2>2
      <3> QED
        BY <1>1, <3>1
    <2> QED
      BY <1>3, <2>2 DEF Before
  <1> QED
    BY <1>2, <1>3

\* What is before a span that is before another is before that one.
LEMMA WalkIsTransitive ==
    ASSUME NEW S \in SUBSET Spans, NEW x \in Spans, NEW y \in Spans, NEW z \in Spans,
           Before(S, x, y), Before(S, y, z)
    PROVE  Before(S, x, z)
  <1>1. \A v \in Spans : v \in Nat
    BY SummaryAssumption
  <1>2. CASE TraceOf[x] = TraceOf[y] /\ TraceOf[y] = TraceOf[z]
    BY <1>1, <1>2 DEF Before
  <1>3. CASE TraceOf[x] = TraceOf[y] /\ TraceOf[y] # TraceOf[z]
    BY <1>3 DEF Before
  <1>4. CASE TraceOf[x] # TraceOf[y] /\ TraceOf[y] = TraceOf[z]
    BY <1>4 DEF Before
  <1>5. CASE TraceOf[x] # TraceOf[y] /\ TraceOf[y] # TraceOf[z]
    <2>1. PICK u \in S : /\ TraceOf[u] = TraceOf[x]
                         /\ \A w \in S : TraceOf[w] = TraceOf[y] => u < w
      BY <1>5 DEF Before
    <2>2. PICK v \in S : /\ TraceOf[v] = TraceOf[y]
                         /\ \A w \in S : TraceOf[w] = TraceOf[z] => v < w
      BY <1>5 DEF Before
    <2>3. u < v /\ u \in Nat /\ v \in Nat
      BY <1>1, <2>1, <2>2
    <2>4. \A w \in S : TraceOf[w] = TraceOf[z] => u < w
      BY <1>1, <2>2, <2>3
    <2>5. TraceOf[x] # TraceOf[z]
      BY <1>1, <2>1, <2>4
    <2> QED
      BY <2>1, <2>4, <2>5 DEF Before
  <1> QED
    BY <1>2, <1>3, <1>4, <1>5

\* How many spans come first is a place a row can have.
LEMMA PlaceType ==
    ASSUME NEW S \in SUBSET Spans
    PROVE  Cardinality(S) \in 0..Cardinality(Spans)
  <1>1. IsFiniteSet(Spans) /\ IsFiniteSet(S) /\ Cardinality(S) <= Cardinality(Spans)
    BY SummaryAssumption, FS_Subset
  <1>2. Cardinality(S) \in Nat /\ Cardinality(Spans) \in Nat
    BY <1>1, FS_CardinalityType
  <1> QED
    BY <1>1, <1>2

\* A pass that starts, or is over, has nothing.
LEMMA RestingType == Resting \in Passes /\ NoRows \in [Spans -> SUBSET SummaryRows]
  BY DEF Resting, Passes, NoRows

\* Nothing is summarized before a span arrives.
LEMMA SummaryInitInv == SummaryInit => SummaryInv
  <1> SUFFICES ASSUME SummaryInit PROVE SummaryInv
    OBVIOUS
  <1>1. \A x \in Spans : summary[x] = {}
    BY DEF SummaryInit, NoRows
  <1>2. SummaryTypes
    BY <1>1, RestingType, FS_EmptySet DEF SummaryInit, SummaryTypes
  <1>3. \A b \in Builders : build[b] = Resting
    BY DEF SummaryInit
  <1>4. \A b \in Builders : PassReads(b) /\ PassCarries(b)
    BY <1>3 DEF PassReads, PassCarries, Resting
  <1>5. RowsCover /\ RowsInPlace
    BY <1>1 DEF RowsCover, RowsInPlace
  <1> QED
    BY <1>2, <1>4, <1>5 DEF SummaryInv

\* A span arrives: what it puts in front of, or behind, what a row or a pass
\* holds is late.
LEMMA ArriveKeeps ==
    ASSUME SummaryInv, NEW y \in Spans, Arrive(y)
    PROVE  SummaryInv'
  <1> DEFINE taken == {x \in Spans : summary[x] # {}} \cup UNION {build[b].flat : b \in Builders}
  <1>1. /\ y \notin arrived /\ arrived' = arrived \cup {y} /\ UNCHANGED <<summary, build>>
        /\ late' = late \cup Displaced(arrived, arrived', taken)
    BY DEF Arrive
  <1>2. SummaryTypes'
    BY <1>1 DEF SummaryInv, SummaryTypes, Displaced
  <1>3. /\ late \subseteq late'
        /\ \A v \in arrived' \ late', z \in taken :
             Before(arrived', v, z) <=> v \in arrived /\ Before(arrived, v, z)
    BY <1>1 DEF Displaced
  <1>4. /\ \A x \in Spans : summary[x] # {} => x \in taken
        /\ \A b \in Builders : build[b].flat \subseteq taken
    OBVIOUS
  <1> HIDE DEF taken
  <1>5. \A x \in Spans : summary[x] # {} => x \in arrived
    BY DEF SummaryInv, RowsCover
  <1>6. \A b \in Builders : build[b].flat \subseteq arrived /\ build[b].done \subseteq build[b].flat
    BY DEF SummaryInv, PassReads
  <1>7. ASSUME NEW x \in taken \cap arrived, NEW v \in arrived' \ late', UpTo(v, x)'
        PROVE  v \in arrived \ late /\ UpTo(v, x)
    <2>1. v = x \/ Before(arrived', v, x)
      BY <1>7 DEF UpTo
    <2> QED
      BY <1>1, <1>3, <2>1 DEF UpTo
  <1>8. ASSUME NEW b \in Builders
        PROVE  PassReads(b)' /\ PassCarries(b)'
    <2>1. PassReads(b) /\ PassCarries(b)
      BY DEF SummaryInv
    <2>2. ASSUME NEW v \in arrived' \ late', NEW z \in build[b].flat
          PROVE  Before(arrived', v, z) <=> v \in build[b].flat /\ Before(build[b].flat, v, z)
      <3>1. Before(arrived', v, z) <=> v \in arrived /\ Before(arrived, v, z)
        BY <1>3, <1>4
      <3>2. v \in arrived => (Before(arrived, v, z)
                              <=> v \in build[b].flat /\ Before(build[b].flat, v, z))
        BY <1>3, <2>1 DEF PassReads
      <3> QED
        BY <1>6, <3>1, <3>2
    <2>3. PassReads(b)'
      BY <1>1, <2>1, <2>2 DEF PassReads
    <2>4. \A x \in build[b].flat : x \in taken \cap arrived
      BY <1>4, <1>6
    <2>5. PassCarries(b)'
      BY <1>1, <1>6, <1>7, <2>1, <2>4 DEF PassCarries
    <2> QED
      BY <2>3, <2>5
  <1>9. RowsCover'
    BY <1>1, <1>4, <1>5, <1>7 DEF SummaryInv, RowsCover
  <1>10. RowsInPlace'
    <2> SUFFICES ASSUME late' = {}, NEW x \in Spans, NEW r \in summary[x]
                 PROVE  r.order = Cardinality(Earlier(x)')
      BY <1>1 DEF RowsInPlace
    <2>1. Earlier(x)' = Earlier(x)
      BY <1>1, <1>3, <1>4 DEF Earlier
    <2>2. late = {}
      BY <1>3
    <2> QED
      BY <2>1, <2>2 DEF SummaryInv, RowsInPlace
  <1> QED
    BY <1>2, <1>8, <1>9, <1>10 DEF SummaryInv

\* A pass whose only step is to begin, to read, or to be over.
LEMMA PassMoves ==
    ASSUME SummaryInv, NEW b \in Builders, NEW new \in Passes, build' = [build EXCEPT ![b] = new],
           UNCHANGED <<arrived, summary, late>>, PassReads(b)', PassCarries(b)'
    PROVE  SummaryInv'
  <1>1. SummaryTypes'
    BY DEF SummaryInv, SummaryTypes
  <1>2. ASSUME NEW c \in Builders, c # b
        PROVE  PassReads(c)' /\ PassCarries(c)'
    <2>1. build'[c] = build[c] /\ PassReads(c) /\ PassCarries(c)
      BY <1>2 DEF SummaryInv, SummaryTypes
    <2> QED
      BY <2>1 DEF PassReads, PassCarries, UpTo
  <1>3. RowsCover' /\ RowsInPlace'
    BY DEF SummaryInv, RowsCover, RowsInPlace, Earlier, UpTo
  <1> QED
    BY <1>1, <1>2, <1>3 DEF SummaryInv

\* Reading the spans, listing or reading the rows, and the end of a pass.
LEMMA ReadKeeps ==
    ASSUME SummaryInv, NEW b \in Builders,
           \/ \E force \in BOOLEAN : ReadSpans(b, force)
           \/ ReadRows(b) \/ ListRows(b) \/ BuildEnds(b)
    PROVE  SummaryInv'
  <1>1. /\ build \in [Builders -> Passes] /\ summary \in [Spans -> SUBSET SummaryRows]
        /\ arrived \in SUBSET Spans /\ PassReads(b) /\ PassCarries(b)
    BY DEF SummaryInv, SummaryTypes
  <1>2. UNCHANGED <<arrived, summary, late>>
    BY DEF ReadSpans, ReadRows, ListRows, BuildEnds
  <1>3. ASSUME NEW force \in BOOLEAN, ReadSpans(b, force)
        PROVE  SummaryInv'
    <2> DEFINE new == [Resting EXCEPT !.at = IF force THEN "list" ELSE "rows", !.flat = arrived]
    <2>1. build' = [build EXCEPT ![b] = new]
      BY <1>3 DEF ReadSpans
    <2>2. /\ new \in Passes /\ new.at \in {"list", "rows"} /\ new.flat = arrived
          /\ new.done = {} /\ new.existing = NoRows /\ new.running = {}
      BY <1>1, RestingType DEF Resting, Passes
    <2> HIDE DEF new
    <2>3. build'[b] = new
      BY <1>1, <2>1
    <2>4. PassReads(b)' /\ PassCarries(b)'
      BY <1>2, <2>2, <2>3 DEF PassReads, PassCarries
    <2> QED
      BY <1>2, <2>1, <2>2, <2>4, PassMoves
  <1>4. CASE ReadRows(b) \/ ListRows(b)
    <2>1. PICK l \in {"loop", "delete"} :
             /\ build[b].at \in {"rows", "list"}
             /\ build' = [build EXCEPT ![b] = [build[b] EXCEPT !.at = l, !.existing = summary]]
      BY <1>1, <1>4 DEF ReadRows, ListRows, Passes
    <2> DEFINE new == [build[b] EXCEPT !.at = l, !.existing = summary]
    <2>2. /\ new \in Passes /\ new.at = l /\ new.flat = build[b].flat
          /\ new.done = build[b].done /\ new.existing = summary
          /\ new.running = build[b].running
      BY <1>1 DEF Passes
    <2> HIDE DEF new
    <2>3. build' = [build EXCEPT ![b] = new] /\ build'[b] = new
      BY <1>1, <2>1 DEF new
    <2>4. build[b].flat # {} => build[b].flat \subseteq Spans
      BY <1>1 DEF Passes
    <2>5. PassReads(b)' /\ PassCarries(b)'
      <3>1. PassReads(b)'
        BY <1>1, <1>2, <2>1, <2>2, <2>3 DEF PassReads
      <3>2. PassCarries(b)'
        BY <1>1, <1>2, <2>1, <2>2, <2>3, <2>4
        DEF PassReads, PassCarries, SummaryInv, RowsCover, UpTo
      <3> QED
        BY <3>1, <3>2
    <2> QED
      BY <1>2, <2>2, <2>3, <2>5, PassMoves
  <1>5. CASE BuildEnds(b)
    <2>1. build' = [build EXCEPT ![b] = Resting] /\ build'[b] = Resting
      BY <1>1, <1>5 DEF BuildEnds
    <2>2. PassReads(b)' /\ PassCarries(b)'
      BY <1>2, <2>1 DEF PassReads, PassCarries, Resting
    <2> QED
      BY <1>2, <2>1, <2>2, RestingType, PassMoves
  <1> QED
    BY <1>3, <1>4, <1>5

\* The forced pass deletes what it has listed; alone, it starts afresh.
LEMMA DeleteKeeps ==
    ASSUME SummaryInv, NEW b \in Builders, DeleteRows(b)
    PROVE  SummaryInv'
  <1>1. /\ build \in [Builders -> Passes] /\ summary \in [Spans -> SUBSET SummaryRows]
        /\ arrived \in SUBSET Spans /\ late \in SUBSET arrived
        /\ \A x \in Spans : \A q, r \in summary[x] : q = r
        /\ \A c \in Builders : PassReads(c) /\ PassCarries(c)
    BY DEF SummaryInv, SummaryTypes
  <1>2. /\ build[b].at = "delete" /\ arrived' = arrived
        /\ summary' = [x \in Spans |-> summary[x] \ build[b].existing[x]]
        /\ build' = [Unlisted(b) EXCEPT ![b].at = "loop"]
    BY DEF DeleteRows
  <1>3. ASSUME NEW c \in Builders
        PROVE  /\ build'[c] \in Passes
               /\ build'[c].at = IF c = b THEN "loop" ELSE build[c].at
               /\ build'[c].flat = build[c].flat /\ build'[c].done = build[c].done
               /\ build'[c].running = build[c].running
               /\ build[c].at # "delete" => build'[c].existing = build[c].existing
               /\ c = b => \A x \in Spans : build'[c].existing[x] = {}
    <2> DEFINE less == [x \in Spans |-> build[c].existing[x] \ build[b].existing[x]]
    <2>1. build[c] \in Passes /\ build[b] \in Passes
      BY <1>1
    <2>2. DOMAIN build[c].existing = Spans /\ less \in [Spans -> SUBSET SummaryRows]
      BY <2>1 DEF Passes
    <2>3. Unlisted(b)[c] = IF build[c].at = "delete"
                           THEN [build[c] EXCEPT !.existing = less] ELSE build[c]
      BY DEF Unlisted
    <2>4. Unlisted(b)[c] \in Passes
      BY <2>1, <2>2, <2>3 DEF Passes
    <2>5. build'[c] = IF c = b THEN [Unlisted(b)[c] EXCEPT !.at = "loop"] ELSE Unlisted(b)[c]
      <3> DEFINE u == Unlisted(b)
      <3>1. DOMAIN u = Builders
        BY DEF Unlisted
      <3>2. build' = [u EXCEPT ![b] = [u[b] EXCEPT !.at = "loop"]]
        BY <1>2
      <3> HIDE DEF u
      <3>3. build'[c] = IF c = b THEN [u[c] EXCEPT !.at = "loop"] ELSE u[c]
        BY <3>1, <3>2
      <3> QED
        BY <3>3 DEF u
    <2>6. c = b => \A x \in Spans : less[x] = {}
      OBVIOUS
    <2> HIDE DEF less
    <2>7. Unlisted(b)[c].flat = build[c].flat /\ Unlisted(b)[c].done = build[c].done
          /\ Unlisted(b)[c].running = build[c].running /\ Unlisted(b)[c].at = build[c].at
          /\ Unlisted(b)[c].existing = IF build[c].at = "delete" THEN less
                                       ELSE build[c].existing
      BY <2>1, <2>3 DEF Passes
    <2> HIDE DEF Unlisted
    <2>8. /\ build'[c] \in Passes /\ build'[c].flat = build[c].flat
          /\ build'[c].done = build[c].done /\ build'[c].running = build[c].running
          /\ build'[c].existing = Unlisted(b)[c].existing
          /\ build'[c].at = IF c = b THEN "loop" ELSE build[c].at
      BY <2>4, <2>5, <2>7 DEF Passes
    <2> QED
      BY <1>2, <2>6, <2>7, <2>8
  <1>4. build' \in [Builders -> Passes]
    <2>1. build' = [c \in Builders |-> build'[c]]
      BY <1>2 DEF Unlisted
    <2> QED
      BY <1>3, <2>1
  <1>5. /\ summary' \in [Spans -> SUBSET SummaryRows]
        /\ \A x \in Spans : summary'[x] \subseteq summary[x]
    BY <1>1, <1>2
  <1>6. CASE late' = late
    <2>1. SummaryTypes'
      BY <1>1, <1>2, <1>4, <1>5, <1>6 DEF SummaryTypes
    <2>2. ASSUME NEW c \in Builders
          PROVE  PassReads(c)' /\ PassCarries(c)'
      <3>1. PassReads(c)'
        BY <1>1, <1>2, <1>3, <1>6 DEF PassReads
      <3>2. PassCarries(c)
        BY <1>1
      <3>3. \A y \in arrived' \ late', d \in build'[c].done :
              UpTo(y, d)' => y \in build'[c].running
        BY <1>2, <1>3, <1>6, <3>2 DEF PassCarries, UpTo
      <3>4. ASSUME build'[c].at = "loop", NEW x \in build'[c].flat, NEW r \in build'[c].existing[x],
                   NEW y \in arrived' \ late', UpTo(y, x)'
            PROVE  y \in r.covers
        <4>1. c # b
          <5>1. x \in Spans
            BY <1>3 DEF Passes
          <5> QED
            BY <1>3, <3>4, <5>1
        <4>2. build[c].at = "loop" /\ build'[c].existing = build[c].existing
              /\ build'[c].flat = build[c].flat
          BY <1>3, <3>4, <4>1
        <4> QED
          BY <1>2, <1>6, <3>2, <3>4, <4>2 DEF PassCarries, UpTo
      <3> QED
        BY <3>1, <3>3, <3>4 DEF PassCarries
    <2>3. RowsCover' /\ RowsInPlace'
      BY <1>2, <1>5, <1>6 DEF SummaryInv, RowsCover, RowsInPlace, Earlier, UpTo
    <2> QED
      BY <2>1, <2>2, <2>3 DEF SummaryInv
  <1>7. CASE /\ late' = Displaced(build[b].flat, arrived, build[b].flat)
             /\ summary' = NoRows
             /\ \A c \in Builders \ {b} : build[c].at = "rest"
    <2>1. SummaryTypes'
      BY <1>1, <1>2, <1>4, <1>5, <1>7 DEF SummaryTypes, Displaced
    <2>2. ASSUME NEW c \in Builders
          PROVE  PassReads(c)' /\ PassCarries(c)'
      <3>1. build[c].done = {} /\ (c # b => build[c].flat = {} /\ build[c].at = "rest")
        BY <1>1, <1>2, <1>7 DEF PassReads
      <3>2. PassReads(c)'
        BY <1>1, <1>2, <1>3, <1>7, <3>1 DEF PassReads, Displaced
      <3>3. build'[c].flat \subseteq Spans
        BY <1>3 DEF Passes
      <3>4. PassCarries(c)'
        BY <1>3, <3>1, <3>3 DEF PassCarries
      <3> QED
        BY <3>2, <3>4
    <2>3. \A x \in Spans : summary'[x] = {}
      BY <1>7 DEF NoRows
    <2>4. RowsCover' /\ RowsInPlace'
      BY <2>3 DEF RowsCover, RowsInPlace
    <2> QED
      BY <2>1, <2>2, <2>4 DEF SummaryInv
  <1> QED
    BY <1>6, <1>7 DEF DeleteRows

\* The next span: its row is carried on, or it is summarized.
LEMMA NextKeeps ==
    ASSUME SummaryInv, NEW b \in Builders, NEW x \in Spans, NextSpan(b, x)
    PROVE  SummaryInv'
  <1> DEFINE p == build[b]
             rest == p.flat \ p.done
             running == IF p.existing[x] # {} THEN Carried(b, x) ELSE p.running \cup {x}
             row == SummaryRow(Cardinality(p.done), running)
             new == [p EXCEPT !.done = p.done \cup {x}, !.running = running]
  <1>1. /\ build \in [Builders -> Passes] /\ summary \in [Spans -> SUBSET SummaryRows]
        /\ arrived \in SUBSET Spans /\ late \in SUBSET arrived
        /\ \A z \in Spans : \A q, r \in summary[z] : q = r
        /\ \A c \in Builders : PassReads(c) /\ PassCarries(c)
    BY DEF SummaryInv, SummaryTypes
  <1>2. /\ p.at = "loop" /\ UNCHANGED <<arrived, late>>
        /\ build' = [build EXCEPT ![b].done = @ \cup {x}, ![b].running = running]
        /\ summary' = IF p.existing[x] # {} THEN summary
                      ELSE [summary EXCEPT ![x] = Inserted(summary[x], row)]
    BY <1>1 DEF NextSpan
  <1>3. /\ p \in Passes /\ p.flat \subseteq Spans /\ p.done \subseteq p.flat
        /\ p.flat \subseteq arrived
        /\ p.existing \in [Spans -> SUBSET SummaryRows] /\ p.running \subseteq Spans
    BY <1>1 DEF Passes, PassReads
  <1>5. x \in rest /\ \A y \in rest : y = x \/ Before(p.flat, x, y)
    BY DEF NextSpan
  <1>6. x \in Spans /\ x \in arrived
    BY <1>3, <1>5
  <1>7. /\ \A y \in p.flat : Before(p.flat, y, x) <=> y \in p.done
        /\ \A y \in arrived \ late : Before(arrived, y, x) <=> y \in p.done
    <2>1. \A d \in p.done : Before(p.flat, d, x)
      BY <1>1, <1>5 DEF PassReads
    <2>2. ASSUME NEW y \in p.flat, Before(p.flat, y, x) PROVE y \in p.done
      <3>1. ~Before(p.flat, x, y) /\ y # x
        BY <1>3, <1>6, <2>2, WalkIsStrict
      <3> QED
        BY <1>5, <3>1
    <2>3. \A y \in arrived \ late : Before(arrived, y, x) <=> y \in p.flat /\ Before(p.flat, y, x)
      BY <1>1, <1>5 DEF PassReads
    <2> QED
      BY <1>3, <2>1, <2>2, <2>3
  <1>8. running \in SUBSET Spans
    <2>1. Carried(b, x) \subseteq Spans
      BY <1>3, <1>6 DEF Carried, SummaryRows
    <2> QED
      BY <1>3, <1>6, <2>1
  <1>9. \A y \in arrived \ late : UpTo(y, x) => y \in running
    <2>1. CASE p.existing[x] # {}
      <3>1. PICK r \in p.existing[x] : TRUE
        BY <2>1
      <3>2. \A y \in arrived \ late : UpTo(y, x) => y \in r.covers
        BY <1>1, <1>2, <1>5, <3>1 DEF PassCarries
      <3>3. r.covers \subseteq Carried(b, x)
        BY <3>1 DEF Carried
      <3> QED
        BY <2>1, <3>2, <3>3
    <2>2. CASE p.existing[x] = {}
      <3>1. \A y \in arrived \ late : Before(arrived, y, x) => y \in p.running
        BY <1>1, <1>7 DEF PassCarries, UpTo
      <3> QED
        BY <2>2, <3>1 DEF UpTo
    <2> QED
      BY <2>1, <2>2
  <1> HIDE DEF running
  <1>10. /\ new \in Passes /\ new.at = "loop" /\ new.flat = p.flat
         /\ new.done = p.done \cup {x} /\ new.existing = p.existing
         /\ new.running = running
    BY <1>2, <1>3, <1>6, <1>8 DEF Passes
  <1>11. build' = [build EXCEPT ![b] = new]
    BY <1>1, <1>2
  <1> HIDE DEF new
  <1>12. build' \in [Builders -> Passes] /\ build'[b] = new
         /\ \A c \in Builders : c # b => build'[c] = build[c]
    BY <1>1, <1>10, <1>11
  <1>13. /\ row \in SummaryRows /\ row.covers = running /\ row.order = Cardinality(p.done)
    <2>1. Cardinality(p.done) \in 0..Cardinality(Spans)
      BY <1>3, PlaceType
    <2> QED
      BY <1>8, <2>1 DEF SummaryRow, SummaryRows
  <1> HIDE DEF row
  <1>14. /\ \A z \in Spans \ {x} : summary'[z] = summary[z]
         /\ summary'[x] = summary[x] \/ (summary[x] = {} /\ summary'[x] = {row})
         /\ summary' \in [Spans -> SUBSET SummaryRows]
    <2>1. Inserted(summary[x], row) = summary[x]
          \/ (summary[x] = {} /\ Inserted(summary[x], row) = {row})
      BY DEF Inserted
    <2>2. Inserted(summary[x], row) \in SUBSET SummaryRows
      BY <1>1, <1>6, <1>13, <2>1
    <2> HIDE DEF Inserted
    <2> QED
      BY <1>1, <1>2, <1>6, <2>1, <2>2
  <1>15. SummaryTypes'
    <2>1. \A z \in Spans : \A q, r \in summary'[z] : q = r
      BY <1>1, <1>14
    <2> QED
      BY <1>1, <1>2, <1>12, <1>14, <2>1 DEF SummaryTypes
  <1>16. ASSUME NEW c \in Builders
         PROVE  PassReads(c)' /\ PassCarries(c)'
    <2>1. CASE c # b
      BY <1>1, <1>2, <1>12, <2>1 DEF PassReads, PassCarries, UpTo
    <2>2. CASE c = b
      <3>1. \A d \in p.done \cup {x}, z \in p.flat \ (p.done \cup {x}) : Before(p.flat, d, z)
        BY <1>1, <1>5 DEF PassReads
      <3>2. PassReads(c)'
        BY <1>1, <1>2, <1>3, <1>5, <1>10, <1>12, <2>2, <3>1 DEF PassReads
      <3>3. \A y \in arrived \ late, d \in p.done \cup {x} : UpTo(y, d) => y \in running
        <4> SUFFICES ASSUME NEW y \in arrived \ late, NEW d \in p.done, UpTo(y, d)
                     PROVE  y \in p.done
          BY <1>7, <1>9 DEF UpTo
        <4>1. CASE Before(arrived, y, d)
          <5>1. y \in p.flat /\ Before(p.flat, y, d)
            BY <1>1, <1>3, <4>1 DEF PassReads
          <5>2. Before(p.flat, d, x)
            BY <1>3, <1>7
          <5>3. Before(p.flat, y, x)
            BY <1>3, <1>6, <5>1, <5>2, WalkIsTransitive
          <5> QED
            BY <1>7, <5>1, <5>3
        <4> QED
          BY <4>1 DEF UpTo
      <3>4. PassCarries(c)'
        BY <1>1, <1>2, <1>10, <1>12, <2>2, <3>3 DEF PassCarries, UpTo
      <3> QED
        BY <3>2, <3>4
    <2> QED
      BY <2>1, <2>2
  <1>17. RowsCover'
    <2> SUFFICES ASSUME NEW z \in Spans, NEW r \in summary'[z]
                 PROVE  z \in arrived /\ \A y \in arrived \ late : UpTo(y, z) => y \in r.covers
      BY <1>2 DEF RowsCover, UpTo
    <2>1. CASE r \in summary[z]
      BY <2>1 DEF SummaryInv, RowsCover
    <2>2. CASE z = x /\ r = row
      BY <1>6, <1>9, <1>13, <2>2
    <2> QED
      BY <1>14, <2>1, <2>2
  <1>18. RowsInPlace'
    <2> SUFFICES ASSUME late = {}, NEW z \in Spans, NEW r \in summary'[z]
                 PROVE  r.order = Cardinality(Earlier(z))
      BY <1>2 DEF RowsInPlace, Earlier
    <2>1. CASE r \in summary[z]
      BY <2>1 DEF SummaryInv, RowsInPlace
    <2>2. CASE z = x /\ r = row
      <3>1. Earlier(x) = p.done
        BY <1>3, <1>7 DEF Earlier
      <3> QED
        BY <1>13, <2>2, <3>1
    <2> QED
      BY <1>14, <2>1, <2>2
  <1> QED
    BY <1>15, <1>16, <1>17, <1>18 DEF SummaryInv

\* Every step keeps what rows and passes have taken in.
LEMMA SummaryStep == SummaryInv /\ [SummaryNext]_summaryVars => SummaryInv'
  <1> SUFFICES ASSUME SummaryInv, [SummaryNext]_summaryVars PROVE SummaryInv'
    OBVIOUS
  <1>1. CASE UNCHANGED summaryVars
    BY <1>1 DEF summaryVars, SummaryInv, SummaryTypes, PassReads, PassCarries, RowsCover,
                RowsInPlace, Earlier, UpTo
  <1> QED
    BY <1>1, ArriveKeeps, ReadKeeps, DeleteKeeps, NextKeeps DEF SummaryNext

\* Rows and passes have taken in what they should.
LEMMA SummaryHolds == SummarySpec => []SummaryInv
  BY SummaryInitInv, SummaryStep, PTL DEF SummarySpec

\* rolling_summary_service.py: spans, rows and passes stay well typed, and no
\* span gets a second row (uq_rolling_summary_thread_span).
THEOREM SummaryRowsUnique == SummarySpec => []SummaryTypeOK
  <1>1. SummaryInv => SummaryTypeOK
    <2> SUFFICES ASSUME SummaryInv PROVE SummaryTypeOK
      OBVIOUS
    <2>1. SummaryTypes /\ \A b \in Builders : PassReads(b)
      BY DEF SummaryInv
    <2>2. \A x \in Spans : Cardinality(summary[x]) <= 1
      <3> SUFFICES ASSUME NEW x \in Spans PROVE Cardinality(summary[x]) <= 1
        OBVIOUS
      <3>1. CASE summary[x] = {}
        BY <3>1, FS_EmptySet
      <3>2. CASE summary[x] # {}
        <4>1. PICK r \in summary[x] : TRUE
          BY <3>2
        <4>2. summary[x] = {r}
          BY <2>1, <4>1 DEF SummaryTypes
        <4>3. Cardinality({r}) = 1
          BY FS_Singleton
        <4> QED
          BY <4>2, <4>3
      <3> QED
        BY <3>1, <3>2
    <2> QED
      BY <2>1, <2>2 DEF SummaryTypes, PassReads, Passes, SummaryTypeOK
  <1> QED
    BY <1>1, SummaryHolds, PTL

\* build_thread_rolling_summary: however passes and turns overlap, die or are
\* forced, a span's summary lacks no span that the walk of _group_turns takes
\* before it but the late ones, and with none late the rows are in its order.
THEOREM SummariesMissOnlyLate == SummarySpec => []OnlyLateSpansMissing
  <1>1. SummaryInv => OnlyLateSpansMissing
    <2> SUFFICES ASSUME SummaryInv PROVE OnlyLateSpansMissing
      OBVIOUS
    <2>1. /\ arrived \in SUBSET Spans /\ RowsCover /\ RowsInPlace
          /\ summary \in [Spans -> SUBSET SummaryRows]
      BY DEF SummaryInv, SummaryTypes
    <2>2. \A x \in Spans, y \in arrived \ late :
            Before(arrived, y, x) => \A r \in summary[x] : y \in r.covers
      BY <2>1 DEF RowsCover, UpTo
    <2>3. ASSUME late = {}, NEW x \in arrived, NEW y \in arrived, Before(arrived, x, y),
                 NEW r \in summary[x], NEW q \in summary[y]
          PROVE  r.order < q.order
      <3>1. /\ x \in Spans /\ y \in Spans /\ r.order = Cardinality(Earlier(x))
            /\ q.order = Cardinality(Earlier(y))
        BY <2>1, <2>3 DEF RowsInPlace
      <3>2. Earlier(x) \subseteq Earlier(y)
        BY <2>1, <2>3, <3>1, WalkIsTransitive DEF Earlier
      <3>3. x \in Earlier(y) /\ x \notin Earlier(x)
        BY <2>1, <2>3, <3>1, WalkIsStrict DEF Earlier
      <3>4. IsFiniteSet(Earlier(y)) /\ IsFiniteSet(Earlier(x))
        BY <2>1, SummaryAssumption, FS_Subset DEF Earlier
      <3>5. Cardinality(Earlier(x)) \in Nat /\ Cardinality(Earlier(y)) \in Nat
        BY <3>4, FS_CardinalityType
      <3>6. /\ Cardinality(Earlier(x)) <= Cardinality(Earlier(y))
            /\ Cardinality(Earlier(x)) # Cardinality(Earlier(y))
        BY <3>2, <3>3, <3>4, FS_Subset
      <3> QED
        BY <3>1, <3>5, <3>6
    <2> QED
      BY <2>2, <2>3 DEF OnlyLateSpansMissing
  <1> QED
    BY <1>1, SummaryHolds, PTL

-----------------------------------------------------------------------------
(* Monitors and alerts                                                     *)

\* The times a run can have are times, whatever its kind.
LEMMA TimeType ==
    ASSUME AlertTypeOK, NEW r \in Runs
    PROVE  TimeOf(r) \in Times /\ NextClock(r) \in Times
  BY AlertAssumption DEF AlertTypeOK, RunRecords, TimeOf, NextClock, Times

\* A run at rest is a run.
LEMMA DoneType == Done \in RunRecords
  BY AlertAssumption DEF Done, RunRecords, Times

\* The run that has gone past a monitor is a run.
LEMMA PastType ==
    ASSUME AlertTypeOK, NEW r \in Runs, NEW m \in Monitors
    PROVE  Past(r, m) \in RunRecords
  <1>1. run[r] \in RunRecords
    BY DEF AlertTypeOK
  <1>2. [run[r].loaded EXCEPT ![m] = 0] \in [Monitors -> 0..MaxNow]
    BY <1>1, AlertAssumption DEF RunRecords
  <1>3. Past(r, m) = [run[r] EXCEPT !.left = @ \ {m}, !.loaded = [@ EXCEPT ![m] = 0]]
    BY DEF Past
  <1> HIDE DEF RunRecords
  <1> QED
    BY <1>1, <1>2, <1>3 DEF RunRecords

\* A run whose time, firings, flow or place is another is a run.
LEMMA EditType ==
    ASSUME NEW p \in RunRecords, NEW t \in Times, NEW fired \in SUBSET Monitors,
           NEW flow \in SUBSET Flows, NEW at \in {"done", "loop", "commit", "flow"}
    PROVE  /\ [p EXCEPT !.clock = t, !.fired = fired, !.at = at] \in RunRecords
           /\ [p EXCEPT !.clock = t, !.fired = fired, !.at = at, !.flow = flow] \in RunRecords
           /\ [p EXCEPT !.at = at, !.flow = flow, !.clock = t] \in RunRecords
           /\ [p EXCEPT !.at = at, !.fired = fired, !.clock = t] \in RunRecords
  BY DEF RunRecords

\* The firings that are recorded are times.
LEMMA RecordedType ==
    ASSUME AlertTypeOK, NEW fired, NEW t \in Times, Recorded(fired, t)
    PROVE  lastFired' \in [Monitors -> 0..MaxNow]
  BY AlertAssumption DEF AlertTypeOK, Recorded, Times

\* A monitor that acts, acts at a time.
LEMMA ActsType ==
    ASSUME AlertTypeOK, NEW m \in Monitors, NEW t \in Times, Acts(m, t)
    PROVE  sentAt' \in [Monitors -> SUBSET Times] /\ early' \subseteq Monitors
  BY DEF AlertTypeOK, Acts

\* One run changes, the others stay.
LEMMA RunType ==
    ASSUME AlertTypeOK, NEW r \in Runs, NEW new \in RunRecords,
           run' = [run EXCEPT ![r] = new]
    PROVE  run' \in [Runs -> RunRecords]
  BY DEF AlertTypeOK

\* A run begins with the monitors it has loaded.
LEMMA StartType ==
    ASSUME AlertTypeOK, NEW r \in Runs, NEW kind \in {"tick", "event"},
           NEW which \in SUBSET Monitors, Start(r, kind, which)
    PROVE  AlertTypeOK'
  <1> DEFINE loaded == [m \in Monitors |-> IF m \in which THEN lastFired[m] ELSE 0]
             clock == IF kind = "event" THEN now ELSE 1
             new == [Done EXCEPT !.at = "loop", !.kind = kind, !.left = which,
                       !.clock = clock, !.loaded = loaded]
  <1>1. loaded \in [Monitors -> 0..MaxNow]
    BY AlertAssumption DEF AlertTypeOK
  <1>2. clock \in Times
    BY AlertAssumption DEF AlertTypeOK, Times
  <1> HIDE DEF loaded, clock
  <1>3. new \in RunRecords
    BY <1>1, <1>2, DoneType DEF RunRecords
  <1> USE DEF loaded, clock
  <1>4. run' = [run EXCEPT ![r] = new]
    BY DEF Start
  <1>5. run' \in [Runs -> RunRecords]
    BY <1>3, <1>4, RunType
  <1>6. starts' \in 0..MaxStarts /\ overlapped' \in BOOLEAN
    BY AlertAssumption DEF Start, AlertTypeOK
  <1> QED
    BY <1>5, <1>6 DEF Start, AlertTypeOK, alertGhosts

\* Every step keeps the types.
LEMMA TypeStep ==
    ASSUME AlertTypeOK, [AlertNext]_alertVars
    PROVE  AlertTypeOK'
  <1>1. CASE UNCHANGED alertVars
    BY <1>1 DEF alertVars, AlertTypeOK
  <1>2. CASE TimePasses
    BY <1>2, AlertAssumption DEF TimePasses, alertGhosts, AlertTypeOK, Times
  <1>3. ASSUME NEW r \in Runs, EvaluateAll(r) \/ NotifyEvent(r) \/ EvaluateOne(r)
        PROVE  AlertTypeOK'
    BY <1>3, StartType DEF EvaluateAll, NotifyEvent, EvaluateOne
  <1>4. ASSUME NEW r \in Runs, NEW m \in Monitors, Pass(r, m)
        PROVE  AlertTypeOK'
    <2>1. run' \in [Runs -> RunRecords]
      BY <1>4, PastType, RunType DEF Pass
    <2> QED
      BY <1>4, <2>1 DEF Pass, AlertTypeOK, alertGhosts
  <1>5. ASSUME NEW r \in Runs, NEW m \in Monitors, FireChannels(r, m)
        PROVE  AlertTypeOK'
    <2> DEFINE t == TimeOf(r)
               fired == Past(r, m).fired \cup {m}
               at == IF run[r].kind = "tick" THEN "commit" ELSE "loop"
               new == [Past(r, m) EXCEPT !.clock = t, !.fired = fired, !.at = at]
    <2>1. new \in RunRecords
      <3>1. Past(r, m) \in RunRecords /\ t \in Times
        BY PastType, TimeType
      <3>2. fired \in SUBSET Monitors
        BY <3>1 DEF RunRecords
      <3>3. at \in {"done", "loop", "commit", "flow"}
        OBVIOUS
      <3> HIDE DEF t, fired, at
      <3> QED
        BY <3>1, <3>2, <3>3, EditType
    <2>2. run' = [run EXCEPT ![r] = new]
      BY <1>5 DEF FireChannels
    <2>3. run' \in [Runs -> RunRecords]
      BY <2>1, <2>2, RunType
    <2>4. sentAt' \in [Monitors -> SUBSET Times] /\ early' \subseteq Monitors
      BY <1>5, ActsType, TimeType DEF FireChannels
    <2>5. UNCHANGED <<now, lastFired, starts, overlapped, broken>>
      BY <1>5 DEF FireChannels
    <2> QED
      BY <2>3, <2>4, <2>5 DEF AlertTypeOK
  <1>6. ASSUME NEW r \in Runs, NEW m \in Monitors, FireFlow(r, m)
        PROVE  AlertTypeOK'
    <2> DEFINE new == [Past(r, m) EXCEPT !.clock = TimeOf(r), !.fired = {},
                        !.at = "flow", !.flow = {m}]
    <2>1. new \in RunRecords
      <3>1. Past(r, m) \in RunRecords /\ TimeOf(r) \in Times
        BY PastType, TimeType
      <3>2. {m} \in SUBSET Flows
        BY <1>6 DEF FireFlow
      <3> QED
        BY <3>1, <3>2, EditType
    <2>2. run' = [run EXCEPT ![r] = new]
      BY <1>6 DEF FireFlow
    <2>3. run' \in [Runs -> RunRecords]
      BY <2>1, <2>2, RunType
    <2>4. lastFired' \in [Monitors -> 0..MaxNow]
      BY <1>6, RecordedType, TimeType DEF FireFlow
    <2> QED
      BY <1>6, <2>3, <2>4 DEF FireFlow, AlertTypeOK, alertGhosts
  <1>7. ASSUME NEW r \in Runs, RunFlow(r)
        PROVE  AlertTypeOK'
    <2>1. PICK m \in run[r].flow : Acts(m, run[r].clock)
      BY <1>7 DEF RunFlow
    <2>2. m \in Monitors /\ run[r].clock \in Times
      BY DEF AlertTypeOK, Monitors, RunRecords
    <2>3. sentAt' \in [Monitors -> SUBSET Times] /\ early' \subseteq Monitors
      BY <2>1, <2>2, ActsType
    <2> DEFINE new == [run[r] EXCEPT !.at = "loop", !.flow = {}, !.clock = NextClock(r)]
    <2>4. new \in RunRecords
      BY TimeType DEF AlertTypeOK, RunRecords
    <2>5. run' = [run EXCEPT ![r] = new]
      BY <1>7 DEF RunFlow, AlertTypeOK
    <2>6. run' \in [Runs -> RunRecords]
      BY <2>4, <2>5, RunType
    <2> QED
      BY <1>7, <2>3, <2>6 DEF RunFlow, AlertTypeOK
  <1>8. ASSUME NEW r \in Runs, CommitTick(r)
        PROVE  AlertTypeOK'
    <2>1. run[r].clock \in Times
      BY DEF AlertTypeOK, RunRecords
    <2>2. lastFired' \in [Monitors -> 0..MaxNow]
      BY <1>8, <2>1, RecordedType DEF CommitTick
    <2> DEFINE new == [run[r] EXCEPT !.at = "loop", !.fired = {}, !.clock = NextClock(r)]
    <2>3. new \in RunRecords
      BY TimeType DEF AlertTypeOK, RunRecords
    <2>4. run' = [run EXCEPT ![r] = new]
      BY <1>8 DEF CommitTick, AlertTypeOK
    <2>5. run' \in [Runs -> RunRecords]
      BY <2>3, <2>4, RunType
    <2> QED
      BY <1>8, <2>2, <2>5 DEF CommitTick, AlertTypeOK, alertGhosts
  <1>9. ASSUME NEW r \in Runs, RunEnds(r)
        PROVE  AlertTypeOK'
    <2>1. run[r].clock \in Times
      BY DEF AlertTypeOK, RunRecords
    <2>2. lastFired' \in [Monitors -> 0..MaxNow]
      BY <1>9, <2>1, RecordedType DEF RunEnds
    <2>3. run' \in [Runs -> RunRecords]
      BY <1>9, DoneType, RunType DEF RunEnds
    <2> QED
      BY <1>9, <2>2, <2>3 DEF RunEnds, AlertTypeOK, alertGhosts
  <1>10. ASSUME NEW r \in Runs, Breaks(r)
         PROVE  AlertTypeOK'
    <2>1. run' \in [Runs -> RunRecords]
      BY <1>10, DoneType, RunType DEF Breaks
    <2> QED
      BY <1>10, <2>1 DEF Breaks, AlertTypeOK, alertGhosts
  <1> QED
    BY <1>1, <1>2, <1>3, <1>4, <1>5, <1>6, <1>7, <1>8, <1>9, <1>10 DEF AlertNext

\* The first state has them.
LEMMA InitType == AlertInit => AlertTypeOK
  <1> SUFFICES ASSUME AlertInit PROVE AlertTypeOK
    OBVIOUS
  <1>1. now \in Times /\ starts \in 0..MaxStarts
    BY AlertAssumption DEF AlertInit, Times
  <1>2. lastFired \in [Monitors -> 0..MaxNow]
    BY AlertAssumption DEF AlertInit
  <1>3. run \in [Runs -> RunRecords]
    BY DoneType DEF AlertInit
  <1> QED
    BY <1>1, <1>2, <1>3 DEF AlertInit, AlertTypeOK

\* Every variable always has the values the code gives it.
THEOREM AlertTypes == AlertSpec => []AlertTypeOK
  BY InitType, TypeStep, PTL DEF AlertSpec

-----------------------------------------------------------------------------
(* What each step does to its run                                          *)

\* Runs other than r are as they were.
Others(r) == \A q \in Runs \ {r} : run'[q] = run[q]

\* A run that starts has fired nothing and has loaded what is there.
LEMMA StartEffect ==
    ASSUME AlertTypeOK, NEW r \in Runs, NEW kind, NEW which \in SUBSET Monitors,
           Start(r, kind, which)
    PROVE  /\ run[r].at = "done" /\ Others(r)
           /\ run'[r].at = "loop" /\ run'[r].fired = {} /\ run'[r].flow = {}
           /\ run'[r].left = which
           /\ \A m \in which : run'[r].loaded[m] = lastFired[m]
           /\ overlapped' = (overlapped \/ \E q \in Runs : run[q].at # "done")
           /\ UNCHANGED <<lastFired, sentAt, early, broken>>
  <1> DEFINE loaded == [m \in Monitors |-> IF m \in which THEN lastFired[m] ELSE 0]
             clock == IF kind = "event" THEN now ELSE 1
             new == [Done EXCEPT !.at = "loop", !.kind = kind, !.left = which,
                       !.clock = clock, !.loaded = loaded]
  <1>1. run' = [run EXCEPT ![r] = new]
    BY DEF Start
  <1>2. \A m \in which : loaded[m] = lastFired[m]
    OBVIOUS
  <1> HIDE DEF loaded, clock
  <1>3. /\ new.at = "loop" /\ new.fired = {} /\ new.flow = {}
        /\ new.left = which /\ new.loaded = loaded
    BY DEF Done
  <1> HIDE DEF new
  <1>4. run'[r] = new /\ Others(r)
    BY <1>1 DEF AlertTypeOK, Others
  <1> QED
    BY <1>2, <1>3, <1>4 DEF Start, alertGhosts

\* What going past a monitor leaves of the run.
LEMMA PastEffect ==
    ASSUME AlertTypeOK, NEW r \in Runs, NEW m \in Monitors
    PROVE  /\ Past(r, m).left = run[r].left \ {m}
           /\ \A x \in Monitors \ {m} : Past(r, m).loaded[x] = run[r].loaded[x]
           /\ Past(r, m).at = run[r].at /\ Past(r, m).kind = run[r].kind
           /\ Past(r, m).clock = run[r].clock
           /\ Past(r, m).fired = run[r].fired /\ Past(r, m).flow = run[r].flow
  BY DEF Past, AlertTypeOK, RunRecords

\* Passing a monitor over touches nothing else.
LEMMA PassEffect ==
    ASSUME AlertTypeOK, NEW r \in Runs, NEW m \in Monitors, Pass(r, m)
    PROVE  /\ Others(r)
           /\ run'[r].left = run[r].left \ {m}
           /\ \A x \in Monitors \ {m} : run'[r].loaded[x] = run[r].loaded[x]
           /\ run'[r].at = run[r].at /\ run'[r].kind = run[r].kind
           /\ run'[r].clock = run[r].clock
           /\ run'[r].fired = run[r].fired /\ run'[r].flow = run[r].flow
           /\ UNCHANGED <<lastFired, sentAt, early, overlapped, broken>>
  <1>1. run'[r] = Past(r, m) /\ Others(r)
    BY DEF Pass, AlertTypeOK, Others
  <1> QED
    BY <1>1, PastEffect DEF Pass, alertGhosts

\* Firing a monitor with channels.
LEMMA FireChannelsEffect ==
    ASSUME AlertTypeOK, NEW r \in Runs, NEW m \in Monitors, FireChannels(r, m)
    PROVE  /\ m \in run[r].left \cap Channels /\ run[r].at = "loop" /\ Others(r)
           /\ ShouldNotify(run[r].loaded[m], TimeOf(r))
           /\ run'[r].left = run[r].left \ {m}
           /\ \A x \in Monitors \ {m} : run'[r].loaded[x] = run[r].loaded[x]
           /\ run'[r].at = IF run[r].kind = "tick" THEN "commit" ELSE "loop"
           /\ run'[r].kind = run[r].kind /\ run'[r].clock = TimeOf(r)
           /\ run'[r].fired = run[r].fired \cup {m} /\ run'[r].flow = run[r].flow
           /\ Acts(m, TimeOf(r))
           /\ UNCHANGED <<lastFired, overlapped, broken>>
  <1> DEFINE new == [Past(r, m) EXCEPT !.clock = TimeOf(r), !.fired = @ \cup {m},
                      !.at = IF run[r].kind = "tick" THEN "commit" ELSE "loop"]
  <1>1. run'[r] = new /\ Others(r)
    BY DEF FireChannels, AlertTypeOK, Others
  <1>2. Past(r, m) \in RunRecords
    BY PastType
  <1>3. /\ new.clock = TimeOf(r) /\ new.fired = Past(r, m).fired \cup {m}
        /\ new.at = IF run[r].kind = "tick" THEN "commit" ELSE "loop"
        /\ new.left = Past(r, m).left /\ new.loaded = Past(r, m).loaded
        /\ new.kind = Past(r, m).kind /\ new.flow = Past(r, m).flow
    BY <1>2 DEF RunRecords
  <1> HIDE DEF new
  <1> QED
    BY <1>1, <1>3, PastEffect DEF FireChannels

\* Firing a monitor with a flow.
LEMMA FireFlowEffect ==
    ASSUME AlertTypeOK, NEW r \in Runs, NEW m \in Monitors, FireFlow(r, m)
    PROVE  /\ m \in run[r].left \cap Flows /\ run[r].at = "loop" /\ Others(r)
           /\ ShouldNotify(run[r].loaded[m], TimeOf(r))
           /\ run'[r].left = run[r].left \ {m}
           /\ \A x \in Monitors \ {m} : run'[r].loaded[x] = run[r].loaded[x]
           /\ run'[r].at = "flow" /\ run'[r].clock = TimeOf(r)
           /\ run'[r].fired = {} /\ run'[r].flow = {m}
           /\ Recorded(run[r].fired \cup {m}, TimeOf(r))
           /\ UNCHANGED <<sentAt, early, overlapped, broken>>
  <1> DEFINE new == [Past(r, m) EXCEPT !.clock = TimeOf(r), !.fired = {},
                      !.at = "flow", !.flow = {m}]
  <1>1. run'[r] = new /\ Others(r)
    BY DEF FireFlow, AlertTypeOK, Others
  <1>2. Past(r, m) \in RunRecords
    BY PastType
  <1>3. /\ new.clock = TimeOf(r) /\ new.fired = {} /\ new.at = "flow" /\ new.flow = {m}
        /\ new.left = Past(r, m).left /\ new.loaded = Past(r, m).loaded
    BY <1>2 DEF RunRecords
  <1> HIDE DEF new
  <1> QED
    BY <1>1, <1>3, PastEffect DEF FireFlow, alertGhosts

\* Running the flow.
LEMMA RunFlowEffect ==
    ASSUME AlertTypeOK, NEW r \in Runs, RunFlow(r)
    PROVE  /\ run[r].at = "flow" /\ Others(r)
           /\ run'[r].at = "loop" /\ run'[r].flow = {} /\ run'[r].kind = run[r].kind
           /\ run'[r].left = run[r].left /\ run'[r].loaded = run[r].loaded
           /\ run'[r].fired = run[r].fired
           /\ run[r].kind # "tick" => run'[r].clock = run[r].clock
           /\ UNCHANGED <<lastFired, overlapped, broken>>
  BY DEF RunFlow, AlertTypeOK, RunRecords, Others, NextClock

\* A tick's commit.
LEMMA CommitTickEffect ==
    ASSUME AlertTypeOK, NEW r \in Runs, CommitTick(r)
    PROVE  /\ run[r].at = "commit" /\ Others(r)
           /\ run'[r].at = "loop" /\ run'[r].fired = {} /\ run'[r].flow = run[r].flow
           /\ run'[r].left = run[r].left /\ run'[r].loaded = run[r].loaded
           /\ Recorded(run[r].fired, run[r].clock)
           /\ UNCHANGED <<sentAt, early, overlapped, broken>>
  BY DEF CommitTick, AlertTypeOK, RunRecords, Others, alertGhosts

\* A run that ends or breaks rests.
LEMMA RestEffect ==
    ASSUME AlertTypeOK, NEW r \in Runs, RunEnds(r) \/ Breaks(r)
    PROVE  /\ Others(r) /\ run'[r].at = "done" /\ run'[r].left = {}
           /\ run'[r].fired = {} /\ run'[r].flow = {}
           /\ UNCHANGED <<sentAt, early, overlapped>>
  <1>1. run'[r] = Done /\ Others(r)
    BY DEF RunEnds, Breaks, AlertTypeOK, Others
  <1>2. Done.at = "done" /\ Done.left = {} /\ Done.fired = {} /\ Done.flow = {}
    BY DEF Done
  <1> QED
    BY <1>1, <1>2 DEF RunEnds, Breaks, alertGhosts

-----------------------------------------------------------------------------
(* A firing that is recorded has been acted on                             *)

\* Where a run may have fired and not committed, or be about to run a flow.
RunShape ==
    \A r \in Runs :
        /\ run[r].at # "flow" => run[r].flow = {}
        /\ run[r].at = "flow" => \E m \in Flows : run[r].flow = {m}
        /\ run[r].fired \subseteq Channels
        /\ run[r].at = "done" => run[r].left = {} /\ run[r].fired = {}
        /\ run[r].kind = "tick" /\ run[r].at # "commit" => run[r].fired = {}
        /\ run[r].kind # "tick" => run[r].at # "commit"

\* What a run has fired and not committed, it has done.
FiredActed == \A r \in Runs : \A m \in run[r].fired : run[r].clock \in sentAt[m]

\* The record of a flow names the run that is about to act.
RecordActed ==
    \A m \in Monitors : lastFired[m] # 0 =>
        \/ lastFired[m] \in sentAt[m]
        \/ /\ m \in Flows
           /\ broken \/ \E r \in Runs : m \in run[r].flow /\ run[r].clock = lastFired[m]

ActedInv == RunShape /\ FiredActed /\ RecordActed

\* A time that has been acted under stays one.
LEMMA ActsKeeps ==
    ASSUME AlertTypeOK, NEW m \in Monitors, NEW t \in Times, Acts(m, t)
    PROVE  /\ t \in sentAt'[m]
           /\ \A x \in Monitors : sentAt[x] \subseteq sentAt'[x]
           /\ \A x \in Monitors \ {m} : sentAt'[x] = sentAt[x]
           /\ sentAt'[m] = sentAt[m] \cup {t}
  BY DEF Acts, AlertTypeOK

\* Recording changes the firings that are recorded, and no other.
LEMMA RecordedEffect ==
    ASSUME AlertTypeOK, NEW fired, NEW t, Recorded(fired, t)
    PROVE  \A x \in Monitors : lastFired'[x] = IF x \in fired THEN t ELSE lastFired[x]
  BY DEF Recorded

\* Every step keeps it.
LEMMA ActedStep ==
    ASSUME AlertTypeOK, AlertTypeOK', ActedInv, [AlertNext]_alertVars
    PROVE  ActedInv'
  <1> USE DEF ActedInv
  <1>1. CASE UNCHANGED alertVars
    BY <1>1 DEF alertVars, RunShape, FiredActed, RecordActed
  <1>2. CASE TimePasses
    BY <1>2 DEF TimePasses, alertGhosts, RunShape, FiredActed, RecordActed
  <1>3. ASSUME NEW r \in Runs, NEW kind, NEW which \in SUBSET Monitors, Start(r, kind, which)
        PROVE  ActedInv'
    <2>1. RunShape'
      BY <1>3, StartEffect DEF RunShape, Others
    <2>2. FiredActed'
      BY <1>3, StartEffect DEF FiredActed, Others
    <2>3. RecordActed'
      BY <1>3, StartEffect DEF RecordActed, RunShape, Others
    <2> QED
      BY <2>1, <2>2, <2>3
  <1>4. ASSUME NEW r \in Runs, NEW m \in Monitors, Pass(r, m)
        PROVE  ActedInv'
    <2>1. run[r].at = "loop"
      BY <1>4 DEF Pass
    <2>2. RunShape'
      BY <1>4, <2>1, PassEffect DEF RunShape, Others
    <2>3. FiredActed'
      BY <1>4, PassEffect DEF FiredActed, Others
    <2>4. RecordActed'
      BY <1>4, <2>1, PassEffect DEF RecordActed, RunShape, Others
    <2> QED
      BY <2>2, <2>3, <2>4
  <1>5. ASSUME NEW r \in Runs, NEW m \in Monitors, FireChannels(r, m)
        PROVE  ActedInv'
    <2>1. TimeOf(r) \in Times /\ run[r].fired \subseteq Monitors
      BY TimeType DEF AlertTypeOK, RunRecords
    <2>2. run[r].fired # {} => TimeOf(r) = run[r].clock
      BY <1>5, FireChannelsEffect DEF RunShape, TimeOf
    <2>3. RunShape'
      BY <1>5, FireChannelsEffect DEF RunShape, Others
    <2>4. /\ TimeOf(r) \in sentAt'[m]
          /\ \A x \in Monitors : sentAt[x] \subseteq sentAt'[x]
      BY <1>5, <2>1, FireChannelsEffect, ActsKeeps
    <2>5. FiredActed'
      <3>1. ASSUME NEW q \in Runs \ {r}, NEW x \in run'[q].fired
            PROVE  run'[q].clock \in sentAt'[x]
        BY <1>5, <2>4, <3>1, FireChannelsEffect DEF FiredActed, Others, AlertTypeOK, RunRecords
      <3>2. ASSUME NEW x \in run'[r].fired
            PROVE  run'[r].clock \in sentAt'[x]
        BY <1>5, <2>1, <2>2, <2>4, <3>2, FireChannelsEffect DEF FiredActed
      <3> QED
        BY <3>1, <3>2 DEF FiredActed
    <2>6. RecordActed'
      BY <1>5, <2>4, FireChannelsEffect DEF RecordActed, RunShape, Others
    <2> QED
      BY <2>3, <2>5, <2>6
  <1>6. ASSUME NEW r \in Runs, NEW m \in Monitors, FireFlow(r, m)
        PROVE  ActedInv'
    <2>1. /\ m \in Flows /\ run[r].at = "loop" /\ Others(r)
          /\ run'[r].at = "flow" /\ run'[r].clock = TimeOf(r)
          /\ run'[r].fired = {} /\ run'[r].flow = {m}
          /\ UNCHANGED <<sentAt, broken>>
      BY <1>6, FireFlowEffect
    <2>2. run[r].fired # {} => TimeOf(r) = run[r].clock
      BY <2>1 DEF RunShape, TimeOf
    <2>3. Recorded(run[r].fired \cup {m}, TimeOf(r))
      BY <1>6, FireFlowEffect
    <2>4. \A x \in Monitors : lastFired'[x] =
             IF x \in run[r].fired \cup {m} THEN TimeOf(r) ELSE lastFired[x]
      BY <2>3 DEF Recorded
    <2>5. RunShape'
      BY <2>1 DEF RunShape, Others
    <2>6. FiredActed'
      BY <2>1 DEF FiredActed, Others
    <2>7. RecordActed'
      <3>1. ASSUME NEW x \in Monitors \ (run[r].fired \cup {m}), lastFired'[x] # 0
            PROVE  \/ lastFired'[x] \in sentAt'[x]
                   \/ /\ x \in Flows
                      /\ \/ broken'
                         \/ \E q \in Runs : x \in run'[q].flow /\ run'[q].clock = lastFired'[x]
        <4>1. ~(x \in run[r].flow)
          BY <2>1 DEF RunShape
        <4>2. lastFired'[x] = lastFired[x]
          BY <2>4
        <4> QED
          BY <2>1, <3>1, <4>1, <4>2 DEF RecordActed, Others
      <3>2. ASSUME NEW x \in run[r].fired \ {m}
            PROVE  lastFired'[x] \in sentAt'[x]
        <4>1. x \in Monitors
          BY DEF AlertTypeOK, RunRecords
        <4>2. lastFired'[x] = run[r].clock
          BY <2>2, <2>4, <4>1
        <4> QED
          BY <2>1, <4>2 DEF FiredActed
      <3>3. /\ m \in Flows /\ m \in run'[r].flow
            /\ run'[r].clock = lastFired'[m]
        BY <2>1, <2>4
      <3> QED
        BY <3>1, <3>2, <3>3 DEF RecordActed
    <2> QED
      BY <2>5, <2>6, <2>7
  <1>7. ASSUME NEW r \in Runs, RunFlow(r)
        PROVE  ActedInv'
    <2>1. PICK m \in Flows : run[r].flow = {m}
      BY <1>7 DEF RunFlow, RunShape
    <2>2. Acts(m, run[r].clock) /\ m \in Monitors /\ run[r].clock \in Times
      BY <1>7, <2>1 DEF RunFlow, Monitors, AlertTypeOK, RunRecords
    <2>3. /\ run[r].clock \in sentAt'[m]
          /\ \A x \in Monitors : sentAt[x] \subseteq sentAt'[x]
      BY <2>2, ActsKeeps
    <2>4. RunShape'
      BY <1>7, RunFlowEffect DEF RunShape, Others
    <2>5. FiredActed'
      <3>1. ASSUME NEW q \in Runs, NEW x \in run'[q].fired
            PROVE  run'[q].clock \in sentAt'[x]
        <4>1. x \in run[q].fired /\ x \in Monitors
          BY <1>7, <3>1, RunFlowEffect DEF Others, AlertTypeOK, RunRecords
        <4>2. run'[q].clock = run[q].clock
          BY <1>7, <4>1, RunFlowEffect DEF Others, RunShape
        <4> QED
          BY <2>3, <4>1, <4>2 DEF FiredActed
      <3> QED
        BY <3>1 DEF FiredActed
    <2>6. RecordActed'
      BY <1>7, <2>1, <2>2, <2>3, RunFlowEffect DEF RecordActed, Others
    <2> QED
      BY <2>4, <2>5, <2>6
  <1>8. ASSUME NEW r \in Runs, CommitTick(r)
        PROVE  ActedInv'
    <2>1. \A x \in Monitors : lastFired'[x] =
             IF x \in run[r].fired THEN run[r].clock ELSE lastFired[x]
      BY <1>8, CommitTickEffect, RecordedEffect
    <2>2. RunShape'
      BY <1>8, CommitTickEffect DEF RunShape, Others
    <2>3. FiredActed'
      BY <1>8, CommitTickEffect DEF FiredActed, Others
    <2>4. run[r].flow = {}
      BY <1>8, CommitTickEffect DEF RunShape
    <2>5. RecordActed'
      BY <1>8, <2>1, <2>4, CommitTickEffect DEF RecordActed, FiredActed, Others
    <2> QED
      BY <2>2, <2>3, <2>5
  <1>9. ASSUME NEW r \in Runs, RunEnds(r)
        PROVE  ActedInv'
    <2>1. \A x \in Monitors : lastFired'[x] =
             IF x \in run[r].fired THEN run[r].clock ELSE lastFired[x]
      BY <1>9, RecordedEffect DEF RunEnds
    <2>2. broken' = broken /\ run[r].flow = {}
      BY <1>9 DEF RunEnds, RunShape
    <2>3. RunShape'
      BY <1>9, RestEffect, AlertTypeOK' DEF RunShape, Others, Monitors
    <2>4. FiredActed'
      BY <1>9, RestEffect DEF FiredActed, Others
    <2>5. RecordActed'
      BY <1>9, <2>1, <2>2, RestEffect DEF RecordActed, FiredActed, Others
    <2> QED
      BY <2>3, <2>4, <2>5
  <1>10. ASSUME NEW r \in Runs, Breaks(r)
         PROVE  ActedInv'
    <2>1. broken' /\ lastFired' = lastFired
      BY <1>10 DEF Breaks
    <2>2. RunShape'
      BY <1>10, RestEffect DEF RunShape, Others
    <2>3. FiredActed'
      BY <1>10, RestEffect DEF FiredActed, Others
    <2>4. RecordActed'
      BY <1>10, <2>1, RestEffect DEF RecordActed, Monitors
    <2> QED
      BY <2>2, <2>3, <2>4
  <1> QED
    BY <1>1, <1>2, <1>3, <1>4, <1>5, <1>6, <1>7, <1>8, <1>9, <1>10
       DEF AlertNext, EvaluateAll, EvaluateOne, NotifyEvent

\* Nothing has fired, nothing is recorded.
LEMMA ActedInit == AlertInit => ActedInv
  <1> SUFFICES ASSUME AlertInit PROVE ActedInv
    OBVIOUS
  <1>1. \A r \in Runs : run[r] = Done
    BY DEF AlertInit
  <1>2. Done.at = "done" /\ Done.left = {} /\ Done.fired = {} /\ Done.flow = {}
        /\ Done.kind = "tick"
    BY DEF Done
  <1>3. \A m \in Monitors : lastFired[m] = 0
    BY DEF AlertInit
  <1> QED
    BY <1>1, <1>2, <1>3 DEF ActedInv, RunShape, FiredActed, RecordActed

\* What is recorded as fired, and silences its monitor, has been acted on,
\* however runs overlap; a flow excepted whose run is about to act or broke.
THEOREM RecordIsTrue == AlertSpec => []RecordedFiringActed
  <1>1. AlertInit => AlertTypeOK /\ ActedInv
    BY InitType, ActedInit
  <1>2. AlertTypeOK /\ ActedInv /\ [AlertNext]_alertVars => (AlertTypeOK /\ ActedInv)'
    BY TypeStep, ActedStep
  <1>3. ActedInv => RecordedFiringActed
    BY DEF ActedInv, RecordActed, RecordedFiringActed
  <1> QED
    BY <1>1, <1>2, <1>3, PTL DEF AlertSpec

-----------------------------------------------------------------------------
(* No monitor acts twice within its interval                               *)

\* As long as no two runs were at work at once, one is, at most.
OneAtWork ==
    \A q, r \in Runs : run[q].at # "done" /\ run[r].at # "done" => q = r

\* What it has loaded of the monitors to go is what is recorded of them.
LoadedIsCurrent ==
    \A r \in Runs : \A m \in run[r].left :
        run[r].loaded[m] = lastFired[m] /\ m \notin run[r].fired

\* A flow is recorded under a time before it acts under it, an interval after
\* all others it acted under.
FlowsRecordedFirst ==
    /\ \A m \in Flows : \A s \in sentAt[m] : s <= lastFired[m]
    /\ \A r \in Runs : \A m \in run[r].flow :
         run[r].clock = lastFired[m] /\ \A s \in sentAt[m] : s + MinInterval <= lastFired[m]

\* Short of a break, what a monitor with channels did is recorded or will be.
ChannelsRecordedNext ==
    ~broken =>
        /\ early = {}
        /\ \A m \in Channels : \A s \in sentAt[m] :
             s <= lastFired[m] \/ \E r \in Runs : m \in run[r].fired
        /\ \A r \in Runs : \A m \in run[r].fired : \A s \in sentAt[m] : s <= run[r].clock

QuietParts ==
    /\ OneAtWork /\ LoadedIsCurrent /\ FlowsRecordedFirst
    /\ early \cap Flows = {} /\ ChannelsRecordedNext

Quiet == ~overlapped => QuietParts

\* While one run is at work the others rest, and have nothing to do.
LEMMA OthersRest ==
    ASSUME RunShape, OneAtWork, NEW r \in Runs, run[r].at # "done", Others(r)
    PROVE  /\ \A q \in Runs \ {r} : /\ run'[q] = run[q] /\ run[q].at = "done"
                                    /\ run[q].left = {} /\ run[q].fired = {}
                                    /\ run[q].flow = {}
           /\ OneAtWork'
  <1>1. \A q \in Runs \ {r} : run'[q] = run[q] /\ run[q].at = "done"
    BY DEF OneAtWork, Others
  <1>2. \A q \in Runs \ {r} : /\ run[q].left = {} /\ run[q].fired = {}
                              /\ run[q].flow = {}
    BY <1>1 DEF RunShape
  <1>3. OneAtWork'
    BY <1>1 DEF OneAtWork
  <1> QED
    BY <1>1, <1>2, <1>3

\* A monitor that may act under a time does so an interval after every time that
\* is not later than the one that was recorded.
LEMMA NotEarly ==
    ASSUME AlertTypeOK, NEW m \in Monitors, NEW t \in Times,
           ShouldNotify(lastFired[m], t),
           \A s \in sentAt[m] : s <= lastFired[m]
    PROVE  \A s \in sentAt[m] : s + MinInterval <= t
  <1>1. lastFired[m] \in Nat /\ t \in Nat /\ MinInterval \in Nat
        /\ \A s \in sentAt[m] : s \in Nat /\ s >= 1
    BY AlertAssumption DEF AlertTypeOK, Times
  <1> QED
    BY <1>1 DEF ShouldNotify

\* The steps of a run that is at work, one by one.
LEMMA QuietWork ==
    ASSUME AlertTypeOK, AlertTypeOK', ActedInv, QuietParts, NEW r \in Runs,
           \/ \E m \in Monitors : Pass(r, m) \/ FireChannels(r, m) \/ FireFlow(r, m)
           \/ RunFlow(r) \/ CommitTick(r) \/ RunEnds(r) \/ Breaks(r)
    PROVE  QuietParts'
  <1>1. /\ RunShape /\ OneAtWork /\ LoadedIsCurrent /\ FlowsRecordedFirst
        /\ early \cap Flows = {} /\ ChannelsRecordedNext
    BY DEF QuietParts, ActedInv
  <1>2. run[r].at # "done"
    BY DEF Pass, FireChannels, FireFlow, RunFlow, CommitTick, RunEnds, Breaks
  <1>3. /\ lastFired \in [Monitors -> 0..MaxNow] /\ run[r].fired \subseteq Channels
        /\ run[r].left \subseteq Monitors
        /\ Channels \subseteq Monitors /\ Flows \subseteq Monitors
        /\ Channels \cap Flows = {}
    BY <1>1, AlertAssumption DEF AlertTypeOK, RunRecords, RunShape, Monitors
  <1>4. ASSUME NEW m \in Monitors, Pass(r, m)
        PROVE  QuietParts'
    <2>1. /\ Others(r) /\ run'[r].left = run[r].left \ {m}
          /\ \A x \in Monitors \ {m} : run'[r].loaded[x] = run[r].loaded[x]
          /\ run'[r].clock = run[r].clock
          /\ run'[r].fired = run[r].fired /\ run'[r].flow = run[r].flow
          /\ UNCHANGED <<lastFired, sentAt, early, overlapped, broken>>
      BY <1>4, PassEffect
    <2>2. /\ OneAtWork'
          /\ \A q \in Runs \ {r} : run'[q] = run[q]
      BY <1>1, <1>2, <2>1, OthersRest
    <2>3. LoadedIsCurrent'
      BY <1>1, <1>3, <2>1, <2>2 DEF LoadedIsCurrent
    <2>4. FlowsRecordedFirst'
      BY <1>1, <2>1, <2>2 DEF FlowsRecordedFirst
    <2>5. ChannelsRecordedNext'
      BY <1>1, <2>1, <2>2 DEF ChannelsRecordedNext
    <2> QED
      BY <1>1, <2>1, <2>2, <2>3, <2>4, <2>5 DEF QuietParts
  <1>5. ASSUME NEW m \in Monitors, FireChannels(r, m)
        PROVE  QuietParts'
    <2>1. PICK t : t = TimeOf(r)
      OBVIOUS
    <2>2. /\ m \in run[r].left /\ m \in Channels /\ run[r].at = "loop" /\ Others(r)
          /\ ShouldNotify(run[r].loaded[m], t)
          /\ run'[r].left = run[r].left \ {m}
          /\ \A x \in Monitors \ {m} : run'[r].loaded[x] = run[r].loaded[x]
          /\ run'[r].clock = t
          /\ run'[r].fired = run[r].fired \cup {m} /\ run'[r].flow = run[r].flow
          /\ Acts(m, t)
          /\ UNCHANGED <<lastFired, overlapped, broken>>
      BY <1>5, <2>1, FireChannelsEffect
    <2>3. t \in Times /\ run[r].flow = {}
      BY <1>1, <2>1, <2>2, TimeType DEF RunShape
    <2>4. /\ OneAtWork'
          /\ \A q \in Runs \ {r} : /\ run'[q] = run[q] /\ run[q].fired = {}
                                   /\ run[q].flow = {} /\ run[q].left = {}
      BY <1>1, <1>2, <2>2, OthersRest
    <2>5. LoadedIsCurrent'
      BY <1>1, <1>3, <2>2, <2>4 DEF LoadedIsCurrent
    <2>6. /\ sentAt'[m] = sentAt[m] \cup {t}
          /\ \A x \in Monitors \ {m} : sentAt'[x] = sentAt[x]
      BY <2>2, <2>3, ActsKeeps
    <2>7. FlowsRecordedFirst'
      BY <1>1, <1>3, <2>2, <2>3, <2>4, <2>6 DEF FlowsRecordedFirst
    <2>8. early' \cap Flows = {}
      BY <1>1, <1>3, <2>2 DEF Acts
    <2>9. ASSUME ~broken
          PROVE  /\ \A s \in sentAt[m] : s + MinInterval <= t
                 /\ run[r].fired # {} => t = run[r].clock
      <3>1. run[r].loaded[m] = lastFired[m] /\ m \notin run[r].fired
        BY <1>1, <2>2 DEF LoadedIsCurrent
      <3>2. \A q \in Runs : m \notin run[q].fired
        BY <2>4, <3>1
      <3>3. \A s \in sentAt[m] : s <= lastFired[m]
        BY <1>1, <2>2, <2>9, <3>2 DEF ChannelsRecordedNext
      <3>4. run[r].fired # {} => t = run[r].clock
        BY <1>1, <2>1, <2>2 DEF RunShape, TimeOf
      <3> QED
        BY <2>2, <2>3, <3>1, <3>3, <3>4, NotEarly
    <2>10. ChannelsRecordedNext'
      <3> SUFFICES ASSUME ~broken'
                   PROVE  /\ early' = {}
                          /\ \A x \in Channels : \A s \in sentAt'[x] :
                               s <= lastFired'[x] \/ \E q \in Runs : x \in run'[q].fired
                          /\ \A q \in Runs : \A x \in run'[q].fired :
                               \A s \in sentAt'[x] : s <= run'[q].clock
        BY DEF ChannelsRecordedNext
      <3>1. ~broken
        BY <2>2
      <3>2. t \in Nat /\ MinInterval \in Nat /\ \A s \in sentAt[m] : s \in Nat
        BY <2>3, AlertAssumption DEF AlertTypeOK, Times
      <3>3. early' = {}
        <4>1. \A s \in sentAt[m] : ~(t < s + MinInterval)
          BY <2>9, <3>1, <3>2
        <4> QED
          BY <1>1, <2>2, <3>1, <4>1 DEF Acts, ChannelsRecordedNext
      <3>4. \A x \in Channels : \A s \in sentAt'[x] :
               s <= lastFired'[x] \/ \E q \in Runs : x \in run'[q].fired
        <4>1. m \in run'[r].fired
          BY <2>2
        <4>2. \A x \in Channels \ {m} : sentAt'[x] = sentAt[x]
          BY <1>3, <2>6
        <4>3. \A q \in Runs : run[q].fired \subseteq run'[q].fired
          BY <2>2, <2>4
        <4> QED
          BY <1>1, <2>2, <3>1, <4>1, <4>2, <4>3 DEF ChannelsRecordedNext
      <3>5. \A s \in sentAt'[m] : s <= t
        BY <2>6, <2>9, <3>1, <3>2
      <3>6. \A x \in run[r].fired \ {m} : \A s \in sentAt'[x] : s <= t
        BY <1>1, <1>3, <2>6, <2>9, <3>1 DEF ChannelsRecordedNext
      <3> QED
        BY <2>2, <2>4, <3>3, <3>4, <3>5, <3>6
    <2> QED
      BY <2>4, <2>5, <2>7, <2>8, <2>10 DEF QuietParts
  <1>6. ASSUME NEW m \in Monitors, FireFlow(r, m)
        PROVE  QuietParts'
    <2>1. PICK t : t = TimeOf(r)
      OBVIOUS
    <2>2. /\ m \in run[r].left /\ m \in Flows /\ run[r].at = "loop" /\ Others(r)
          /\ ShouldNotify(run[r].loaded[m], t)
          /\ run'[r].left = run[r].left \ {m}
          /\ \A x \in Monitors \ {m} : run'[r].loaded[x] = run[r].loaded[x]
          /\ run'[r].clock = t /\ run'[r].fired = {} /\ run'[r].flow = {m}
          /\ Recorded(run[r].fired \cup {m}, t)
          /\ UNCHANGED <<sentAt, early, overlapped, broken>>
      BY <1>6, <2>1, FireFlowEffect
    <2>3. t \in Times /\ (run[r].fired # {} => t = run[r].clock)
      BY <1>1, <2>1, <2>2, TimeType DEF RunShape, TimeOf
    <2>4. /\ OneAtWork'
          /\ \A q \in Runs \ {r} : /\ run'[q] = run[q] /\ run[q].fired = {}
                                   /\ run[q].flow = {} /\ run[q].left = {}
      BY <1>1, <1>2, <2>2, OthersRest
    <2>5. \A x \in Monitors : lastFired'[x] =
             IF x \in run[r].fired \cup {m} THEN t ELSE lastFired[x]
      BY <2>2, RecordedEffect
    <2>6. LoadedIsCurrent'
      BY <1>1, <1>3, <2>2, <2>4, <2>5 DEF LoadedIsCurrent
    <2>7. \A s \in sentAt[m] : s + MinInterval <= t
      BY <1>1, <2>2, <2>3, NotEarly DEF LoadedIsCurrent, FlowsRecordedFirst
    <2>8. \A s \in sentAt[m] : s <= t
      <3>1. t \in Nat /\ MinInterval \in Nat /\ \A s \in sentAt[m] : s \in Nat
        BY <2>3, AlertAssumption DEF AlertTypeOK, Times
      <3> QED
        BY <2>7, <3>1
    <2>9. FlowsRecordedFirst'
      <3>1. \A x \in Flows \ {m} : lastFired'[x] = lastFired[x]
        BY <1>3, <2>5
      <3>2. lastFired'[m] = t
        BY <2>5
      <3>3. \A x \in Flows : \A s \in sentAt'[x] : s <= lastFired'[x]
        BY <1>1, <2>2, <2>8, <3>1, <3>2 DEF FlowsRecordedFirst
      <3> QED
        BY <2>2, <2>4, <2>7, <3>2, <3>3 DEF FlowsRecordedFirst
    <2>10. ChannelsRecordedNext'
      <3> SUFFICES ASSUME ~broken'
                   PROVE  /\ early' = {}
                          /\ \A x \in Channels : \A s \in sentAt'[x] :
                               s <= lastFired'[x] \/ \E q \in Runs : x \in run'[q].fired
                          /\ \A q \in Runs : \A x \in run'[q].fired :
                               \A s \in sentAt'[x] : s <= run'[q].clock
        BY DEF ChannelsRecordedNext
      <3>1. ASSUME NEW x \in Channels, NEW s \in sentAt'[x]
            PROVE  s <= lastFired'[x]
        <4>1. CASE x \in run[r].fired
          BY <1>1, <1>3, <2>2, <2>3, <2>5, <3>1, <4>1 DEF ChannelsRecordedNext
        <4>2. CASE x \notin run[r].fired
          <5>1. lastFired'[x] = lastFired[x] /\ \A q \in Runs : x \notin run[q].fired
            BY <1>3, <2>2, <2>4, <2>5, <4>2
          <5> QED
            BY <1>1, <2>2, <3>1, <5>1 DEF ChannelsRecordedNext
        <4> QED
          BY <4>1, <4>2
      <3>2. \A q \in Runs : run'[q].fired = {}
        BY <2>2, <2>4
      <3> QED
        BY <1>1, <2>2, <3>1, <3>2 DEF ChannelsRecordedNext
    <2> QED
      BY <1>1, <2>2, <2>4, <2>6, <2>9, <2>10 DEF QuietParts
  <1>7. CASE RunFlow(r)
    <2>1. PICK m \in Flows : run[r].flow = {m}
      BY <1>1, <1>7 DEF RunFlow, RunShape
    <2>2. PICK t \in Times : t = run[r].clock
      BY DEF AlertTypeOK, RunRecords
    <2>3. Acts(m, t) /\ m \in Monitors
      BY <1>3, <1>7, <2>1, <2>2 DEF RunFlow
    <2>4. /\ Others(r) /\ run'[r].left = run[r].left /\ run'[r].loaded = run[r].loaded
          /\ run'[r].flow = {} /\ run'[r].fired = run[r].fired
          /\ run[r].at = "flow"
          /\ run[r].kind # "tick" => run'[r].clock = run[r].clock
          /\ UNCHANGED <<lastFired, overlapped, broken>>
      BY <1>7, RunFlowEffect
    <2>5. run[r].fired # {} => run'[r].clock = run[r].clock
      BY <1>1, <2>4 DEF RunShape
    <2>6. /\ OneAtWork'
          /\ \A q \in Runs \ {r} : /\ run'[q] = run[q] /\ run[q].fired = {}
                                   /\ run[q].flow = {} /\ run[q].left = {}
      BY <1>1, <1>2, <2>4, OthersRest
    <2>7. /\ sentAt'[m] = sentAt[m] \cup {t}
          /\ \A x \in Monitors \ {m} : sentAt'[x] = sentAt[x]
      BY <2>3, ActsKeeps
    <2>8. t = lastFired[m] /\ \A s \in sentAt[m] : s + MinInterval <= t
      BY <1>1, <2>1, <2>2 DEF FlowsRecordedFirst
    <2>9. early' = early
      <3>1. t \in Nat /\ MinInterval \in Nat /\ \A s \in sentAt[m] : s \in Nat
        BY <2>3, AlertAssumption DEF AlertTypeOK, Times
      <3>2. \A s \in sentAt[m] : ~(t < s + MinInterval)
        BY <2>8, <3>1
      <3> QED
        BY <2>3, <3>2 DEF Acts
    <2>10. LoadedIsCurrent'
      BY <1>1, <2>4, <2>6 DEF LoadedIsCurrent
    <2>11. FlowsRecordedFirst'
      <3>1. \A q \in Runs : run'[q].flow = {}
        BY <2>4, <2>6
      <3>2. t \in Nat
        BY DEF Times
      <3>3. \A x \in Flows : \A s \in sentAt'[x] : s <= lastFired'[x]
        <4>1. \A s \in sentAt'[m] : s <= lastFired'[m]
          BY <1>1, <2>4, <2>7, <2>8, <3>2 DEF FlowsRecordedFirst
        <4> QED
          BY <1>1, <1>3, <2>4, <2>7, <4>1 DEF FlowsRecordedFirst
      <3> QED
        BY <3>1, <3>3 DEF FlowsRecordedFirst
    <2>12. ChannelsRecordedNext'
      <3>1. \A x \in Channels : sentAt'[x] = sentAt[x]
        BY <1>3, <2>7
      <3>2. \A q \in Runs : /\ run'[q].fired = run[q].fired
                            /\ run[q].fired # {} => run'[q].clock = run[q].clock
        BY <2>4, <2>5, <2>6
      <3>3. \A q \in Runs : run[q].fired \subseteq Channels
        BY <1>1 DEF RunShape
      <3> SUFFICES ASSUME ~broken'
                   PROVE  /\ early' = {}
                          /\ \A x \in Channels : \A s \in sentAt'[x] :
                               s <= lastFired'[x] \/ \E q \in Runs : x \in run'[q].fired
                          /\ \A q \in Runs : \A x \in run'[q].fired :
                               \A s \in sentAt'[x] : s <= run'[q].clock
        BY DEF ChannelsRecordedNext
      <3>4. /\ early = {}
            /\ \A x \in Channels : \A s \in sentAt[x] :
                 s <= lastFired[x] \/ \E q \in Runs : x \in run[q].fired
            /\ \A q \in Runs : \A x \in run[q].fired : \A s \in sentAt[x] : s <= run[q].clock
        BY <1>1, <2>4 DEF ChannelsRecordedNext
      <3>5. \A x \in Channels : \A s \in sentAt'[x] :
               s <= lastFired'[x] \/ \E q \in Runs : x \in run'[q].fired
        BY <2>4, <3>1, <3>2, <3>4
      <3>6. ASSUME NEW q \in Runs, NEW x \in run'[q].fired, NEW s \in sentAt'[x]
            PROVE  s <= run'[q].clock
        <4>1. x \in run[q].fired /\ x \in Channels /\ run'[q].clock = run[q].clock
          BY <3>2, <3>3, <3>6
        <4> QED
          BY <3>1, <3>4, <3>6, <4>1
      <3> QED
        BY <2>9, <3>4, <3>5, <3>6
    <2> QED
      BY <1>1, <2>6, <2>9, <2>10, <2>11, <2>12 DEF QuietParts
  <1>8. CASE CommitTick(r) \/ RunEnds(r)
    <2>1. /\ Others(r) /\ run'[r].fired = {} /\ run'[r].flow = {}
          /\ \/ run'[r].left = {}
             \/ run'[r].left = run[r].left /\ run'[r].loaded = run[r].loaded
          /\ Recorded(run[r].fired, run[r].clock)
          /\ UNCHANGED <<sentAt, early, overlapped, broken>>
      <3>1. CASE CommitTick(r)
        BY <1>1, <3>1, CommitTickEffect DEF RunShape
      <3>2. CASE RunEnds(r)
        BY <3>2, RestEffect DEF RunEnds
      <3> QED
        BY <1>8, <3>1, <3>2
    <2>2. /\ OneAtWork'
          /\ \A q \in Runs \ {r} : /\ run'[q] = run[q] /\ run[q].fired = {}
                                   /\ run[q].flow = {} /\ run[q].left = {}
      BY <1>1, <1>2, <2>1, OthersRest
    <2>3. \A x \in Monitors : lastFired'[x] =
             IF x \in run[r].fired THEN run[r].clock ELSE lastFired[x]
      BY <2>1, RecordedEffect
    <2>4. LoadedIsCurrent'
      BY <1>1, <1>3, <2>1, <2>2, <2>3 DEF LoadedIsCurrent
    <2>5. FlowsRecordedFirst'
      <3>1. \A x \in Flows : lastFired'[x] = lastFired[x]
        BY <1>3, <2>3
      <3>2. \A q \in Runs : run'[q].flow = {}
        BY <2>1, <2>2
      <3> QED
        BY <1>1, <2>1, <3>1, <3>2 DEF FlowsRecordedFirst
    <2>6. ChannelsRecordedNext'
      <3> SUFFICES ASSUME ~broken'
                   PROVE  /\ early' = {}
                          /\ \A x \in Channels : \A s \in sentAt'[x] :
                               s <= lastFired'[x] \/ \E q \in Runs : x \in run'[q].fired
                          /\ \A q \in Runs : \A x \in run'[q].fired :
                               \A s \in sentAt'[x] : s <= run'[q].clock
        BY DEF ChannelsRecordedNext
      <3>1. ASSUME NEW x \in Channels, NEW s \in sentAt'[x]
            PROVE  s <= lastFired'[x]
        <4>1. CASE x \in run[r].fired
          BY <1>1, <1>3, <2>1, <2>3, <3>1, <4>1 DEF ChannelsRecordedNext
        <4>2. CASE x \notin run[r].fired
          <5>1. lastFired'[x] = lastFired[x] /\ \A q \in Runs : x \notin run[q].fired
            BY <1>3, <2>2, <2>3, <4>2
          <5> QED
            BY <1>1, <2>1, <3>1, <5>1 DEF ChannelsRecordedNext
        <4> QED
          BY <4>1, <4>2
      <3>2. \A q \in Runs : run'[q].fired = {}
        BY <2>1, <2>2
      <3> QED
        BY <1>1, <2>1, <3>1, <3>2 DEF ChannelsRecordedNext
    <2> QED
      BY <1>1, <2>1, <2>2, <2>4, <2>5, <2>6 DEF QuietParts
  <1>9. CASE Breaks(r)
    <2>1. /\ Others(r) /\ run'[r].left = {} /\ run'[r].fired = {} /\ run'[r].flow = {}
          /\ UNCHANGED <<lastFired, sentAt, early>> /\ broken'
      BY <1>9, RestEffect DEF Breaks
    <2>2. /\ OneAtWork'
          /\ \A q \in Runs \ {r} : /\ run'[q] = run[q] /\ run[q].flow = {}
                                   /\ run[q].left = {}
      BY <1>1, <1>2, <2>1, OthersRest
    <2>3. LoadedIsCurrent' /\ ChannelsRecordedNext'
      BY <2>1, <2>2 DEF LoadedIsCurrent, ChannelsRecordedNext
    <2>4. FlowsRecordedFirst'
      BY <1>1, <2>1, <2>2 DEF FlowsRecordedFirst
    <2> QED
      BY <1>1, <2>1, <2>2, <2>3, <2>4 DEF QuietParts
  <1> QED
    BY <1>4, <1>5, <1>6, <1>7, <1>8, <1>9

\* Every step keeps it.
LEMMA QuietRunsStep ==
    ASSUME AlertTypeOK, AlertTypeOK', ActedInv, Quiet, [AlertNext]_alertVars
    PROVE  Quiet'
  <1>1. CASE UNCHANGED alertVars
    BY <1>1 DEF alertVars, Quiet, QuietParts, OneAtWork, LoadedIsCurrent,
                FlowsRecordedFirst, ChannelsRecordedNext
  <1>2. CASE TimePasses
    BY <1>2 DEF TimePasses, alertGhosts, Quiet, QuietParts, OneAtWork, LoadedIsCurrent,
                FlowsRecordedFirst, ChannelsRecordedNext
  <1>3. ASSUME NEW r \in Runs, NEW kind, NEW which \in SUBSET Monitors, Start(r, kind, which)
        PROVE  Quiet'
    <2> SUFFICES ASSUME ~overlapped'
                 PROVE  QuietParts'
      BY DEF Quiet
    <2>1. /\ Others(r) /\ run[r].at = "done"
          /\ run'[r].fired = {} /\ run'[r].flow = {} /\ run'[r].left = which
          /\ \A m \in which : run'[r].loaded[m] = lastFired[m]
          /\ UNCHANGED <<lastFired, sentAt, early, broken>>
          /\ overlapped' = (overlapped \/ \E q \in Runs : run[q].at # "done")
      BY <1>3, StartEffect
    <2>2. /\ QuietParts /\ \A q \in Runs : run[q].at = "done"
      BY <2>1 DEF Quiet
    <2>3. \A q \in Runs : run[q].fired = {} /\ run[q].left = {} /\ run[q].flow = {}
      BY <2>2 DEF ActedInv, RunShape
    <2>4. \A q \in Runs \ {r} : run'[q] = run[q]
      BY <2>1 DEF Others
    <2>5. OneAtWork'
      BY <2>2, <2>4 DEF OneAtWork
    <2>6. LoadedIsCurrent'
      BY <2>1, <2>3, <2>4 DEF LoadedIsCurrent
    <2>7. \A q \in Runs : run'[q].fired = {} /\ run'[q].flow = {}
      BY <2>1, <2>3, <2>4
    <2>8. FlowsRecordedFirst'
      BY <2>1, <2>2, <2>7 DEF QuietParts, FlowsRecordedFirst
    <2>9. ChannelsRecordedNext'
      BY <2>1, <2>2, <2>3, <2>7 DEF QuietParts, ChannelsRecordedNext
    <2> QED
      BY <2>1, <2>2, <2>5, <2>6, <2>8, <2>9 DEF QuietParts
  <1>4. ASSUME NEW r \in Runs,
               \/ \E m \in Monitors : Pass(r, m) \/ FireChannels(r, m) \/ FireFlow(r, m)
               \/ RunFlow(r) \/ CommitTick(r) \/ RunEnds(r) \/ Breaks(r)
        PROVE  Quiet'
    <2>1. overlapped' = overlapped
      BY <1>4 DEF Pass, FireChannels, FireFlow, RunFlow, CommitTick, RunEnds, Breaks
    <2>2. QuietParts => QuietParts'
      BY <1>4, QuietWork
    <2> QED
      BY <2>1, <2>2 DEF Quiet
  <1> QED
    BY <1>1, <1>2, <1>3, <1>4 DEF AlertNext, EvaluateAll, EvaluateOne, NotifyEvent

\* Nothing has acted, nobody is at work.
LEMMA QuietInit == AlertInit => Quiet
  <1> SUFFICES ASSUME AlertInit PROVE QuietParts
    BY DEF Quiet
  <1>1. \A r \in Runs : /\ run[r].at = "done" /\ run[r].left = {}
                        /\ run[r].fired = {} /\ run[r].flow = {}
    BY DEF AlertInit, Done
  <1>2. early = {} /\ \A m \in Monitors : sentAt[m] = {}
    BY DEF AlertInit
  <1> QED
    BY <1>1, <1>2 DEF QuietParts, OneAtWork, LoadedIsCurrent, FlowsRecordedFirst,
                      ChannelsRecordedNext, Monitors

\* No monitor acts twice within its interval, but for runs that overlapped or, if
\* it has channels, that broke between acting and recording (_should_notify).
THEOREM IntervalIsQuiet == AlertSpec => []QuietWithinInterval
  <1>1. AlertInit => AlertTypeOK /\ ActedInv /\ Quiet
    BY InitType, ActedInit, QuietInit
  <1>2. AlertTypeOK /\ ActedInv /\ Quiet /\ [AlertNext]_alertVars
          => (AlertTypeOK /\ ActedInv /\ Quiet)'
    BY TypeStep, ActedStep, QuietRunsStep
  <1>3. Quiet => QuietWithinInterval
    BY DEF Quiet, QuietParts, ChannelsRecordedNext, QuietWithinInterval
  <1> QED
    BY <1>1, <1>2, <1>3, PTL DEF AlertSpec
=============================================================================
