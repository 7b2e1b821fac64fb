---------------------------- MODULE FailureClusters ----------------------------
(***************************************************************************)
(* The failure clusters of one agent (structural_clustering_service.py).   *)
(* Each evaluation that found a failure joins the cluster of its signature *)
(* or creates it, and who creates it raises the one alert for a new        *)
(* failure mode.  Workers evaluate side by side, each in a session with    *)
(* the count it loaded, and users delete clusters meanwhile.               *)
(***************************************************************************)
EXTENDS Naturals, FiniteSets

CONSTANTS
    Failing,       \* the traces that fail
    SignatureOf,   \* [Failing -> cluster key of its failure]
    Alike,         \* pairs of signatures that say the same thing
    Evaluators,    \* evaluations under way at once
    MaxClusters,   \* bound: clusters ever created
    NoTrace        \* no such trace

Keys == {SignatureOf[t] : t \in Failing}

ASSUME ClusterAssumption ==
    /\ SignatureOf \in [Failing -> Keys]
    /\ IsFiniteSet(Failing)
    /\ NoTrace \notin Failing
    /\ MaxClusters \in Nat

VARIABLES
    clusters,   \* ids of the rows of failure_clusters
    created,    \* ids given so far
    key,        \* [id -> its cluster_key]
    size,       \* [id -> failure_clusters.count]
    members,    \* [id -> traces with a row of cluster_members]
    ignored,    \* clusters a user has set to IGNORED
    worker,     \* [Evaluators -> where it is, its trace, cluster, loaded count]
    alerts,     \* [id -> alerts raised for a new failure mode]
    unalerted,  \* clusters whose creator died before its alert
    staleCounts       \* clusters whose count was written from an old one

clusterVars ==
    <<clusters, created, key, size, members, ignored, worker, alerts, unalerted, staleCounts>>

ClusterIds == 1..MaxClusters

\* A cluster id, or 0.
OptionalId == 0..MaxClusters

Free == [at |-> "free", trace |-> NoTrace, id |-> 0, loaded |-> 0, known |-> FALSE]

ClusterTypeOK ==
    /\ created \in 0..MaxClusters
    /\ clusters \subseteq 1..created
    /\ key \in [clusters -> Keys]
    /\ size \in [ClusterIds -> Nat]
    /\ members \in [ClusterIds -> SUBSET Failing]
    /\ ignored \subseteq ClusterIds
    /\ worker \in [Evaluators ->
         [at : {"free", "find", "create", "refind", "member", "commit", "notify"},
          trace : Failing \cup {NoTrace}, id : OptionalId, loaded : Nat, known : BOOLEAN]]
    /\ alerts \in [ClusterIds -> Nat]
    /\ unalerted \subseteq ClusterIds /\ staleCounts \subseteq ClusterIds

ClusterInit ==
    /\ clusters = {} /\ created = 0
    /\ key = [i \in {} |-> 0]
    /\ size = [i \in ClusterIds |-> 0]
    /\ members = [i \in ClusterIds |-> {}]
    /\ ignored = {}
    /\ worker = [w \in Evaluators |-> Free]
    /\ alerts = [i \in ClusterIds |-> 0]
    /\ unalerted = {} /\ staleCounts = {}

table == <<clusters, created, key, size, members, ignored>>
clusterGhosts == <<alerts, unalerted, staleCounts>>

KeyOf(w) == SignatureOf[worker[w].trace]

-----------------------------------------------------------------------------
\* cluster_failure, for a trace that failed: for the first time or again.
BeginClustering(w, t) ==
    /\ worker[w].at = "free"
    /\ worker' = [worker EXCEPT ![w].at = "find", ![w].trace = t]
    /\ UNCHANGED <<table, clusterGhosts>>

\* The row and its count, as the session keeps them.
JoinsCluster(w, i) ==
    worker' = [worker EXCEPT ![w].at = "member", ![w].id = i, ![w].loaded = size[i]]

\* _find_existing
Existing(k) == {i \in clusters : key[i] = k}

\* _find_similar: any cluster that is not ignored and says the same.
SimilarTo(k) == {i \in clusters \ ignored : <<k, key[i]>> \in Alike}

Find(w) ==
    LET k == KeyOf(w)
    IN /\ worker[w].at = "find"
       /\ IF Existing(k) # {} THEN \E i \in Existing(k) : JoinsCluster(w, i)
          ELSE IF SimilarTo(k) # {} THEN \E i \in SimilarTo(k) : JoinsCluster(w, i)
          ELSE worker' = [worker EXCEPT ![w].at = "create"]
       /\ UNCHANGED <<table, clusterGhosts>>

\* _create, the first member and the commit; or another worker's insert has won
\* the unique key, and this one rolls back.
Create(w) ==
    /\ worker[w].at = "create"
    /\ \/ /\ Existing(KeyOf(w)) # {}
          /\ worker' = [worker EXCEPT ![w].at = "refind"]
          /\ UNCHANGED table
       \/ /\ Existing(KeyOf(w)) = {}
          /\ created < MaxClusters
          /\ created' = created + 1
          /\ clusters' = clusters \cup {created'}
          /\ key' = [i \in clusters' |-> IF i = created' THEN KeyOf(w) ELSE key[i]]
          /\ size' = [size EXCEPT ![created'] = 1]
          /\ members' = [members EXCEPT ![created'] = {worker[w].trace}]
          /\ worker' = [worker EXCEPT ![w].at = "notify", ![w].id = created']
          /\ UNCHANGED ignored
    /\ UNCHANGED clusterGhosts

\* mutant: the one who lost the race alerts too.
Refind_Notify(w) ==
    /\ worker[w].at = "refind"
    /\ \E i \in Existing(KeyOf(w)) :
         worker' = [worker EXCEPT ![w].at = "notify", ![w].id = i]
    /\ UNCHANGED <<table, clusterGhosts>>

\* The winner's row; when it is gone again the error is raised, and swallowed by
\* the evaluation.
Refind(w) ==
    /\ worker[w].at = "refind"
    /\ \/ \E i \in Existing(KeyOf(w)) : JoinsCluster(w, i)
       \/ Existing(KeyOf(w)) = {} /\ worker' = [worker EXCEPT ![w] = Free]
    /\ UNCHANGED <<table, clusterGhosts>>

\* _record_member: is the trace a member?
ReadMember(w) ==
    /\ worker[w].at = "member"
    /\ worker' = [worker EXCEPT ![w].at = "commit",
                    ![w].known = worker[w].trace \in members[worker[w].id]]
    /\ UNCHANGED <<table, clusterGhosts>>

\* mutant: a trace that fails again is counted again.
Recount(w) == worker[w].loaded + 1

\* cl.count after _record_member.
NewCount(w) == IF worker[w].known THEN size[worker[w].id] ELSE worker[w].loaded + 1

\* The commit.  A cluster deleted since then, and a member another worker has
\* inserted since then, make it fail: nothing is written.
Commit(w) ==
    LET i == worker[w].id
        t == worker[w].trace
        fails == i \notin clusters \/ (~worker[w].known /\ t \in members[i])
    IN /\ worker[w].at = "commit"
       /\ IF fails THEN UNCHANGED <<size, members, staleCounts>>
          ELSE /\ size' = [size EXCEPT ![i] = NewCount(w)]
               /\ members' = [members EXCEPT ![i] = @ \cup {t}]
               /\ staleCounts' = IF ~worker[w].known /\ worker[w].loaded # size[i]
                           THEN staleCounts \cup {i} ELSE staleCounts
       /\ worker' = [worker EXCEPT ![w] = Free]
       /\ UNCHANGED <<clusters, created, key, ignored, alerts, unalerted>>

\* _notify_new_cluster
Notify(w) ==
    /\ worker[w].at = "notify"
    /\ alerts' = [alerts EXCEPT ![worker[w].id] = @ + 1]
    /\ worker' = [worker EXCEPT ![w] = Free]
    /\ UNCHANGED <<table, unalerted, staleCounts>>

\* The worker dies, or the alert fails: what is not committed is gone.
EvaluatorDies(w) ==
    /\ worker[w].at # "free"
    /\ unalerted' = IF worker[w].at = "notify" THEN unalerted \cup {worker[w].id}
                    ELSE unalerted
    /\ worker' = [worker EXCEPT ![w] = Free]
    /\ UNCHANGED <<table, alerts, staleCounts>>

\* clusters_delete, and a user's IGNORED.
Delete(i) ==
    /\ i \in clusters
    /\ clusters' = clusters \ {i}
    /\ key' = [j \in clusters' |-> key[j]]
    /\ size' = [size EXCEPT ![i] = 0]
    /\ members' = [members EXCEPT ![i] = {}]
    /\ UNCHANGED <<created, ignored, worker, clusterGhosts>>

Ignore(i) ==
    /\ i \in clusters \ ignored
    /\ ignored' = ignored \cup {i}
    /\ UNCHANGED <<clusters, created, key, size, members, worker, clusterGhosts>>

ClusterNext ==
    \/ \E w \in Evaluators :
         \/ \E t \in Failing : BeginClustering(w, t)
         \/ Find(w) \/ Create(w) \/ Refind(w) \/ ReadMember(w) \/ Commit(w)
         \/ Notify(w) \/ EvaluatorDies(w)
    \/ \E i \in ClusterIds : Delete(i) \/ Ignore(i)

ClusterSpec == ClusterInit /\ [][ClusterNext]_clusterVars

-----------------------------------------------------------------------------
\* However many workers join a cluster with an old count, and however often a
\* trace fails, a cluster never claims more traces than it has; and it claims
\* all of them as long as no worker wrote from a count that had moved on.
CountFollowsMembers ==
    \A i \in clusters :
        /\ size[i] <= Cardinality(members[i])
        /\ i \notin staleCounts => size[i] = Cardinality(members[i])

\* A new failure mode is alerted once: by no second worker of the race for it,
\* and not at all only if its creator died first.
OneAlertPerCluster ==
    \A i \in 1..created :
        /\ alerts[i] <= 1
        /\ alerts[i] = 0 => i \in unalerted
             \/ \E w \in Evaluators : worker[w].at = "notify" /\ worker[w].id = i
=============================================================================
