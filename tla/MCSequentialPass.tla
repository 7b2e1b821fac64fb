-------------------------- MODULE MCSequentialPass --------------------------
(***************************************************************************)
(* Instances of SequentialPass for TLC.                                    *)
(***************************************************************************)
EXTENDS SequentialPass, TLC

CONSTANTS t1, t2, t3, relevance, faithful

SampleAll == [m \in Metrics |-> Turns]

\* relevance leaves t1 out of its automatic passes.
SampleSome == [m \in Metrics |-> IF m = relevance THEN Turns \ {t1} ELSE Turns]

NoFaults == {}
TimeoutOnly == {"lock_timeout"}
CrashOnly == {"crash"}
EveryFault == FaultKinds

\* Slots and turns are interchangeable when every turn is sampled.
Symmetric == Permutations(Passes) \cup Permutations(Turns)
=============================================================================
