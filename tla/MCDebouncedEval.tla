--------------------------- MODULE MCDebouncedEval ---------------------------
(* Instances of DebouncedEval for TLC.                                     *)
EXTENDS DebouncedEval, TLC

CONSTANTS b1, b2, t1, t2

\* The second batch brings the rest of the first trace and a second one.
Overlapping == [b \in Batches |-> IF b = b1 THEN {t1} ELSE {t1, t2}]

OneTrace == [b \in Batches |-> {t1}]

\* Each batch is a turn of its own.
TwoTurns == [b \in Batches |-> IF b = b1 THEN {t1} ELSE {t2}]

\* Every trace needs the thread pass, whatever has been read of it.
EveryTrace == [t \in Traces |-> (SUBSET Batches) \ {{}}]

\* The first trace needs it only as long as the second batch, which names
\* another environment, is not read; the second trace always does.
AsRead == [t \in Traces |-> IF t = t1 THEN {{b1}} ELSE {{b2}}]

\* The first trace needs it only once the second batch is read.
OnceWhole == [t \in Traces |-> IF t = t1 THEN {{b2}, {b1, b2}} ELSE {}]

NoFaults == {}
UnscheduledOnly == {"unscheduled"}
EveryFault == FaultKinds

Interchangeable == Permutations(Slots)
=============================================================================
