-------------------------- MODULE MCInterleavedPass --------------------------
(***************************************************************************)
(* Two passes of one thread interleaved because a lock wait timed out, and *)
(* what is left after the next pass that has the thread to itself.         *)
(***************************************************************************)
EXTENDS MCSequentialPass

VARIABLE solo    \* [Passes -> BOOLEAN]: no other pass ran since this one began

InitSolo == Init /\ solo = [p \in Passes |-> FALSE]

\* A pass that begins alone is solo until another begins.
NextSolo ==
    /\ Next
    /\ solo' = [p \in Passes |->
            /\ pc'[p] # "idle"
            /\ \A q \in Passes \ {p} : pc'[q] = "idle"
            /\ pc[p] = "idle" \/ solo[p]]

SpecSolo == InitSolo /\ [][NextSolo]_<<vars, solo>>

\* thread_lock.py: an interleave is something "the chain-progress prefix check
\* turns into a rebuild on the next pass rather than lasting corruption": once
\* an automatic pass that ran alone is over, no conversation repeats a turn.
InterleaveHealedByNextPass ==
    \A p \in Passes :
        solo[p] /\ auto[p] /\ At(p, "release") =>
            \A m \in RunLevel : Repeats(chat[m]) = 0
=============================================================================
