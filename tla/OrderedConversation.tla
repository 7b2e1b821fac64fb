------------------------- MODULE OrderedConversation -------------------------
(***************************************************************************)
(* What checkpointer.py promises of the durable judge conversations: each  *)
(* grows one new item at a time, never a second copy of one it holds, or   *)
(* starts over from nothing.                                               *)
(***************************************************************************)
EXTENDS Sequences, SequencesExt

CONSTANTS Judges, Items

VARIABLE transcript    \* [Judges -> Seq(Items)]

Init == transcript = [j \in Judges |-> <<>>]

\* A new item and its verdict.
Grow(j) ==
    \E t \in Items \ ToSet(transcript[j]) :
        transcript' = [transcript EXCEPT ![j] = Append(@, t)]

\* reset_chat.
Restart(j) == transcript' = [transcript EXCEPT ![j] = <<>>]

Next == \E j \in Judges : Grow(j) \/ Restart(j)

Spec == Init /\ [][Next]_transcript
=============================================================================
