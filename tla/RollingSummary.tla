----------------------------- MODULE RollingSummary -----------------------------
(***************************************************************************)
(* The rolling summary of one thread (services/rolling_summary_service.py):*)
(* one row per span, which accumulates what was summarized up to it.       *)
(* After each evaluation a pass reads the spans and the rows once, walks   *)
(* the spans turn by turn, carries what the rows hold forward and adds the *)
(* spans that have none.  Passes and turns overlap, spans arrive late, a   *)
(* user forces a rebuild, a worker dies.                                   *)
(* What a summary says is abstracted to the spans it has taken in.         *)
(***************************************************************************)
EXTENDS Naturals, FiniteSets

CONSTANTS
    Spans,     \* the thread's spans, numbered by their start
    TraceOf,   \* [Spans -> the turn a span belongs to]
    Builders   \* passes under way at once

ASSUME SummaryAssumption == Spans \subseteq Nat /\ IsFiniteSet(Spans)

VARIABLES
    arrived,   \* spans in ClickHouse
    summary,   \* [Spans -> its row: a set of none or one]
    build,     \* [Builders -> where the pass is and what it has read]
    late       \* spans that came, or whose turn moved, in front of one that
               \* was summarized or being so, or behind it

summaryVars == <<arrived, summary, build, late>>

SummaryRow(order, covers) == [order |-> order, covers |-> covers]

SummaryRows == [order : 0..Cardinality(Spans), covers : SUBSET Spans]

NoRows == [x \in Spans |-> {}]

Resting == [at |-> "rest", flat |-> {}, done |-> {}, existing |-> NoRows, running |-> {}]

SummaryTypeOK ==
    /\ arrived \subseteq Spans
    /\ \A x \in Spans : summary[x] \subseteq SummaryRows /\ Cardinality(summary[x]) <= 1
    /\ DOMAIN summary = Spans
    /\ \A b \in Builders :
         /\ build[b].at \in {"rest", "rows", "list", "delete", "loop"}
         /\ build[b].flat \subseteq arrived
         /\ build[b].done \subseteq build[b].flat
         /\ build[b].running \subseteq Spans
         /\ \A x \in Spans : build[b].existing[x] \subseteq SummaryRows
    /\ late \subseteq arrived

SummaryInit ==
    /\ arrived = {}
    /\ summary = NoRows
    /\ build = [b \in Builders |-> Resting]
    /\ late = {}

-----------------------------------------------------------------------------
\* _group_turns: the walk of S takes y before x -- within a turn by their start,
\* else the turn whose first span in S starts first.
Before(S, y, x) ==
    IF TraceOf[y] = TraceOf[x] THEN y < x
    ELSE \E z \in S :
            TraceOf[z] = TraceOf[y] /\ \A w \in S : TraceOf[w] = TraceOf[x] => z < w

\* The spans of T whose place before or after one of Z is not the one in S.
Displaced(S, T, Z) ==
    {u \in T : \E z \in Z : ~(Before(T, u, z) <=> u \in S /\ Before(S, u, z))}

\* A span is ingested.
Arrive(y) ==
    LET taken == {x \in Spans : summary[x] # {}}
                   \cup UNION {build[b].flat : b \in Builders}
    IN /\ y \notin arrived
       /\ arrived' = arrived \cup {y}
       /\ late' = late \cup Displaced(arrived, arrived', taken)
       /\ UNCHANGED <<summary, build>>

\* read_thread_spans
ReadSpans(b, force) ==
    /\ build[b].at = "rest"
    /\ arrived # {}
    /\ build' = [build EXCEPT ![b] =
         [Resting EXCEPT !.at = IF force THEN "list" ELSE "rows", !.flat = arrived]]
    /\ UNCHANGED <<arrived, summary, late>>

\* rolling_summary_list_for_thread: once, up front.
ReadRows(b) ==
    /\ build[b].at = "rows"
    /\ build' = [build EXCEPT ![b].at = "loop", ![b].existing = summary]
    /\ UNCHANGED <<arrived, summary, late>>

\* rolling_summary_delete_for_thread: the rows it lists are the rows it deletes.
ListRows(b) ==
    /\ build[b].at = "list"
    /\ build' = [build EXCEPT ![b].at = "delete", ![b].existing = summary]
    /\ UNCHANGED <<arrived, summary, late>>

\* The rows that b has listed are gone, for other passes that listed them too.
Unlisted(b) ==
    [c \in Builders |-> IF build[c].at = "delete"
       THEN [build[c] EXCEPT !.existing = [x \in Spans |-> @[x] \ build[b].existing[x]]]
       ELSE build[c]]

\* The commit.  A row that another pass has deleted meanwhile is passed over.
\* Alone, a forced pass starts afresh: late is only what has moved since it read.
DeleteRows(b) ==
    /\ build[b].at = "delete"
    /\ summary' = [x \in Spans |-> summary[x] \ build[b].existing[x]]
    /\ build' = [Unlisted(b) EXCEPT ![b].at = "loop"]
    /\ late' = IF /\ summary' = NoRows
                  /\ \A c \in Builders \ {b} : build[c].at = "rest"
               THEN Displaced(build[b].flat, arrived, build[b].flat)
               ELSE late
    /\ UNCHANGED arrived

\* mutant: a row that is there is skipped, and what it holds is not carried on.
Carried_None(b, x) == build[b].running

\* running, after a span that had a row when the pass read the rows.
Carried(b, x) == UNION {r.covers : r \in build[b].existing[x]}

\* mutant: nothing keeps a span from having two rows.
Inserted_Again(rows, row) == rows \cup {row}

\* rolling_summary_create: the unique key keeps the row that is there.
Inserted(rows, row) == IF rows = {} THEN {row} ELSE rows

\* The next span of the walk.  It has a row: carried forward.  It has none: it
\* is summarized and inserted, or another pass has inserted it since then.
NextSpan(b, x) ==
    LET running == IF build[b].existing[x] # {} THEN Carried(b, x)
                   ELSE build[b].running \cup {x}
    IN /\ build[b].at = "loop"
       /\ x \in build[b].flat \ build[b].done
       /\ \A y \in build[b].flat \ build[b].done : y = x \/ Before(build[b].flat, x, y)
       /\ build' = [build EXCEPT ![b].done = @ \cup {x}, ![b].running = running]
       /\ summary' = IF build[b].existing[x] # {} THEN summary
                     ELSE [summary EXCEPT ![x] =
                             Inserted(@, SummaryRow(Cardinality(build[b].done), running))]
       /\ UNCHANGED <<arrived, late>>

\* The pass is over, or dies, or raises.
BuildEnds(b) ==
    /\ build[b].at # "rest"
    /\ build' = [build EXCEPT ![b] = Resting]
    /\ UNCHANGED <<arrived, summary, late>>

SummaryNext ==
    \/ \E y \in Spans : Arrive(y)
    \/ \E b \in Builders :
         \/ \E force \in BOOLEAN : ReadSpans(b, force)
         \/ \E x \in Spans : NextSpan(b, x)
         \/ ReadRows(b) \/ ListRows(b) \/ DeleteRows(b) \/ BuildEnds(b)

SummarySpec == SummaryInit /\ [][SummaryNext]_summaryVars

-----------------------------------------------------------------------------
\* However passes and turns overlap, die or are forced, the row of a span has
\* taken in every span that the thread's walk now takes before it, but those
\* that came late; and as long as none did, the rows are in the order of the
\* walk, so that the one with the highest step_order is the conversation's.  A
\* forced pass alone makes up for late spans.
OnlyLateSpansMissing ==
    /\ \A x \in Spans, y \in arrived \ late :
         Before(arrived, y, x) => \A r \in summary[x] : y \in r.covers
    /\ late = {} => \A x, y \in arrived : Before(arrived, x, y) =>
         \A r \in summary[x], q \in summary[y] : r.order < q.order
=============================================================================
