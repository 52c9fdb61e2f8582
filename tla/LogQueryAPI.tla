---------------------------- MODULE LogQueryAPI -----------------------------
(***************************************************************************)
(* A query_range request as the logs API answers it and the CLI's client   *)
(* reads it: the stored lines of a half-open window, ordered by time, cut   *)
(* at a limit.  ClickHouse orders by the timestamp alone, so among lines    *)
(* that share one any may be cut off.  An answer is the set of its lines:   *)
(* the client sorts them by time, and nothing depends on the order of ties. *)
(***************************************************************************)
EXTENDS Integers, FiniteSets, FiniteSetsExt

CONSTANTS
    Entries,   \* the lines that may exist: [time, line, row]
    Second,    \* instants in a second
    MaxLimit   \* lines per request

ASSUME EntriesAssumption ==
    /\ Second \in Nat \ {0}
    /\ IsFiniteSet(Entries)
    /\ \A e \in Entries : e.time \in Nat \ {0}

VARIABLE store   \* the lines ClickHouse holds

\* Two rows with the same time, labels and text have the same key.
Key(e) == <<e.time, e.line>>

Unix(t) == t \div Second

\* The first line the direction reaches, or one at the same instant.
Before(e, f, dir) == IF dir = "forward" THEN e.time <= f.time ELSE e.time >= f.time

\* timeRange answers 400 to an empty window.
Accepted(start, end) == start < end

projectRange(start, end) == {e \in store : start <= e.time /\ e.time < end}

\* The ways to cut lines at a limit.
Cuts(lines, limit, dir) ==
    {page \in kSubset(Min({limit, Cardinality(lines)}), lines) :
        \A e \in page, f \in lines \ page : Before(e, f, dir)}

QueryRange(start, end, limit, dir) == Cuts(projectRange(start, end), limit, dir)

\* A line reaches ClickHouse, some time after the collector stamped it.
Ingest(e) ==
    /\ e \notin store
    /\ store' = store \cup {e}
=============================================================================
