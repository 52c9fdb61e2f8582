----------------------------- MODULE MCLogPages -----------------------------
EXTENDS LogPages

E(t, x, i) == [time |-> t, line |-> x, row |-> i]

\* Seconds of four instants.  The second second is wider than a page of three;
\* two lines of the third are identical.
Lines == {E(4, "a", 1), E(5, "a", 2), E(7, "b", 3),
          E(8, "a", 4), E(8, "b", 5), E(9, "a", 6), E(10, "a", 7),
          E(13, "a", 8), E(13, "a", 9), E(14, "b", 10)}

LateLines == {E(5, "a", 2), E(9, "a", 6), E(13, "a", 8), E(14, "b", 10)}

\* Windows that begin and end on a second, and windows that do not.
Asked == {[start |-> 4, end |-> 16], [start |-> 5, end |-> 14], [start |-> 4, end |-> 10],
          [start |-> 9, end |-> 16]}
=============================================================================
