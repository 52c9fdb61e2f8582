---------------------------- MODULE MCLogFollow -----------------------------
EXTENDS LogFollow

E(t, x) == [time |-> t, line |-> x, row |-> x]

\* Fewer lines per instant than a page, more per overlap.
Spread == {E(1, "a"), E(3, "a"), E(4, "a"), E(4, "b"), E(5, "a")}

\* As many lines at one instant as a page holds.
Burst == {E(1, "a"), E(3, "a"), E(3, "b"), E(4, "a")}

\* --limit: every line, none, one.
Sizes == {-1, 0, 1}
=============================================================================
