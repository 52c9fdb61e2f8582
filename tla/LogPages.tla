------------------------------ MODULE LogPages ------------------------------
(***************************************************************************)
(* Reading a window of log lines page by page (cli/logs/fetch.go): Pages,  *)
(* and its two callers Tail and All.  One step is one turn of Pages' loop:  *)
(* a query, the callback on the lines not seen before, and the bounds of   *)
(* the next query.  Lines go on arriving between the queries.              *)
(***************************************************************************)
EXTENDS LogQueryAPI, Sequences

CONSTANTS
    Windows,    \* windows a user may ask for: [start, end]
    TailSizes,  \* values of --limit that Tail is called with
    Late        \* lines that may arrive while the window is read

ASSUME PagesAssumption ==
    /\ Windows \subseteq [start : Nat, end : Nat]
    /\ \A w \in Windows : w.start < w.end
    /\ TailSizes \subseteq Nat
    /\ MaxLimit \in Nat \ {0}
    /\ Late \subseteq Entries

VARIABLES
    caller,   \* [fn |-> "All"] or [fn |-> "Tail", n]
    window,   \* the window asked for
    first,    \* the lines stored when reading began
    q,        \* bounds of the next query
    edge,     \* the second the next page resumes in, or -1
    seen,     \* keys of the lines of that second already returned
    out,      \* the batches passed to the callback
    pc        \* "query", or how Pages returned: "done", "error", "refused"

vars == <<store, caller, window, first, q, edge, seen, out, pc>>

Callers == [fn : {"All"}] \cup [fn : {"Tail"}, n : TailSizes]

Direction == IF caller.fn = "Tail" THEN "backward" ELSE "forward"

Limit == IF caller.fn = "Tail" THEN Min({caller.n, MaxLimit}) ELSE MaxLimit

TypeOK ==
    /\ store \subseteq Entries
    /\ caller \in Callers
    /\ window \in Windows
    /\ first \subseteq store
    /\ q \in [start : Nat, end : Nat]
    /\ edge \in Nat \cup {-1}
    /\ seen \subseteq {Key(e) : e \in store}
    /\ out \in Seq((SUBSET store) \ {{}})
    /\ pc \in {"query", "done", "error", "refused"}

Init ==
    /\ caller \in Callers
    /\ window \in Windows
    /\ store \in {Entries \ late : late \in SUBSET Late}
    /\ first = store
    /\ q = window
    /\ edge = -1
    /\ seen = {}
    /\ out = <<>>
    /\ pc = "query"

-----------------------------------------------------------------------------
\* Lines passed to the callback so far.
Emitted == UNION Range(out)

\* How many lines the batches hold between them.
Count(batches) == Cardinality(UNION {{i} \X batches[i] : i \in DOMAIN batches})

\* A bug: the edge is forgotten, so the second is returned again.
FreshForgetful(page) == page

Fresh(page) == {e \in page : Unix(e.time) # edge \/ Key(e) \notin seen}

\* The second of the page's last line.
LastSecond(page) ==
    LET seconds == {Unix(e.time) : e \in page}
    IN  IF Direction = "backward" THEN Min(seconds) ELSE Max(seconds)

\* The callback is called for a page with fresh lines only.
Deliver(page) == IF Fresh(page) = {} THEN out ELSE Append(out, Fresh(page))

\* Tail's callback stops Pages once there are n lines.
Satisfied(batches) == caller.fn = "Tail" /\ Count(batches) >= caller.n

\* Tail keeps the newest n of what Pages passed it.
Trim(batches) ==
    IF Satisfied(batches)
    THEN LET m == Len(batches)
             rest == caller.n - Count(SubSeq(batches, 1, m - 1))
         IN  {[batches EXCEPT ![m] = kept] : kept \in Cuts(batches[m], rest, "backward")}
    ELSE {batches}

\* The callback is satisfied, or the page is not full: Pages returns.
Return(page) ==
    /\ \/ Fresh(page) # {} /\ Satisfied(Deliver(page))
       \/ Cardinality(page) < Limit
    /\ out' \in Trim(Deliver(page))
    /\ pc' = "done"
    /\ UNCHANGED <<q, edge, seen>>

\* A bug: a second wider than a page is asked for again and again.
StepPastStays(page) ==
    /\ Cardinality(page) = Limit
    /\ Fresh(page) = {}
    /\ UNCHANGED <<q, edge, seen, out, pc>>

\* A whole page from one already-seen second.
StepPast(page) ==
    /\ Cardinality(page) = Limit
    /\ Fresh(page) = {}
    /\ q' = IF Direction = "backward"
            THEN [q EXCEPT !.end = LastSecond(page) * Second]
            ELSE [q EXCEPT !.start = (LastSecond(page) + 1) * Second]
    /\ edge' = -1
    /\ seen' = {}
    /\ UNCHANGED <<out, pc>>

EdgeKeys(page) == {Key(e) : e \in {f \in page : Unix(f.time) = LastSecond(page)}}

\* A bug: the next page starts after the second the last one ended in.
ResumeAfter(page) ==
    /\ Cardinality(page) = Limit
    /\ Fresh(page) # {}
    /\ ~Satisfied(Deliver(page))
    /\ out' = Deliver(page)
    /\ edge' = LastSecond(page)
    /\ seen' = EdgeKeys(page)
    /\ q' = IF Direction = "backward"
            THEN [q EXCEPT !.end = LastSecond(page) * Second]
            ELSE [q EXCEPT !.start = (LastSecond(page) + 1) * Second]
    /\ pc' = pc

\* The next page resumes in the second of this page's last line.
Resume(page) ==
    /\ Cardinality(page) = Limit
    /\ Fresh(page) # {}
    /\ ~Satisfied(Deliver(page))
    /\ out' = Deliver(page)
    /\ edge' = LastSecond(page)
    /\ seen' = EdgeKeys(page) \cup (IF LastSecond(page) = edge THEN seen ELSE {})
    /\ q' = IF Direction = "backward"
            THEN [q EXCEPT !.end = (LastSecond(page) + 1) * Second]
            ELSE [q EXCEPT !.start = LastSecond(page) * Second]
    /\ pc' = pc

\* Tail of no lines asks nothing.
TailNothing ==
    /\ pc = "query"
    /\ caller.fn = "Tail" /\ caller.n = 0
    /\ pc' = "done"
    /\ UNCHANGED <<store, caller, window, first, q, edge, seen, out>>

Pages ==
    /\ pc = "query"
    /\ Limit > 0
    /\ Accepted(q.start, q.end)
    /\ \E page \in QueryRange(q.start, q.end, Limit, Direction) :
           Return(page) \/ StepPast(page) \/ Resume(page)
    /\ UNCHANGED <<store, caller, window, first>>

\* Pages returns the error of a query; Tail then returns no lines.
Fail(reason) ==
    /\ pc = "query"
    /\ Limit > 0
    /\ pc' = reason
    /\ out' = IF caller.fn = "Tail" THEN <<>> ELSE out
    /\ UNCHANGED <<store, caller, window, first, q, edge, seen>>

QueryFails == Fail("error")

QueryRefused == ~Accepted(q.start, q.end) /\ Fail("refused")

Arrive(e) ==
    /\ pc = "query"
    /\ Ingest(e)
    /\ UNCHANGED <<caller, window, first, q, edge, seen, out, pc>>

Next ==
    \/ TailNothing
    \/ Pages
    \/ QueryFails
    \/ QueryRefused
    \/ \E e \in Late : Arrive(e)

Spec == Init /\ [][Next]_vars

\* Every request is answered or times out (requestTimeout).
FairSpec == Spec /\ WF_vars(TailNothing \/ Pages \/ QueryRefused)

-----------------------------------------------------------------------------
\* The lines of a second.
InSecond(s) == {e \in store : Unix(e.time) = s}

\* No line is passed on twice, although consecutive pages overlap by a whole
\* second: the pages have no key in common, whatever arrives in between
\* (the filter on edge and seen, fetch.go:35-40).
NoRepeat ==
    \A i, j \in DOMAIN out :
        i # j => {Key(e) : e \in out[i]} \cap {Key(e) : e \in out[j]} = {}

\* Reading to the end misses nothing that was there from the start, unless its
\* second holds more lines than a page (the exception fetch.go:17-18 makes).
\* A tail may leave a line out when it is full of lines that are as new.
NothingSkipped ==
    pc = "done" =>
        \A e \in first :
            /\ window.start <= e.time /\ e.time < window.end
            /\ Cardinality(InSecond(Unix(e.time))) <= Limit
            => \/ \E f \in Emitted : Key(f) = Key(e)
               \/ caller.fn = "Tail" /\ Cardinality(Emitted) = caller.n
                  /\ \A f \in Emitted : f.time >= e.time

\* Across pages the clock never runs backwards by a whole second, even while
\* lines arrive in the part of the window already read (fetch.go:68-72).
SecondsInOrder ==
    \A i, j \in DOMAIN out : \A e \in out[i], f \in out[j] :
        i < j => IF Direction = "backward" THEN Unix(e.time) >= Unix(f.time)
                                           ELSE Unix(e.time) <= Unix(f.time)

\* Resuming at whole seconds reaches past the window asked for by less than a
\* second on either side (fetch.go:69, 71).
StraysAreNear ==
    \A e \in Emitted :
        /\ Unix(e.time) >= Unix(window.start)
        /\ Unix(e.time) <= Unix(window.end - 1)

\* The API refuses a query of Pages only when Pages has stepped past a second
\* that fills a page at the far end of the window (fetch.go:49-57); nothing
\* else makes the next window empty.
RefusedAtWideEdgeOnly ==
    pc = "refused" =>
        Cardinality(InSecond(Unix(IF Direction = "backward" THEN window.start
                                  ELSE window.end - 1))) >= Limit

\* Paging comes to an end: every turn of the loop passes on a new line or
\* leaves a second behind (fetch.go:44-57).
Terminates == <>(pc # "query")

\* What All and Tail say of their result: the lines are those of [start, end)
\* (fetch.go:76, 96).
OnlyTheWindow ==
    \A e \in Emitted : window.start <= e.time /\ e.time < window.end
=============================================================================
