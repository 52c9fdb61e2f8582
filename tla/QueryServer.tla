---------------------------- MODULE QueryServer -----------------------------
(***************************************************************************)
(* The query API's server (queryapi/): a request passes the rewriting of   *)
(* its path, the review of its permission, the middleware that finds its   *)
(* project, the router, a handler and one of the two stores, while its     *)
(* client may leave, its deadline pass, records arrive and the server stop.*)
(*                                                                         *)
(* External: the Kubernetes apiserver runtime (filter chain, review of a   *)
(* SubjectAccessReview, drain), net/http, the ClickHouse driver and the    *)
(* metrics backend, each with every outcome that the code handles.  The    *)
(* parameters of a request are chosen when its handler reads them.         *)
(***************************************************************************)
EXTENDS QueryRouting, QueryHandlers, LogLabels

CONSTANTS
    Requests,   \* request slots, each used again once its request is answered
    Paths,      \* the paths that requests have
    Callers,    \* the authenticated callers
    MaxRows     \* bound: records stored

ASSUME ServerAssumption ==
    /\ MaxRows \in Nat
    /\ Callers \subseteq Caller

VARIABLES
    rows,       \* the records stored
    req,        \* req[r]: the request in slot r
    server      \* "serving", "draining" after a signal, "closed" storage

vars == <<rows, req, server>>

Anonymous == [parentType |-> "", parentName |-> ""]

NoForm == [parses |-> FALSE, selectors |-> <<>>, start |-> Absent, end |-> Absent,
           step |-> Absent, timeout |-> Absent, limit |-> Absent]

\* No request.  pc: the filter, handler or call that a request is in.
\* reviewed: the permission that the review allowed; wanted and got: what the
\* log store found, and what of it has been read; next: the selector at hand.
NoRequest ==
    [pc |-> "idle", method |-> "", path |-> <<>>, caller |-> Anonymous, reviewed |-> {},
     project |-> {}, handler |-> "", form |-> NoForm, ctx |-> "live", next |-> 1,
     wanted |-> {}, got |-> {}, status |-> 0]

Init ==
    /\ rows = {}
    /\ req = [r \in Requests |-> NoRequest]
    /\ server = "serving"

Waiting(r) == req[r].pc \in {"idle", "answered"}

Set(r, new) == /\ req' = [req EXCEPT ![r] = new]
               /\ UNCHANGED <<rows, server>>

\* writeError, writeData: one answer; the handler's deferred cancel runs.
Answer(r, status) == Set(r, [req[r] EXCEPT !.pc = "answered", !.status = status])
-----------------------------------------------------------------------------
(***************************************************************************)
(* The filters.                                                            *)
(***************************************************************************)
\* withCanonicalPaths is the outermost filter.
Arrive(r, method, path, caller) ==
    /\ req[r].pc = "idle"
    /\ server = "serving"
    /\ Set(r, [NoRequest EXCEPT !.pc = "review", !.method = method,
                                !.path = canonicalPath(path), !.caller = caller])

\* Authorize: the guard denies, or the delegate answers what it will.
ReviewDenies(r) ==
    /\ req[r].pc = "review"
    /\ Answer(r, 403)

ReviewFails(r) ==
    /\ req[r].pc = "review"
    /\ Delegates(req[r].method, req[r].path)
    /\ Answer(r, 500)

ReviewAllows(r) ==
    /\ req[r].pc = "review"
    /\ Delegates(req[r].method, req[r].path)
    /\ Set(r, [req[r] EXCEPT !.pc = "serve",
                 !.reviewed = RequestedPermissions(req[r].method, req[r].path)])

\* installRoutes: the paths that the tenant mux is installed under.
IsTenantPath(path) == IsPrefix(APIPrefix, path) /\ Len(path) > Len(APIPrefix)

\* The runtime's own paths and the discovery documents.
ServeRuntime(r) ==
    /\ req[r].pc = "serve"
    /\ ~IsTenantPath(req[r].path)
    /\ \E status \in {200, 404} :
          /\ req[r].path \in {GroupPrefix, APIPrefix} => status = 200
          /\ UnderGroup(req[r].path) /\ req[r].path \notin {GroupPrefix, APIPrefix} =>
                status = 404
          /\ Answer(r, status)

\* Middleware finds a project.
Scoped(r) == Resolve(req[r].caller, Projects) # {}

\* Middleware: a caller who acts in no project is refused.
RefuseUnscoped(r) ==
    /\ req[r].pc = "serve"
    /\ IsTenantPath(req[r].path)
    /\ ~Scoped(r)
    /\ Answer(r, 403)

\* Middleware and mux: the handler of the route, bound to the project.
Dispatch(r) ==
    /\ req[r].pc = "serve"
    /\ IsTenantPath(req[r].path)
    /\ Scoped(r)
    /\ IF req[r].path # Clean(req[r].path)
       THEN Answer(r, 301)
       ELSE \E rt \in Matched(req[r].method, req[r].path) :
              Set(r, [req[r] EXCEPT !.pc = "handle", !.handler = rt.handler,
                        !.project = Resolve(req[r].caller, Projects),
                        !.path = <<>>, !.method = ""])
-----------------------------------------------------------------------------
(***************************************************************************)
(* The handlers.                                                           *)
(***************************************************************************)
Rejects(handler, f) ==
    IF handler \in LogHandlers THEN lokiRejects(handler, f) ELSE promRejects(handler, f)

Handle(r, f) ==
    /\ req[r].pc = "handle"
    /\ CASE IsHealthProbe(req[r].handler, f) -> Answer(r, 200)
         [] ~IsHealthProbe(req[r].handler, f) /\ Rejects(req[r].handler, f) -> Answer(r, 400)
         [] OTHER -> Set(r, [req[r] EXCEPT !.form = f, !.pc =
                               IF req[r].handler \in LogHandlers THEN "query" ELSE "call"])

\* The client goes away, or the timeout of withTimeout passes.
ClientLeaves(r) ==
    /\ req[r].pc \in {"handle", "query", "read", "call"}
    /\ req[r].ctx = "live"
    /\ Set(r, [req[r] EXCEPT !.ctx = "canceled"])

\* Mutant: only the log handlers call withTimeout.
withTimeoutForLogs(r) == req[r].pc \in {"query", "read"}

\* withTimeout: the calls it bounds.
withTimeout(r) == req[r].pc \in {"query", "read", "call"}

DeadlinePasses(r) ==
    /\ withTimeout(r)
    /\ req[r].ctx = "live"
    /\ Set(r, [req[r] EXCEPT !.ctx = "expired"])

\* What a call of the log store may fail with: nothing is queried without a
\* project; the driver returns the context's error once that has ended, and a
\* dial or a read that timed out is a passed deadline too.
LogStoreErrors(r) ==
    IF req[r].project = {} THEN {"noProject"}
    ELSE {"other", "deadline"}
           \cup (IF req[r].ctx = "live" THEN {} ELSE {ContextError(req[r].ctx)})

\* The rows that the policy of telemetry_project_id and the WHERE clause leave.
ProjectRows(r) == {x \in rows : x.project \in req[r].project}

\* The matchers of the selector that lokiSeries or a query is at.
SelectorAt(r) ==
    IF Parses(req[r].form, req[r].next) THEN req[r].form.selectors[req[r].next].matchers ELSE {}

AtMost(n, S) == {T \in SUBSET S : Cardinality(T) = (IF Cardinality(S) < n THEN Cardinality(S) ELSE n)}

\* The results that a query of the log store may have.
Results(r) ==
    LET handler == req[r].handler
    IN  CASE handler \in {"lokiQuery", "lokiQueryRange"} ->
               AtMost(parseLimit(req[r].form), Selected(ProjectRows(r), SelectorAt(r)))
          [] handler = "lokiLabelNames" -> {buildLabelNamesQuery(ProjectRows(r))}
          [] handler = "lokiLabelValues" ->
               {LabelValues(ProjectRows(r), l) : l \in LabelNames(ProjectRows(r)) \cup {resource_name}}
          [] handler = "lokiSeries" -> {Series(ProjectRows(r), SelectorAt(r))}

\* QueryLogs, LabelNames, LabelValues, Series: the query is sent.  lokiSeries
\* parses a selector only when it comes to it.
QueryRefused(r) ==
    /\ req[r].pc = "query"
    /\ req[r].handler = "lokiSeries"
    /\ ~Parses(req[r].form, req[r].next)
    /\ Answer(r, 400)

Sendable(r) ==
    /\ req[r].pc = "query"
    /\ req[r].handler = "lokiSeries" => Parses(req[r].form, req[r].next)

QueryFails(r) ==
    /\ Sendable(r)
    /\ \E e \in LogStoreErrors(r) : Answer(r, writeStorageError(e))

QueryReturns(r) ==
    /\ Sendable(r)
    /\ server # "closed"
    /\ req[r].project # {}
    /\ \E result \in Results(r) :
          Set(r, [req[r] EXCEPT !.pc = "read", !.wanted = @ \cup result])

\* rowIterator.Next, scanStrings, Series: another item of the result.
ReadNext(r) ==
    /\ req[r].pc = "read"
    /\ server # "closed"
    /\ \E x \in req[r].wanted \ req[r].got : Set(r, [req[r] EXCEPT !.got = @ \cup {x}])

\* Mutant: the error that ended the iteration is not looked at.
AfterReadErrorIgnored(e) == 200

\* collectStreams and the scans return the error of rows.Err or Close.
AfterReadError(e) == writeStorageError(e)

ReadFails(r) ==
    /\ req[r].pc = "read"
    /\ \E e \in LogStoreErrors(r) : Answer(r, AfterReadError(e))

\* The result is read: lokiSeries goes on to its next selector.
ReadEnds(r) ==
    /\ req[r].pc = "read"
    /\ req[r].got = req[r].wanted
    /\ IF req[r].handler = "lokiSeries" /\ req[r].next < Len(req[r].form.selectors)
       THEN Set(r, [req[r] EXCEPT !.pc = "query", !.next = @ + 1])
       ELSE Answer(r, 200)

\* Store.do and writePromResult: the transport or the body fails, the body is
\* too large, it is decoded, or it is decoded and then not closed.
CallOutcomes(r) ==
    IF req[r].project = {} THEN {"noProject"}
    ELSE {AfterCall(outcome, req[r].ctx) : outcome \in
            {"unavailable", "tooLarge", "other"} \cup {decode(resp) : resp \in Response}}

MetricCallReturns(r) ==
    /\ req[r].pc = "call"
    /\ \E result \in CallOutcomes(r) :
          Answer(r, IF result = "data" THEN 200 ELSE writePromStorageError(result))

\* The answer has been written.
Finish(r) ==
    /\ req[r].pc = "answered"
    /\ Set(r, NoRequest)
-----------------------------------------------------------------------------
(***************************************************************************)
(* The pipeline stores records; the process is told to stop and restarted. *)
(***************************************************************************)
Insert(x) ==
    /\ Cardinality(rows) < MaxRows
    /\ x \notin rows
    /\ rows' = rows \cup {x}
    /\ UNCHANGED <<req, server>>

Signal ==
    /\ server = "serving"
    /\ server' = "draining"
    /\ UNCHANGED <<rows, req>>

\* Mutant: the storage is closed as soon as the context is cancelled.
CloseStoreAtOnce ==
    /\ server = "draining"
    /\ server' = "closed"
    /\ UNCHANGED <<rows, req>>

\* Run returns from RunWithContext once the requests are drained, and its
\* deferred call closes the storage.
CloseStore ==
    /\ server = "draining"
    /\ \A r \in Requests : Waiting(r)
    /\ server' = "closed"
    /\ UNCHANGED <<rows, req>>

Restart ==
    /\ server = "closed"
    /\ server' = "serving"
    /\ req' = [r \in Requests |-> NoRequest]
    /\ UNCHANGED rows
-----------------------------------------------------------------------------
Filter(r) == ReviewDenies(r) \/ ReviewFails(r) \/ ReviewAllows(r)
               \/ ServeRuntime(r) \/ RefuseUnscoped(r) \/ Dispatch(r)

StoreStep(r) == QueryRefused(r) \/ QueryFails(r) \/ QueryReturns(r)
                  \/ ReadNext(r) \/ ReadFails(r) \/ ReadEnds(r) \/ MetricCallReturns(r)

Next ==
    \/ \E r \in Requests :
          \/ \E method \in {"GET", "HEAD", "POST"}, path \in Paths, caller \in Callers :
                Arrive(r, method, path, caller)
          \/ Filter(r)
          \/ \E f \in Forms : Handle(r, f)
          \/ ClientLeaves(r)
          \/ DeadlinePasses(r)
          \/ StoreStep(r)
          \/ Finish(r)
    \/ \E x \in Records : Insert(x)
    \/ Signal
    \/ CloseStore
    \/ Restart

\* The server's own steps and the timer go on; a store is sure to return only
\* once the context of the call has ended.
Fairness ==
    \A r \in Requests :
        /\ WF_vars(Filter(r))
        /\ WF_vars(\E f \in Forms : Handle(r, f))
        /\ WF_vars(DeadlinePasses(r))
        /\ WF_vars(req[r].ctx # "live" /\ StoreStep(r))

Spec == Init /\ [][Next]_vars
FairSpec == Spec /\ Fairness
-----------------------------------------------------------------------------
PermissionOf(handler) == (CHOOSE rt \in Routes : rt.handler = handler).permission

\* Types of the variables.
TypeOK ==
    /\ rows \subseteq Records /\ Cardinality(rows) <= MaxRows
    /\ server \in {"serving", "draining", "closed"}
    /\ \A r \in Requests :
          /\ req[r].caller \in Callers \cup {Anonymous}
          /\ req[r].reviewed \subseteq Permissions
          /\ req[r].project \subseteq Projects
          /\ req[r].handler \in LogHandlers \cup MetricHandlers \cup {""}
          /\ req[r].ctx \in {"live", "canceled", "expired"}
          /\ req[r].got \subseteq req[r].wanted
          /\ req[r].status \in {0, 200, 301, 400, 401, 403, 404, 422, 499, 500, 501, 502, 503, 504}

\* Whichever of its forms a path has, the handler that runs is the one whose
\* permission the review allowed, and the project its store is asked about is
\* the parent project of the caller that was reviewed (routes.go, guard.go,
\* middleware.go).
RunsAsReviewed ==
    \A r \in Requests : req[r].handler # "" =>
        /\ req[r].reviewed = {PermissionOf(req[r].handler)}
        /\ req[r].caller.parentType = "Project"
        /\ req[r].project = {req[r].caller.parentName}

\* Every call that reaches a store is bounded: a log query has a window that is
\* not empty and a limit up to the ceiling, and returns no more rows; a metric
\* range query asks for at most maxPoints samples of a window up to MaxRange,
\* and no longer than the server would wait (params.go, prom.go).
CallsAreBounded ==
    \A r \in Requests :
        LET f == req[r].form
        IN  /\ req[r].pc \in {"query", "read"} =>
                 timeRange(f).start < timeRange(f).end \/ req[r].handler = "lokiQuery"
            /\ req[r].handler \in {"lokiQuery", "lokiQueryRange"} =>
                 Cardinality(req[r].got) <= MaxLimit
            /\ req[r].pc = "call" /\ req[r].handler = "promQueryRange" =>
                 /\ f.end - f.start <= MaxRange
                 /\ Cardinality({t \in f.start..f.end : (t - f.start) % f.step = 0}) <= maxPoints
                 /\ promTimeout(f) <= QueryTimeout

\* An answer of 200 to a log request holds all that the store found for all of
\* its selectors: an error in the middle of a result is never a shorter result
\* (collectStreams, scanStrings, lokiSeries).
SuccessIsComplete ==
    \A r \in Requests :
        req[r].status = 200 /\ req[r].handler \in LogHandlers /\ req[r].form # NoForm =>
            /\ req[r].got = req[r].wanted
            /\ req[r].handler = "lokiSeries" =>
                 /\ req[r].next = Len(req[r].form.selectors)
                 /\ \A i \in 1..Len(req[r].form.selectors) : Parses(req[r].form, i)

\* An error names who is at fault: only a client that left is told that it
\* did, a metric call that the client gave up is not said to have timed out,
\* and the metrics backend is not blamed for a call that was given up
\* (Store.do, writeStorageError, writePromStorageError).
FaultIsNamed ==
    \A r \in Requests :
        /\ req[r].status = 499 => req[r].ctx = "canceled"
        /\ req[r].status = 503 => req[r].ctx # "canceled"
        /\ req[r].status = 502 => req[r].ctx = "live"

\* "drains in-flight queries before closing the storage backend" (Run): while
\* a log request is anywhere between its dispatch and its answer, the storage
\* that it reads is open, whenever the signal came.
StoreOutlivesCalls ==
    server = "closed" => \A r \in Requests : req[r].handler \in LogHandlers => Waiting(r)

Shown(r, n) == IF n \in DOMAIN assembleLabels(r) THEN assembleLabels(r)[n] ELSE Empty

\* A row may show a value of a promoted name that a matcher does not read: the
\* column is empty and an attribute has its name.
HiddenByColumn(x, n) == n \in Columns /\ Column(x, n) = Empty /\ At(x, n) # {}

\* So it may of a name that two attributes share, of which the first is empty.
HiddenByCollision(x, n) ==
    n \notin Columns /\ Collided(x, n) /\ Labels(x)[First(At(x, n))].value = Empty

\* On every name that a row shows or the catalogue advertises, the row shows
\* what a matcher reads, so that a value which is seen can be searched for,
\* also where two attributes share the name.  The exceptions are an empty
\* promoted column and, for names that are not advertised only, a collision
\* whose first entry is empty (LabelNames, assembleLabels, labelExpr).
ShownIsMatched ==
    \A p \in Projects :
        LET stored == {x \in rows : x.project = p}
        IN  \A x \in stored : \A n \in LabelNames(stored) \cup DOMAIN assembleLabels(x) :
                \/ labelExpr(x, n) = Shown(x, n)
                \/ HiddenByColumn(x, n)
                \/ n \notin LabelNames(stored) /\ HiddenByCollision(x, n)

\* Every request is answered, although a store may never answer by itself
\* (withTimeout).
Answered == \A r \in Requests : ~Waiting(r) ~> Waiting(r)
=============================================================================
