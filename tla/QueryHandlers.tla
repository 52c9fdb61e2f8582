---------------------------- MODULE QueryHandlers ---------------------------
(***************************************************************************)
(* What the handlers make of a request's parameters (handler.go, params.go,*)
(* prom.go, promparams.go), what the metric store makes of a backend's     *)
(* response (storage/prometheus) and which status an error becomes.        *)
(***************************************************************************)
EXTENDS Integers, FiniteSets, Sequences

CONSTANTS
    Forms,          \* the parameters that requests carry
    Now,            \* the time of the request
    Hour,           \* the default window
    DefaultLimit, MaxLimit, MaxRange, QueryTimeout,   \* the configuration
    maxPoints       \* samples of a series in a range query

\* Config.Validate.
ValidConfig ==
    /\ {Hour, maxPoints, MaxRange, QueryTimeout} \subseteq Nat \ {0}
    /\ Now \in Nat
    /\ MaxLimit \in Nat \ {0}
    /\ DefaultLimit \in 1..MaxLimit

ASSUME ConfigAssumption == ValidConfig

Absent == -1

\* parses: every time, timeout, step, label name and the form itself can be
\* parsed.  selectors: query or match[], in order; a selector's matchers.
\* A step or timeout of 0 is one that parsePromDuration refuses.
SelectorKinds == {"selector", "unparsable", "healthProbe"}

IsForm(f) ==
    /\ f.parses \in BOOLEAN
    /\ Len(f.selectors) \in Nat
    /\ \A i \in 1..Len(f.selectors) : f.selectors[i].kind \in SelectorKinds
    /\ {f.start, f.end, f.step, f.timeout, f.limit} \subseteq Nat \cup {Absent}

ASSUME FormsAssumption == \A f \in Forms : IsForm(f)

parseLimit(f) ==
    CASE f.limit <= 0 -> DefaultLimit
      [] f.limit > MaxLimit -> MaxLimit
      [] OTHER -> f.limit

\* timeRange: the last hour by default.
timeRange(f) ==
    LET end == IF f.end = Absent THEN Now ELSE f.end
    IN  [start |-> IF f.start = Absent THEN end - Hour ELSE f.start, end |-> end]

LogRangeFails(f) == ~f.parses \/ timeRange(f).end <= timeRange(f).start

\* parseLogQL on the i-th selector.
Parses(f, i) == i \in 1..Len(f.selectors) /\ f.selectors[i].kind = "selector"

promRangeFails(f) == ~f.parses \/ (Absent \notin {f.start, f.end} /\ f.end < f.start)

\* Mutant: both ends of the window hold a sample, and one is not counted.
TooManyPointsOffByOne(f) == (f.end - f.start) \div f.step > maxPoints

TooManyPoints(f) == (f.end - f.start) \div f.step + 1 > maxPoints

promTimeout(f) ==
    IF f.timeout \in 1..QueryTimeout THEN f.timeout ELSE QueryTimeout

promQueryRangeFails(f) ==
    \/ f.selectors = <<>>
    \/ Absent \in {f.start, f.end, f.step}
    \/ promRangeFails(f)
    \/ f.step = 0
    \/ f.end - f.start > MaxRange
    \/ TooManyPoints(f)
    \/ f.timeout = 0

\* The handler answers 400 before it calls a store: for logs ...
lokiRejects(handler, f) ==
    CASE handler = "lokiQuery" -> ~Parses(f, 1) \/ ~f.parses
      [] handler = "lokiQueryRange" -> ~Parses(f, 1) \/ LogRangeFails(f)
      [] handler = "lokiLabelNames" -> LogRangeFails(f)
      [] handler = "lokiLabelValues" ->
           (f.selectors # <<>> /\ ~Parses(f, 1)) \/ LogRangeFails(f)
      [] handler = "lokiSeries" -> f.selectors = <<>> \/ LogRangeFails(f)

\* ... and for metrics.
promRejects(handler, f) ==
    CASE handler = "promQuery" -> ~f.parses \/ f.selectors = <<>> \/ f.timeout = 0
      [] handler = "promQueryRange" -> promQueryRangeFails(f)
      [] handler = "promSeries" -> f.selectors = <<>> \/ promRangeFails(f)
      [] handler \in {"promLabelNames", "promLabelValues"} -> promRangeFails(f)

\* lokiQuery answers Grafana's health probe by itself.
IsHealthProbe(handler, f) ==
    /\ handler = "lokiQuery"
    /\ f.selectors # <<>>
    /\ f.selectors[1].kind = "healthProbe"
-----------------------------------------------------------------------------
\* The errors a store returns.
Errors == {"canceled", "deadline", "noProject", "invalidLimit", "notImplemented",
           "queryError", "tooLarge", "unavailable", "other"}

writeStorageError(e) ==
    CASE e = "noProject" -> 401
      [] e = "canceled" -> 499
      [] e = "deadline" -> 504
      [] e = "invalidLimit" -> 400
      [] e = "notImplemented" -> 501
      [] OTHER -> 500

writePromStorageError(e) ==
    CASE e = "queryError" -> 400
      [] e = "noProject" -> 401
      [] e = "tooLarge" -> 422
      [] e = "canceled" -> 499
      [] e = "deadline" -> 503
      [] e = "unavailable" -> 502
      [] OTHER -> 500

\* The error of a context that has ended.
ContextError(ctx) == IF ctx = "canceled" THEN "canceled" ELSE "deadline"

\* A backend's response: whether its body is an envelope, and what it says.
Response == [status : {200, 400, 422, 500, 503}, envelope : BOOLEAN,
             says : {"data", "noData", "error", "timeout"}]

\* decode: "data", or the error of a response that is not trusted.
decode(resp) ==
    CASE resp.envelope /\ resp.status \in {422, 503} /\ resp.says = "timeout" -> "deadline"
      [] resp.envelope /\ resp.status = 200 /\ resp.says = "data" -> "data"
      [] resp.envelope /\ resp.status \in {400, 422} /\ resp.says \in {"error", "timeout"}
           /\ ~(resp.status = 422 /\ resp.says = "timeout") -> "queryError"
      [] OTHER -> "unavailable"

\* Mutant: the error of a call is reported whatever became of its context.
AfterCallBlindly(outcome, ctx) == outcome

\* do: a call that fails after its context ended failed for that reason.
AfterCall(outcome, ctx) ==
    IF ctx # "live" /\ outcome \notin {"data", "tooLarge", "other"}
    THEN ContextError(ctx) ELSE outcome
=============================================================================
