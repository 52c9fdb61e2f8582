-------------------------- MODULE QueryServerProofs --------------------------
(***************************************************************************)
(* Proofs about QueryServer, for any paths, callers, forms and records and *)
(* any number of requests: what runs is what was reviewed, a 200 is whole, *)
(* an error blames who caused it, no store is asked for more than it may,  *)
(* storage is closed last, and what is seen can be searched for.  The      *)
(* parts are about the table of routes, a request (which no other request  *)
(* changes), the drain, labels, and bounds.                                *)
(***************************************************************************)
EXTENDS QueryServer, FiniteSetTheorems, WellFoundedInduction, TLAPS

\* A route by the length and the last segment of its pattern.
Ends(rt, handler, length, last, kind, verb) ==
    /\ rt.handler = handler
    /\ Len(rt.path) = length
    /\ rt.path[length] = last
    /\ rt.permission = <<kind, verb>>

\* How the patterns of the log routes end.
LEMMA LogRouteEnds ==
    ASSUME NEW s, NEW verb, NEW handler
    PROVE  Ends(LogRoute(<<s>>, verb, handler), handler, 8, s, "logs", verb)
BY DEF Ends, LogRoute, Route, APIPrefix, GroupPrefix, Loki, APIVersion

\* How the patterns of the metric routes end.
LEMMA MetricRouteEnds ==
    ASSUME NEW method, NEW s, NEW verb, NEW handler
    PROVE  Ends(MetricRoute(method, <<s>>, verb, handler), handler, 7, s, "metrics", verb)
BY DEF Ends, MetricRoute, Route, APIPrefix, GroupPrefix, Loki, APIVersion

\* How the pattern for the values of a log label ends.
LEMMA LogValuesRouteEnds ==
    ASSUME NEW a, NEW b, NEW c, NEW verb, NEW handler
    PROVE  Ends(LogRoute(<<a, b, c>>, verb, handler), handler, 10, c, "logs", verb)
BY DEF Ends, LogRoute, Route, APIPrefix, GroupPrefix, Loki, APIVersion

\* How the pattern for the values of a metric label ends.
LEMMA MetricValuesRouteEnds ==
    ASSUME NEW method, NEW a, NEW b, NEW c, NEW verb, NEW handler
    PROVE  Ends(MetricRoute(method, <<a, b, c>>, verb, handler),
                handler, 9, c, "metrics", verb)
BY DEF Ends, MetricRoute, Route, APIPrefix, GroupPrefix, APIVersion

\* The table of newRouter by the ends of its patterns.
LEMMA RouteTable ==
    ASSUME NEW rt \in Routes
    PROVE  \/ Ends(rt, "lokiQuery", 8, "query", "logs", "query")
           \/ Ends(rt, "lokiQueryRange", 8, "query_range", "logs", "query")
           \/ Ends(rt, "lokiLabelNames", 8, "labels", "logs", "getLabels")
           \/ Ends(rt, "lokiLabelValues", 10, "values", "logs", "getLabels")
           \/ Ends(rt, "lokiSeries", 8, "series", "logs", "getSeries")
           \/ Ends(rt, "promQuery", 7, "query", "metrics", "query")
           \/ Ends(rt, "promQueryRange", 7, "query_range", "metrics", "query")
           \/ Ends(rt, "promLabelNames", 7, "labels", "metrics", "getLabels")
           \/ Ends(rt, "promLabelValues", 9, "values", "metrics", "getLabels")
           \/ Ends(rt, "promSeries", 7, "series", "metrics", "getSeries")
BY LogRouteEnds, MetricRouteEnds, LogValuesRouteEnds,
   MetricValuesRouteEnds, Zenon DEF Routes

\* No handler is named twice, and no path matches two routes' patterns.
LEMMA HandlerHasOnePermission ==
    ASSUME NEW rt \in Routes, NEW other \in Routes, other.handler = rt.handler
    PROVE  other.permission = rt.permission
BY RouteTable, SMTT(60) DEF Ends

\* The last segment of every pattern is literal.
LEMMA LastSegment ==
    ASSUME NEW rt \in Routes
    PROVE  /\ rt.handler # ""
           /\ \E n \in 7..10 : Len(rt.path) = n /\ rt.path[n] # "{name}"
<1>1. ASSUME NEW handler, NEW n \in 7..10, NEW last, NEW kind, NEW verb,
             Ends(rt, handler, n, last, kind, verb), handler # "", last # "{name}"
      PROVE  /\ rt.handler # ""
             /\ \E k \in 7..10 : Len(rt.path) = k /\ rt.path[k] # "{name}"
  BY <1>1, Zenon DEF Ends
<1>2. {7, 8, 9, 10} \subseteq 7..10
  OBVIOUS
<1> QED
  BY <1>1, <1>2, RouteTable

\* Routes whose patterns have the same length and last segment ask for the
\* same permission.
LEMMA SameEndsSamePermission ==
    ASSUME NEW rt \in Routes, NEW other \in Routes, NEW n,
           Len(rt.path) = n, Len(other.path) = n, rt.path[n] = other.path[n]
    PROVE  other.permission = rt.permission
BY RouteTable, SMTT(60) DEF Ends

\* Routes that match one path ask for one permission.
LEMMA PathHasOnePermission ==
    ASSUME NEW method, NEW path,
           NEW rt \in Matched(method, path), NEW other \in Matched(method, path)
    PROVE  other.permission = rt.permission
<1> DEFINE clean == Clean(path)
<1>1. /\ rt \in Routes /\ other \in Routes
      /\ Len(clean) = Len(rt.path) /\ Len(clean) = Len(other.path)
      /\ \A i \in 1..Len(clean) : rt.path[i] \in {clean[i], "{name}"}
      /\ \A i \in 1..Len(clean) : other.path[i] \in {clean[i], "{name}"}
  BY DEF Matched, MatchesPattern
<1> HIDE DEF clean
<1>2. PICK n \in 7..10 : Len(rt.path) = n /\ rt.path[n] # "{name}"
  BY <1>1, LastSegment
<1>3. other.path[n] # "{name}"
  BY <1>1, <1>2, LastSegment
<1>4. n \in 1..Len(clean)
  <2>1. Len(clean) = n
    BY <1>1, <1>2
  <2>2. n \in 1..n
    OBVIOUS
  <2> QED
    BY <2>1, <2>2
<1>5. rt.path[n] = clean[n] /\ other.path[n] = clean[n]
  BY <1>1, <1>2, <1>3, <1>4
<1> QED
  BY <1>1, <1>2, <1>5, SameEndsSamePermission

\* Every handler has a name.
LEMMA NoEmptyHandler == "" \notin LogHandlers
BY LastSegment DEF LogHandlers
-----------------------------------------------------------------------------
IsRequest(q) ==
    DOMAIN q = {"pc", "method", "path", "caller", "reviewed", "project", "handler",
                "form", "ctx", "next", "wanted", "got", "status"}

\* A status is given once, after which the context's fate is not looked at.
Named(q) ==
    /\ q.ctx \in {"live", "canceled", "expired"}
    /\ q.pc # "answered" => q.status = 0
    /\ q.status = 499 => q.ctx = "canceled"
    /\ q.status = 503 => q.ctx # "canceled"
    /\ q.status = 502 => q.ctx = "live"

AsReviewed(handler, reviewed, caller, project) ==
    /\ reviewed = {PermissionOf(handler)}
    /\ caller.parentType = "Project"
    /\ project = {caller.parentName}

\* The review is of the request that is dispatched afterwards.
Reviewed(q) ==
    /\ q.pc \in {"idle", "review", "serve"} => q.handler = ""
    /\ q.pc = "serve" => q.reviewed = RequestedPermissions(q.method, q.path)
    /\ q.handler # "" => AsReviewed(q.handler, q.reviewed, q.caller, q.project)

IsWhole(q) ==
    /\ q.got = q.wanted
    /\ q.handler = "lokiSeries" =>
         /\ q.next = Len(q.form.selectors)
         /\ \A i \in 1..Len(q.form.selectors) : Parses(q.form, i)

\* The selectors before the one at hand were parsed.
Whole(q) ==
    /\ q.pc \in {"review", "serve", "handle"} => q.form = NoForm /\ q.next = 1
    /\ q.pc = "call" => q.handler \notin LogHandlers
    /\ q.pc \in {"query", "read"} =>
         /\ q.form \in Forms
         /\ q.next \in Nat \ {0}
         /\ \A i \in 1..(q.next - 1) : Parses(q.form, i)
    /\ q.pc = "read" /\ q.handler = "lokiSeries" => Parses(q.form, q.next)
    /\ q.status = 200 /\ q.handler \in LogHandlers /\ q.form # NoForm => IsWhole(q)

ReqInv(q) == IsRequest(q) /\ Named(q) /\ Reviewed(q) /\ Whole(q)

IInv == DOMAIN req = Requests /\ \A r \in Requests : ReqInv(req[r])

\* A request without a status blames nobody.
LEMMA UnansweredIsNamed ==
    ASSUME NEW q, q.status = 0, q.ctx \in {"live", "canceled", "expired"}
    PROVE  Named(q)
<1>1. 0 # 499 /\ 0 # 503 /\ 0 # 502
  OBVIOUS
<1> QED
  BY <1>1, Zenon DEF Named

\* A slot without a request satisfies the invariant.
LEMMA NoRequestInv == ReqInv(NoRequest)
<1>1. IsRequest(NoRequest)
  BY DEF IsRequest, NoRequest
<1>2. /\ NoRequest.pc = "idle" /\ NoRequest.ctx = "live" /\ NoRequest.status = 0
      /\ NoRequest.handler = "" /\ NoRequest.form = NoForm /\ NoRequest.next = 1
  BY DEF NoRequest
<1>3. Named(NoRequest)
  BY <1>2, UnansweredIsNamed
<1>4. Reviewed(NoRequest)
  BY <1>2, Zenon DEF Reviewed
<1>5. Whole(NoRequest)
  BY <1>2, Zenon DEF Whole
<1> QED
  BY <1>1, <1>3, <1>4, <1>5 DEF ReqInv

\* A step that sets a request leaves the others alone.
LEMMA SetKeepsIInv ==
    ASSUME IInv, NEW r \in Requests, NEW new, ReqInv(new), Set(r, new)
    PROVE  IInv'
<1>1. req' = [req EXCEPT ![r] = new]
  BY DEF Set
<1>2. DOMAIN req' = Requests
  BY <1>1 DEF IInv
<1>3. ASSUME NEW k \in Requests PROVE req'[k] = IF k = r THEN new ELSE req[k]
  BY <1>1 DEF IInv
<1>4. ASSUME NEW k \in Requests PROVE ReqInv(req'[k])
  BY <1>3, <1>4 DEF IInv
<1> QED
  BY <1>2, <1>4 DEF IInv, ReqInv, IsRequest, Named, Reviewed, AsReviewed, Whole, IsWhole

\* An answer keeps the invariant if its status is right.
LEMMA AnswerKeepsIInv ==
    ASSUME IInv, NEW r \in Requests, NEW status, Answer(r, status),
           status = 499 => req[r].ctx = "canceled",
           status = 503 => req[r].ctx # "canceled",
           status = 502 => req[r].ctx = "live",
           status = 200 /\ req[r].handler \in LogHandlers /\ req[r].form # NoForm =>
             IsWhole(req[r])
    PROVE  IInv'
<1> DEFINE q == req[r]
           a == [q EXCEPT !.pc = "answered", !.status = status]
<1>1. IsRequest(q) /\ Named(q) /\ Reviewed(q)
  BY DEF IInv, ReqInv
<1>2. Set(r, a)
  BY DEF Answer
<1>3. /\ IsRequest(a)
      /\ a.pc = "answered" /\ a.status = status
      /\ a.ctx = q.ctx /\ a.handler = q.handler /\ a.reviewed = q.reviewed
      /\ a.caller = q.caller /\ a.project = q.project /\ a.form = q.form
      /\ a.next = q.next /\ a.wanted = q.wanted /\ a.got = q.got
  BY <1>1 DEF IsRequest
<1>4. IsWhole(q) => IsWhole(a)
  BY <1>3, Zenon DEF IsWhole
<1>5. status = 200 /\ q.handler \in LogHandlers /\ q.form # NoForm => IsWhole(q)
  OBVIOUS
<1>6. /\ status = 499 => q.ctx = "canceled"
      /\ status = 503 => q.ctx # "canceled"
      /\ status = 502 => q.ctx = "live"
  OBVIOUS
<1> HIDE DEF a, q
<1>7. Named(a)
  BY <1>1, <1>3, <1>6 DEF Named
<1>8. Reviewed(a)
  <2>1. a.pc \notin {"idle", "review", "serve"}
    BY <1>3
  <2>2. a.handler # "" => AsReviewed(a.handler, a.reviewed, a.caller, a.project)
    BY <1>1, <1>3, Zenon DEF Reviewed
  <2> QED
    BY <2>1, <2>2, Zenon DEF Reviewed
<1>9. Whole(a)
  <2>1. a.pc \notin {"review", "serve", "handle", "call", "query", "read"}
    BY <1>3
  <2>2. a.status = 200 /\ a.handler \in LogHandlers /\ a.form # NoForm => IsWhole(a)
    BY <1>3, <1>4, <1>5
  <2> QED
    BY <2>1, <2>2 DEF Whole
<1> QED
  BY <1>2, <1>3, <1>7, <1>8, <1>9, SetKeepsIInv DEF ReqInv

-----------------------------------------------------------------------------
\* A request that arrives has not been reviewed and runs nothing.
LEMMA ArriveKeepsIInv ==
    ASSUME IInv, NEW r \in Requests, NEW method, NEW path, NEW caller,
           Arrive(r, method, path, caller)
    PROVE  IInv'
<1> DEFINE new == [NoRequest EXCEPT !.pc = "review", !.method = method,
                                    !.path = canonicalPath(path), !.caller = caller]
<1>1. Set(r, new)
  BY DEF Arrive
<1>2. /\ IsRequest(new) /\ new.pc = "review" /\ new.ctx = "live" /\ new.status = 0
      /\ new.handler = "" /\ new.form = NoForm /\ new.next = 1
  BY DEF NoRequest, IsRequest
<1> HIDE DEF new
<1>3. Named(new)
  BY <1>2, UnansweredIsNamed
<1>4. Reviewed(new)
  BY <1>2 DEF Reviewed
<1>5. Whole(new)
  BY <1>2, NoEmptyHandler DEF Whole
<1> QED
  BY <1>1, <1>2, <1>3, <1>4, <1>5, SetKeepsIInv DEF ReqInv

\* What the review allows is recorded with the request.
LEMMA ReviewAllowsKeepsIInv ==
    ASSUME IInv, NEW r \in Requests, ReviewAllows(r)
    PROVE  IInv'
<1> DEFINE q == req[r]
           new == [q EXCEPT !.pc = "serve",
                            !.reviewed = RequestedPermissions(q.method, q.path)]
<1>1. ReqInv(q) /\ q.pc = "review" /\ Set(r, new)
  BY DEF IInv, ReviewAllows
<1>2. /\ IsRequest(new) /\ new.pc = "serve"
      /\ new.reviewed = RequestedPermissions(q.method, q.path)
      /\ new.method = q.method /\ new.path = q.path /\ new.ctx = q.ctx
      /\ new.status = q.status /\ new.handler = q.handler /\ new.form = q.form
      /\ new.next = q.next
  BY <1>1 DEF ReqInv, IsRequest
<1> HIDE DEF new, q
<1>3. Named(new)
  BY <1>1, <1>2, UnansweredIsNamed DEF ReqInv, Named
<1>4. Reviewed(new)
  BY <1>1, <1>2 DEF ReqInv, Reviewed
<1>5. Whole(new)
  BY <1>1, <1>2, <1>4, NoEmptyHandler DEF ReqInv, Whole, Reviewed
<1> QED
  BY <1>1, <1>2, <1>3, <1>4, <1>5, SetKeepsIInv DEF ReqInv

\* A filter that answers does so before a handler has read the form.
LEMMA FilterAnswersKeepIInv ==
    ASSUME IInv, NEW r \in Requests, req[r].pc \in {"review", "serve"},
           NEW status \in {200, 301, 403, 404, 500}, Answer(r, status)
    PROVE  IInv'
<1>1. req[r].form = NoForm
  BY DEF IInv, ReqInv, Whole
<1>2. status # 499 /\ status # 502 /\ status # 503
  OBVIOUS
<1> QED
  BY <1>1, <1>2, AnswerKeepsIInv

\* The tenants' paths lie under the group.
LEMMA PrefixUnderGroup ==
    ASSUME NEW path, IsTenantPath(path)
    PROVE  UnderGroup(path)
BY DEF IsTenantPath, UnderGroup, APIPrefix, GroupPrefix, APIVersion, IsPrefix

\* The route that is dispatched to is the one whose permission was reviewed.
LEMMA DispatchedAsReviewed ==
    ASSUME NEW method, NEW path, IsTenantPath(path), NEW rt \in Matched(method, path)
    PROVE  /\ rt.handler # ""
           /\ RequestedPermissions(method, path) = {PermissionOf(rt.handler)}
<1>1. rt \in Routes
  BY DEF Matched
<1>2. PermissionOf(rt.handler) = rt.permission
  BY <1>1, HandlerHasOnePermission DEF PermissionOf
<1>3. {x.permission : x \in Matched(method, path)} = {rt.permission}
  BY PathHasOnePermission
<1> QED
  BY <1>1, <1>2, <1>3, LastSegment, PrefixUnderGroup DEF RequestedPermissions

\* What is dispatched is what was reviewed.
LEMMA DispatchKeepsIInv ==
    ASSUME IInv, NEW r \in Requests, Dispatch(r)
    PROVE  IInv'
<1> DEFINE q == req[r]
<1>1. ReqInv(q) /\ q.pc = "serve" /\ IsTenantPath(q.path) /\ Scoped(r)
  BY Zenon DEF IInv, Dispatch
<1>2. CASE Answer(r, 301)
  BY <1>1, <1>2, FilterAnswersKeepIInv
<1>3. CASE ~Answer(r, 301)
  <2> DEFINE new(rt) == [q EXCEPT !.pc = "handle", !.handler = rt.handler,
                           !.project = Resolve(q.caller, Projects),
                           !.path = <<>>, !.method = ""]
  <2>1. PICK rt \in Matched(q.method, q.path) : Set(r, new(rt))
    BY <1>3, Zenon DEF Dispatch
  <2>2. /\ IsRequest(new(rt)) /\ new(rt).pc = "handle" /\ new(rt).handler = rt.handler
        /\ new(rt).project = Resolve(q.caller, Projects)
        /\ new(rt).reviewed = q.reviewed /\ new(rt).caller = q.caller
        /\ new(rt).ctx = q.ctx /\ new(rt).status = q.status
        /\ new(rt).form = q.form /\ new(rt).next = q.next
    BY <1>1 DEF ReqInv, IsRequest
  <2>3. q.reviewed = {PermissionOf(rt.handler)}
    <3>1. q.reviewed = RequestedPermissions(q.method, q.path)
      BY <1>1 DEF ReqInv, Reviewed
    <3>2. RequestedPermissions(q.method, q.path) = {PermissionOf(rt.handler)}
      BY <1>1, DispatchedAsReviewed
    <3> QED
      BY <3>1, <3>2
  <2>4. /\ q.caller.parentType = "Project"
        /\ Resolve(q.caller, Projects) = {q.caller.parentName}
    BY <1>1 DEF Scoped, Resolve
  <2>5. AsReviewed(rt.handler, q.reviewed, q.caller, Resolve(q.caller, Projects))
    BY <2>3, <2>4, Zenon DEF AsReviewed
  <2> HIDE DEF new, q
  <2>6. Named(new(rt))
    BY <1>1, <2>2, UnansweredIsNamed DEF ReqInv, Named
  <2>7. Reviewed(new(rt))
    BY <2>2, <2>5 DEF Reviewed
  <2>8. Whole(new(rt))
    BY <1>1, <2>2 DEF ReqInv, Whole
  <2> QED
    BY <2>1, <2>2, <2>6, <2>7, <2>8, SetKeepsIInv DEF ReqInv
<1> QED
  BY <1>2, <1>3
-----------------------------------------------------------------------------
\* A handler starts with the first selector.
LEMMA HandleKeepsIInv ==
    ASSUME IInv, NEW r \in Requests, NEW f \in Forms, Handle(r, f)
    PROVE  IInv'
<1> DEFINE q == req[r]
           pc == IF q.handler \in LogHandlers THEN "query" ELSE "call"
           new == [q EXCEPT !.form = f, !.pc = pc]
<1>1. ReqInv(q) /\ q.pc = "handle"
  BY DEF IInv, Handle
<1>2. q.form = NoForm /\ q.next = 1 /\ q.status = 0
  BY <1>1 DEF ReqInv, Whole, Named
<1>3. Answer(r, 200) \/ Answer(r, 400) \/ Set(r, new)
  BY DEF Handle
<1>4. CASE Answer(r, 200) \/ Answer(r, 400)
  <2>1. PICK status \in {200, 400} : Answer(r, status)
    BY <1>4
  <2>2. status # 499 /\ status # 502 /\ status # 503
    OBVIOUS
  <2> QED
    BY <1>2, <2>1, <2>2, AnswerKeepsIInv
<1>5. CASE Set(r, new)
  <2>1. /\ IsRequest(new) /\ new.pc = pc /\ new.form = f
        /\ new.handler = q.handler /\ new.reviewed = q.reviewed
        /\ new.caller = q.caller /\ new.project = q.project
        /\ new.ctx = q.ctx /\ new.status = q.status /\ new.next = q.next
    BY <1>1 DEF ReqInv, IsRequest
  <2>2. pc \in {"query", "call"} /\ (pc = "call" => q.handler \notin LogHandlers)
    OBVIOUS
  <2> HIDE DEF new, q, pc
  <2>3. Named(new)
    BY <1>1, <1>2, <2>1, UnansweredIsNamed DEF ReqInv, Named
  <2>4. q.handler # "" => AsReviewed(q.handler, q.reviewed, q.caller, q.project)
    BY <1>1 DEF ReqInv, Reviewed
  <2>5. Reviewed(new)
    BY <2>1, <2>2, <2>4 DEF Reviewed
  <2>6. Whole(new)
    BY <1>2, <2>1, <2>2 DEF Whole
  <2> QED
    BY <1>5, <2>1, <2>3, <2>5, <2>6, SetKeepsIInv DEF ReqInv
<1> QED
  BY <1>3, <1>4, <1>5

\* The client leaves or the deadline passes before the request is answered.
LEMMA ContextEndKeepsIInv ==
    ASSUME IInv, NEW r \in Requests, req[r].pc \in {"handle", "query", "read", "call"},
           NEW ctx \in {"canceled", "expired"}, Set(r, [req[r] EXCEPT !.ctx = ctx])
    PROVE  IInv'
<1> DEFINE q == req[r]
           new == [q EXCEPT !.ctx = ctx]
<1>1. ReqInv(q) /\ q.pc \in {"handle", "query", "read", "call"} /\ Set(r, new)
  BY DEF IInv
<1>2. /\ IsRequest(new) /\ new.pc = q.pc /\ new.form = q.form /\ new.ctx = ctx
      /\ new.handler = q.handler /\ new.reviewed = q.reviewed
      /\ new.caller = q.caller /\ new.project = q.project
      /\ new.status = q.status /\ new.next = q.next
  BY <1>1 DEF ReqInv, IsRequest
<1>3. q.status = 0
  BY <1>1 DEF ReqInv, Named
<1> HIDE DEF new, q
<1>4. Named(new)
  BY <1>2, <1>3, UnansweredIsNamed
<1>5. q.handler # "" => AsReviewed(q.handler, q.reviewed, q.caller, q.project)
  BY <1>1 DEF ReqInv, Reviewed
<1>6. Reviewed(new)
  BY <1>1, <1>2, <1>5 DEF Reviewed
<1>7. Whole(new)
  BY <1>1, <1>2, <1>3 DEF ReqInv, Whole
<1> QED
  BY <1>1, <1>2, <1>4, <1>6, <1>7, SetKeepsIInv DEF ReqInv

\* A step of the log store that reads on, or goes on to the next selector.
GoesOn(q, new) ==
    /\ IsRequest(new)
    /\ new.pc \in {"query", "read"}
    /\ new.form = q.form /\ new.ctx = q.ctx /\ new.handler = q.handler
    /\ new.reviewed = q.reviewed /\ new.caller = q.caller
    /\ new.project = q.project /\ new.status = q.status

\* A log request that goes on has parsed the selectors before.
LEMMA StoreGoesOnKeepsIInv ==
    ASSUME IInv, NEW r \in Requests, NEW new, req[r].pc \in {"query", "read"},
           Set(r, new), GoesOn(req[r], new),
           new.next \in Nat \ {0},
           \A i \in 1..(new.next - 1) : Parses(req[r].form, i),
           new.pc = "read" /\ req[r].handler = "lokiSeries" =>
             Parses(req[r].form, new.next)
    PROVE  IInv'
<1> DEFINE q == req[r]
<1>1. ReqInv(q) /\ q.pc \in {"query", "read"} /\ GoesOn(q, new)
  BY DEF IInv
<1>2. q.status = 0 /\ q.form \in Forms
  BY <1>1 DEF ReqInv, Named, Whole
<1>3. /\ \A i \in 1..(new.next - 1) : Parses(q.form, i)
      /\ new.pc = "read" /\ q.handler = "lokiSeries" => Parses(q.form, new.next)
  OBVIOUS
<1> HIDE DEF q
<1>4. Named(new)
  BY <1>1, <1>2, UnansweredIsNamed DEF ReqInv, Named, GoesOn
<1>5. q.handler # "" => AsReviewed(q.handler, q.reviewed, q.caller, q.project)
  BY <1>1 DEF ReqInv, Reviewed
<1>6. Reviewed(new)
  BY <1>1, <1>5 DEF Reviewed, GoesOn
<1>7. Whole(new)
  BY <1>1, <1>2, <1>3 DEF Whole, GoesOn
<1> QED
  BY <1>1, <1>4, <1>6, <1>7, SetKeepsIInv DEF ReqInv, GoesOn

\* A store's error becomes the status of who caused it.
LEMMA LogErrorIsNamed ==
    ASSUME NEW r \in Requests, req[r].ctx \in {"live", "canceled", "expired"},
           NEW e \in LogStoreErrors(r)
    PROVE  /\ writeStorageError(e) = 499 => req[r].ctx = "canceled"
           /\ writeStorageError(e) \notin {502, 503}
           /\ writeStorageError(e) # 200
<1>1. \/ e \in {"noProject", "other", "deadline"}
      \/ req[r].ctx # "live" /\ e = ContextError(req[r].ctx)
  BY DEF LogStoreErrors
<1>2. CASE e \in {"noProject", "other", "deadline"}
  BY <1>2 DEF writeStorageError
<1>3. CASE req[r].ctx # "live" /\ e = ContextError(req[r].ctx)
  BY <1>3 DEF writeStorageError, ContextError
<1> QED
  BY <1>1, <1>2, <1>3

\* The error of a log store is answered truly.
LEMMA LogErrorKeepsIInv ==
    ASSUME IInv, NEW r \in Requests, NEW e \in LogStoreErrors(r),
           Answer(r, writeStorageError(e))
    PROVE  IInv'
<1>1. req[r].ctx \in {"live", "canceled", "expired"}
  BY DEF IInv, ReqInv, Named
<1> QED
  BY <1>1, LogErrorIsNamed, AnswerKeepsIInv

\* The outcome of a metric call is answered truly.
LEMMA MetricCallReturnsKeepsIInv ==
    ASSUME IInv, NEW r \in Requests, MetricCallReturns(r)
    PROVE  IInv'
<1>1. /\ req[r].ctx \in {"live", "canceled", "expired"}
      /\ req[r].handler \notin LogHandlers
  BY DEF IInv, ReqInv, Named, Whole, MetricCallReturns
<1>2. PICK result \in CallOutcomes(r) :
         Answer(r, IF result = "data" THEN 200 ELSE writePromStorageError(result))
  BY DEF MetricCallReturns
<1> DEFINE status == IF result = "data" THEN 200 ELSE writePromStorageError(result)
<1>3. \A resp \in Response : decode(resp) \in {"deadline", "data", "queryError", "unavailable"}
  BY DEF decode
<1>4. \/ result = "noProject"
      \/ \E outcome \in {"unavailable", "tooLarge", "other", "deadline", "data", "queryError"} :
            result = AfterCall(outcome, req[r].ctx)
  BY <1>2, <1>3 DEF CallOutcomes
<1>5. /\ result = "canceled" => req[r].ctx = "canceled"
      /\ result = "deadline" => req[r].ctx # "canceled"
      /\ result = "unavailable" => req[r].ctx = "live"
  BY <1>1, <1>4 DEF AfterCall, ContextError
<1>6. /\ status = 499 => result = "canceled"
      /\ status = 502 => result = "unavailable"
      /\ status = 503 => result = "deadline"
  BY DEF writePromStorageError
<1> HIDE DEF status
<1>7. Answer(r, status)
  BY <1>2 DEF status
<1> QED
  BY <1>1, <1>5, <1>6, <1>7, AnswerKeepsIInv

\* A result was found for a selector that parses.
LEMMA QueryReturnsKeepsIInv ==
    ASSUME IInv, NEW r \in Requests, QueryReturns(r)
    PROVE  IInv'
<1> DEFINE q == req[r]
<1>1. ReqInv(q) /\ q.pc = "query" /\ (q.handler = "lokiSeries" => Parses(q.form, q.next))
  BY DEF IInv, QueryReturns, Sendable
<1>2. PICK result \in Results(r) :
         Set(r, [q EXCEPT !.pc = "read", !.wanted = q.wanted \cup result])
  BY Zenon DEF QueryReturns
<1> DEFINE new == [q EXCEPT !.pc = "read", !.wanted = q.wanted \cup result]
<1>3. GoesOn(q, new) /\ new.pc = "read" /\ new.next = q.next
  BY <1>1 DEF ReqInv, IsRequest, GoesOn
<1>4. q.next \in Nat \ {0} /\ \A i \in 1..(q.next - 1) : Parses(q.form, i)
  BY <1>1 DEF ReqInv, Whole
<1>5. Set(r, new)
  BY <1>2
<1> HIDE DEF new
<1> QED
  BY <1>1, <1>3, <1>4, <1>5, StoreGoesOnKeepsIInv

\* Reading on changes nothing else.
LEMMA ReadNextKeepsIInv ==
    ASSUME IInv, NEW r \in Requests, ReadNext(r)
    PROVE  IInv'
<1> DEFINE q == req[r]
<1>1. ReqInv(q) /\ q.pc = "read"
  BY DEF IInv, ReadNext
<1>2. PICK x \in q.wanted \ q.got : Set(r, [q EXCEPT !.got = q.got \cup {x}])
  BY DEF ReadNext
<1> DEFINE new == [q EXCEPT !.got = q.got \cup {x}]
<1>3. GoesOn(q, new) /\ new.pc = "read" /\ new.next = q.next
  BY <1>1 DEF ReqInv, IsRequest, GoesOn
<1>4. /\ q.next \in Nat \ {0} /\ \A i \in 1..(q.next - 1) : Parses(q.form, i)
      /\ q.handler = "lokiSeries" => Parses(q.form, q.next)
  BY <1>1 DEF ReqInv, Whole
<1>5. Set(r, new)
  BY <1>2
<1> HIDE DEF new
<1> QED
  BY <1>1, <1>3, <1>4, <1>5, StoreGoesOnKeepsIInv

\* The result of the last selector ends the request, that of an earlier one
\* does not.
LEMMA ReadEndsKeepsIInv ==
    ASSUME IInv, NEW r \in Requests, ReadEnds(r)
    PROVE  IInv'
<1> DEFINE q == req[r]
<1>1. ReqInv(q) /\ q.pc = "read" /\ q.got = q.wanted
  BY DEF IInv, ReadEnds
<1>2. /\ q.form \in Forms
      /\ q.next \in Nat \ {0} /\ \A i \in 1..(q.next - 1) : Parses(q.form, i)
      /\ q.handler = "lokiSeries" => Parses(q.form, q.next)
  BY <1>1 DEF ReqInv, Whole
<1>3. CASE q.handler = "lokiSeries" /\ q.next < Len(q.form.selectors)
  <2> DEFINE new == [q EXCEPT !.pc = "query", !.next = q.next + 1]
  <2>1. Set(r, new)
    BY <1>3 DEF ReadEnds
  <2>2. GoesOn(q, new) /\ new.pc = "query" /\ new.next = q.next + 1
    BY <1>1 DEF ReqInv, IsRequest, GoesOn
  <2>3. \A i \in 1..((q.next + 1) - 1) : Parses(q.form, i)
    BY <1>2, <1>3
  <2>4. q.next + 1 \in Nat \ {0}
    BY <1>2
  <2> HIDE DEF new
  <2> QED
    BY <1>1, <2>1, <2>2, <2>3, <2>4, StoreGoesOnKeepsIInv
<1>4. CASE ~(q.handler = "lokiSeries" /\ q.next < Len(q.form.selectors))
  <2>1. Answer(r, 200)
    BY <1>4 DEF ReadEnds
  <2>2. ASSUME q.handler = "lokiSeries"
        PROVE  /\ q.next = Len(q.form.selectors)
               /\ \A i \in 1..Len(q.form.selectors) : Parses(q.form, i)
    <3>1. Len(q.form.selectors) \in Nat
      BY <1>2, FormsAssumption DEF IsForm
    <3>2. q.next \in 1..Len(q.form.selectors)
      BY <1>2, <2>2 DEF Parses
    <3>3. q.next = Len(q.form.selectors)
      BY <1>4, <2>2, <3>1, <3>2
    <3> QED
      BY <1>2, <2>2, <3>3
  <2>3. IsWhole(q)
    BY <1>1, <2>2 DEF IsWhole
  <2> QED
    BY <2>1, <2>3, AnswerKeepsIInv
<1> QED
  BY <1>3, <1>4

\* A step of a store keeps the invariant.
LEMMA StoreStepKeepsIInv ==
    ASSUME IInv, NEW r \in Requests, StoreStep(r)
    PROVE  IInv'
<1>1. CASE QueryRefused(r)
  <2>1. Answer(r, 400)
    BY <1>1 DEF QueryRefused
  <2> QED
    BY <2>1, AnswerKeepsIInv
<1>2. CASE QueryFails(r)
  BY <1>2, LogErrorKeepsIInv DEF QueryFails
<1>3. CASE QueryReturns(r)
  BY <1>3, QueryReturnsKeepsIInv
<1>4. CASE ReadNext(r)
  BY <1>4, ReadNextKeepsIInv
<1>5. CASE ReadFails(r)
  BY <1>5, LogErrorKeepsIInv DEF ReadFails, AfterReadError
<1>6. CASE ReadEnds(r)
  BY <1>6, ReadEndsKeepsIInv
<1>7. CASE MetricCallReturns(r)
  BY <1>7, MetricCallReturnsKeepsIInv
<1> QED
  BY <1>1, <1>2, <1>3, <1>4, <1>5, <1>6, <1>7 DEF StoreStep

\* A step of a filter keeps the invariant.
LEMMA FilterKeepsIInv ==
    ASSUME IInv, NEW r \in Requests, Filter(r)
    PROVE  IInv'
<1>1. CASE ReviewAllows(r)
  BY <1>1, ReviewAllowsKeepsIInv
<1>2. CASE Dispatch(r)
  BY <1>2, DispatchKeepsIInv
<1>3. CASE ReviewDenies(r) \/ ReviewFails(r) \/ ServeRuntime(r) \/ RefuseUnscoped(r)
  <2>1. /\ req[r].pc \in {"review", "serve"}
        /\ \E status \in {200, 301, 403, 404, 500} : Answer(r, status)
    BY <1>3 DEF ReviewDenies, ReviewFails, ServeRuntime, RefuseUnscoped
  <2> QED
    BY <2>1, FilterAnswersKeepIInv
<1> QED
  BY <1>1, <1>2, <1>3 DEF Filter

\* Every step keeps the invariant.
LEMMA IInvStep == ASSUME IInv, [Next]_vars PROVE IInv'
<1>1. ASSUME NEW r \in Requests, NEW method, NEW path, NEW caller,
             Arrive(r, method, path, caller)
      PROVE  IInv'
  BY <1>1, ArriveKeepsIInv
<1>2. ASSUME NEW r \in Requests, NEW f \in Forms, Handle(r, f) PROVE IInv'
  BY <1>2, HandleKeepsIInv
<1>3. ASSUME NEW r \in Requests, ClientLeaves(r) \/ DeadlinePasses(r) PROVE IInv'
  <2>1. /\ req[r].pc \in {"handle", "query", "read", "call"}
        /\ \E ctx \in {"canceled", "expired"} : Set(r, [req[r] EXCEPT !.ctx = ctx])
    BY <1>3 DEF ClientLeaves, DeadlinePasses, withTimeout
  <2> QED
    BY <1>3, <2>1, ContextEndKeepsIInv, Zenon
<1>4. ASSUME NEW r \in Requests, Filter(r) \/ StoreStep(r) PROVE IInv'
  BY <1>4, FilterKeepsIInv, StoreStepKeepsIInv
<1>5. ASSUME NEW r \in Requests, Finish(r) PROVE IInv'
  BY <1>5, NoRequestInv, SetKeepsIInv DEF Finish
<1>6. CASE Restart
  <2>1. DOMAIN req' = Requests /\ \A r \in Requests : req'[r] = NoRequest
    BY <1>6 DEF Restart
  <2>2. \A r \in Requests : ReqInv(req'[r])
    BY <2>1, NoRequestInv
  <2> QED
    BY <2>1, <2>2 DEF IInv, ReqInv, IsRequest, Named, Reviewed, AsReviewed, Whole, IsWhole
<1>7. CASE req' = req
  <2>1. DOMAIN req' = Requests /\ \A r \in Requests : ReqInv(req'[r])
    BY <1>7 DEF IInv
  <2> QED
    BY <2>1 DEF IInv, ReqInv, IsRequest, Named, Reviewed, AsReviewed, Whole, IsWhole
<1>8. ASSUME NEW x, Insert(x) PROVE req' = req
  BY <1>8 DEF Insert
<1>9. Signal \/ CloseStore \/ UNCHANGED vars => req' = req
  BY DEF Signal, CloseStore, vars
<1> QED
  BY <1>1, <1>2, <1>3, <1>4, <1>5, <1>6, <1>7, <1>8, <1>9 DEF Next

\* The invariant holds at first.
LEMMA InitIInv == Init => IInv
BY NoRequestInv DEF Init, IInv

\* The invariant holds.
LEMMA IInvHolds == Spec => []IInv
BY InitIInv, IInvStep, PTL DEF Spec
-----------------------------------------------------------------------------
\* Whatever form its path has, a request runs the handler whose permission was
\* reviewed, for the project of the caller that was reviewed (routes.go,
\* guard.go, middleware.go).
THEOREM RunsWhatWasReviewed == Spec => []RunsAsReviewed
<1>1. IInv => RunsAsReviewed
  BY DEF IInv, ReqInv, Reviewed, AsReviewed, RunsAsReviewed
<1> QED
  BY IInvHolds, <1>1, PTL

\* A 200 to a log request is the whole result for all of its selectors
\* (collectStreams, scanStrings, lokiSeries).
THEOREM SuccessIsWhole == Spec => []SuccessIsComplete
<1>1. IInv => SuccessIsComplete
  BY DEF IInv, ReqInv, Whole, IsWhole, SuccessIsComplete
<1> QED
  BY IInvHolds, <1>1, PTL

\* Statuses 499, 503 and 502 tell truly who ended the call (Store.do,
\* writeStorageError, writePromStorageError).
THEOREM ErrorBlamesItsCause == Spec => []FaultIsNamed
<1>1. IInv => FaultIsNamed
  BY DEF IInv, ReqInv, Named, FaultIsNamed
<1> QED
  BY IInvHolds, <1>1, PTL
-----------------------------------------------------------------------------
\* Nothing is under way once the storage is closed.
Drained == server = "closed" => \A r \in Requests : Waiting(r)

\* A step of a request that is under way leaves the server alone.
LEMMA UnderWay ==
    ASSUME NEW r, \/ Filter(r) \/ StoreStep(r) \/ ClientLeaves(r) \/ DeadlinePasses(r)
                  \/ \E f \in Forms : Handle(r, f)
    PROVE  ~Waiting(r) /\ UNCHANGED server
<1>1. ASSUME NEW new, Set(r, new) PROVE UNCHANGED server
  BY <1>1 DEF Set
<1>2. ASSUME NEW status, Answer(r, status) PROVE UNCHANGED server
  BY <1>1, <1>2 DEF Answer
<1>3. CASE Filter(r)
  <2>1. req[r].pc \in {"review", "serve"}
    BY <1>3, Zenon DEF Filter, ReviewDenies, ReviewFails, ReviewAllows, ServeRuntime, RefuseUnscoped,
                Dispatch
  <2>2. (\E status : Answer(r, status)) \/ \E new : Set(r, new)
    BY <1>3, Zenon DEF Filter, ReviewDenies, ReviewFails, ReviewAllows, ServeRuntime,
                       RefuseUnscoped, Dispatch
  <2> QED
    BY <1>1, <1>2, <2>1, <2>2 DEF Waiting
<1>4. CASE StoreStep(r)
  <2>1. req[r].pc \in {"query", "read", "call"}
    BY <1>4, Zenon DEF StoreStep, QueryRefused, QueryFails, QueryReturns, Sendable, ReadNext, ReadFails,
                ReadEnds, MetricCallReturns
  <2>2. (\E status : Answer(r, status)) \/ \E new : Set(r, new)
    BY <1>4, Zenon DEF StoreStep, QueryRefused, QueryFails, QueryReturns, ReadNext, ReadFails,
                       ReadEnds, MetricCallReturns
  <2> QED
    BY <1>1, <1>2, <2>1, <2>2 DEF Waiting
<1>5. CASE ClientLeaves(r) \/ DeadlinePasses(r)
  BY <1>1, <1>5 DEF ClientLeaves, DeadlinePasses, withTimeout, Waiting
<1>6. ASSUME NEW f, Handle(r, f) PROVE ~Waiting(r) /\ UNCHANGED server
  BY <1>1, <1>2, <1>6, Zenon DEF Handle, Waiting
<1> QED
  BY <1>3, <1>4, <1>5, <1>6

\* No request arrives at a server whose storage is closed, or goes on there.
LEMMA DrainedStep == ASSUME IInv, Drained, [Next]_vars PROVE Drained'
<1> SUFFICES ASSUME server' = "closed" PROVE \A r \in Requests : Waiting(r)'
  BY DEF Drained
<1>1. ASSUME NEW r \in Requests, NEW method, NEW path, NEW caller,
             Arrive(r, method, path, caller)
      PROVE  FALSE
  BY <1>1 DEF Arrive, Set
<1>2. ASSUME NEW r \in Requests,
             \/ Filter(r) \/ StoreStep(r) \/ ClientLeaves(r) \/ DeadlinePasses(r)
             \/ \E f \in Forms : Handle(r, f)
      PROVE  FALSE
  BY <1>2, UnderWay DEF Drained
<1>3. ASSUME NEW k \in Requests, Finish(k) PROVE \A r \in Requests : Waiting(r)'
  <2>1. server = "closed" /\ req' = [req EXCEPT ![k] = NoRequest] /\ DOMAIN req = Requests
    BY <1>3 DEF Finish, Set, IInv
  <2>2. \A r \in Requests : req'[r] = NoRequest \/ req'[r] = req[r]
    BY <2>1
  <2> QED
    BY <2>1, <2>2 DEF Drained, Waiting, NoRequest
<1>4. ASSUME CloseStore \/ UNCHANGED vars \/ \E x : Insert(x)
      PROVE  \A r \in Requests : Waiting(r)'
  BY <1>4 DEF CloseStore, Insert, vars, Drained, Waiting
<1>5. ~(Signal \/ Restart)
  BY DEF Signal, Restart
<1> QED
  BY <1>1, <1>2, <1>3, <1>4, <1>5 DEF Next

\* A log request never finds the storage closed (Run).
THEOREM StoreClosesLast == Spec => []StoreOutlivesCalls
<1>1. Init => Drained
  BY DEF Init, Drained
<1>2. Drained => StoreOutlivesCalls
  BY DEF Drained, StoreOutlivesCalls
<1> QED
  BY <1>1, <1>2, DrainedStep, IInvHolds, PTL DEF Spec
-----------------------------------------------------------------------------
(***************************************************************************)
(* Labels: what is seen is shown as it is matched.                         *)
(***************************************************************************)

\* A sanitized name stays as it is.
LEMMA SanitizedStays ==
    ASSUME NEW key
    PROVE  Sanitize(Sanitize(key)) = Sanitize(key)
BY DEF Sanitize

\* The Labels column of a record is finite.
LEMMA LabelsOfRecord ==
    ASSUME NEW x \in Records, NEW n
    PROVE  IsFiniteSet(At(x, n))
<1>1. x.log \in Seq(Attribute) /\ x.resource \in Seq(Attribute)
  BY RecordsAssumption DEF IsRecord
<1>2. DOMAIN (x.log \o x.resource) = 1..(Len(x.log) + Len(x.resource))
  BY <1>1
<1>3. DOMAIN Labels(x) = 1..(Len(x.log) + Len(x.resource))
  BY <1>2 DEF Labels
<1>4. ASSUME NEW k \in Int PROVE IsFiniteSet(1..k)
  <2>1. 1 \in Int
    OBVIOUS
  <2> QED
    BY <2>1, FS_Interval
<1>5. Len(x.log) + Len(x.resource) \in Int
  BY <1>1
<1>6. IsFiniteSet(DOMAIN Labels(x))
  BY <1>3, <1>4, <1>5, Zenon
<1> QED
  BY <1>6, FS_Subset DEF At

\* The name of an attribute is sanitized.
LEMMA LabelIsSanitized ==
    ASSUME NEW x, NEW i \in DOMAIN Labels(x)
    PROVE  Sanitize(Labels(x)[i].name) = Labels(x)[i].name
<1>1. Labels(x)[i].name = Sanitize((x.log \o x.resource)[i].key)
  BY DEF Labels
<1> QED
  BY <1>1, SanitizedStays, Zenon

\* A name that is in use is sanitized.
LEMMA UsedIsSanitized ==
    ASSUME NEW R, NEW n \in buildLabelNamesQuery(R)
    PROVE  Sanitize(n) = n
<1>1. PICK x \in R : n \in {Labels(x)[i].name : i \in DOMAIN Labels(x)}
  BY Zenon DEF buildLabelNamesQuery
<1> QED
  BY <1>1, LabelIsSanitized

\* The columns that a row shows, and the entries of Labels that it shows.
NamedColumns(x) == {c \in Columns : Column(x, c) # Empty}
ShownEntries(x) ==
    {i \in DOMAIN Labels(x) :
        /\ Labels(x)[i].value # Empty
        /\ Labels(x)[i].name \notin NamedColumns(x) \cup internalLogAttributes}

\* assembleLabels in these terms.
LEMMA AssembledLabels ==
    ASSUME NEW x
    PROVE  assembleLabels(x) =
             [n \in NamedColumns(x) \cup {Labels(x)[i].name : i \in ShownEntries(x)} |->
                IF n \in NamedColumns(x) THEN Column(x, n)
                ELSE Labels(x)[First(At(x, n) \cap ShownEntries(x))].value]
BY Zenon DEF assembleLabels, NamedColumns, ShownEntries

\* A promoted label is shown as its column.
LEMMA ColumnIsShown ==
    ASSUME NEW x, NEW n \in Columns, Column(x, n) # Empty
    PROVE  labelExpr(x, n) = Shown(x, n)
<1>1. n \in NamedColumns(x)
  BY DEF NamedColumns
<1>2. n \in DOMAIN assembleLabels(x) /\ assembleLabels(x)[n] = Column(x, n)
  BY <1>1, AssembledLabels, Zenon
<1>3. labelExpr(x, n) = Column(x, n)
  BY DEF labelExpr
<1> QED
  BY <1>2, <1>3 DEF Shown

\* A name that did not collide stands for one attribute.
LEMMA SoleAttribute ==
    ASSUME NEW x \in Records, NEW n, NEW i \in At(x, n), ~Collided(x, n)
    PROVE  At(x, n) = {i}
<1>1. IsFiniteSet(At(x, n)) /\ Cardinality(At(x, n)) \in Nat
  BY LabelsOfRecord, FS_CardinalityType
<1>2. IsFiniteSet({i}) /\ Cardinality({i}) = 1
  BY FS_Singleton, Zenon
<1>3. Cardinality(At(x, n)) <= 1
  BY <1>1 DEF Collided
<1>4. Cardinality({i}) <= Cardinality(At(x, n))
  BY <1>1, FS_Subset
<1> QED
  BY <1>1, <1>2, <1>3, <1>4, FS_Subset

\* The entries of the Labels column are numbered.
LEMMA PositionsAreNumbers ==
    ASSUME NEW x \in Records
    PROVE  DOMAIN Labels(x) \subseteq Nat
<1>1. x.log \in Seq(Attribute) /\ x.resource \in Seq(Attribute)
  BY RecordsAssumption DEF IsRecord
<1>2. DOMAIN (x.log \o x.resource) = 1..(Len(x.log) + Len(x.resource))
  BY <1>1
<1>3. DOMAIN Labels(x) = 1..(Len(x.log) + Len(x.resource))
  BY <1>2 DEF Labels
<1>4. Len(x.log) + Len(x.resource) \in Int
  BY <1>1
<1>5. \A k \in Int : 1..k \subseteq Nat
  OBVIOUS
<1> QED
  BY <1>3, <1>4, <1>5, Zenon

\* The order of positions as a relation.
Before == {ss \in Nat \X Nat : ss[1] < ss[2]}

\* The positions of a name are numbers, of which one is the first.
LEMMA FirstPosition ==
    ASSUME NEW x \in Records, NEW S, S \subseteq DOMAIN Labels(x), S # {}
    PROVE  /\ S \subseteq Nat
           /\ First(S) \in S /\ \A j \in S : First(S) <= j
<1>1. S \subseteq Nat
  BY PositionsAreNumbers, Zenon
<1>2. IsWellFoundedOn(Before, Nat)
  BY NatLessThanWellFounded, Zenon DEF Before, OpToRel
<1>3. \E i \in S : \A j \in S : i <= j
  <2>1. PICK i \in S : \A j \in S : ~(<<j, i>> \in Before)
    BY <1>1, <1>2, WFMin, Zenon
  <2>2. ASSUME NEW j \in S PROVE i <= j
    <3>1. i \in Nat /\ j \in Nat
      BY <1>1
    <3>2. j < i => <<j, i>> \in Before
      BY <3>1 DEF Before
    <3> QED
      BY <2>1, <3>1, <3>2
  <2> QED
    BY <2>2
<1> QED
  BY <1>1, <1>3, Zenon DEF First

\* Of two sets of positions the smaller has the same first one if it holds it.
LEMMA FirstOfSubset ==
    ASSUME NEW x \in Records, NEW S, NEW T, S \subseteq DOMAIN Labels(x),
           T \subseteq S, First(S) \in T
    PROVE  First(T) = First(S)
<1>1. S # {} /\ T # {} /\ T \subseteq DOMAIN Labels(x)
  OBVIOUS
<1>2. /\ S \subseteq Nat /\ First(S) \in S /\ \A j \in S : First(S) <= j
      /\ First(T) \in T /\ \A j \in T : First(T) <= j
  BY <1>1, FirstPosition
<1>3. First(S) \in Nat /\ First(T) \in Nat /\ First(S) <= First(T) /\ First(T) <= First(S)
  BY <1>2, Zenon
<1> QED
  BY <1>3

\* A promoted label whose column is empty is not shown, if no attribute has its
\* name.
LEMMA EmptyColumnIsNotShown ==
    ASSUME NEW x, NEW n \in Columns, Column(x, n) = Empty, At(x, n) = {}
    PROVE  labelExpr(x, n) = Shown(x, n)
<1>1. n \notin NamedColumns(x)
  BY DEF NamedColumns
<1>2. n \notin {Labels(x)[i].name : i \in ShownEntries(x)}
  BY DEF At, ShownEntries
<1>3. n \notin DOMAIN assembleLabels(x)
  BY <1>1, <1>2, AssembledLabels, Zenon
<1>4. labelExpr(x, n) = Column(x, n)
  BY DEF labelExpr
<1> QED
  BY <1>3, <1>4 DEF Shown

\* Any other name is shown as its first attribute, unless that is empty and has
\* another one behind it.
LEMMA AttributeIsShown ==
    ASSUME NEW x \in Records, NEW n, n \notin Columns \cup internalLogAttributes,
           Sanitize(n) = n, ~HiddenByCollision(x, n)
    PROVE  labelExpr(x, n) = Shown(x, n)
<1>1. n \notin NamedColumns(x)
  BY DEF NamedColumns
<1>2. /\ n \in DOMAIN assembleLabels(x) <=> \E i \in ShownEntries(x) : Labels(x)[i].name = n
      /\ n \in DOMAIN assembleLabels(x) =>
           assembleLabels(x)[n] = Labels(x)[First(At(x, n) \cap ShownEntries(x))].value
  BY <1>1, AssembledLabels, Zenon
<1>3. labelExpr(x, n) = IF At(x, n) = {} THEN Empty ELSE Labels(x)[First(At(x, n))].value
  BY DEF labelExpr
<1>4. CASE At(x, n) = {}
  <2>1. n \notin DOMAIN assembleLabels(x)
    BY <1>2, <1>4 DEF At, ShownEntries
  <2> QED
    BY <1>3, <1>4, <2>1 DEF Shown
<1>5. CASE At(x, n) # {}
  <2> DEFINE i == First(At(x, n))
  <2>1. At(x, n) \subseteq DOMAIN Labels(x)
    BY DEF At
  <2>2. i \in At(x, n)
    BY <1>5, <2>1, FirstPosition
  <2>3. i \in DOMAIN Labels(x) /\ Labels(x)[i].name = n
    BY <2>2 DEF At
  <2>4. labelExpr(x, n) = Labels(x)[i].value
    BY <1>3, <1>5
  <2>5. CASE Labels(x)[i].value = Empty
    <3>1. ~Collided(x, n)
      BY <2>5 DEF HiddenByCollision
    <3>2. At(x, n) = {i}
      BY <2>2, <3>1, SoleAttribute
    <3>3. n \notin DOMAIN assembleLabels(x)
      BY <1>2, <2>5, <3>2 DEF At, ShownEntries
    <3> QED
      BY <2>4, <2>5, <3>3 DEF Shown
  <2>6. CASE Labels(x)[i].value # Empty
    <3>1. i \in ShownEntries(x)
      BY <1>1, <2>3, <2>6 DEF ShownEntries
    <3>2. First(At(x, n) \cap ShownEntries(x)) = i
      BY <2>1, <2>2, <3>1, FirstOfSubset
    <3> QED
      BY <1>2, <2>3, <2>4, <3>1, <3>2 DEF Shown
  <2> QED
    BY <2>5, <2>6
<1> QED
  BY <1>4, <1>5

\* Only records are stored, one at a time.
Stored == rows \subseteq Records /\ IsFiniteSet(rows)

\* Nothing is stored at first.
LEMMA StoredInit == Init => Stored
BY FS_EmptySet DEF Init, Stored

\* No step but an insert changes what is stored.
LEMMA RowsStep ==
    ASSUME [Next]_vars
    PROVE  rows' = rows \/ \E x \in Records : rows' = rows \cup {x}
<1>1. ASSUME NEW r, NEW new, Set(r, new) PROVE rows' = rows
  BY <1>1 DEF Set
<1>2. ASSUME NEW r, NEW status, Answer(r, status) PROVE rows' = rows
  BY <1>1, <1>2 DEF Answer
<1>3. ASSUME NEW r, Filter(r) PROVE rows' = rows
  <2>1. CASE ReviewDenies(r) \/ ReviewFails(r) \/ ReviewAllows(r)
    BY <1>1, <1>2, <2>1, Zenon DEF ReviewDenies, ReviewFails, ReviewAllows
  <2>2. CASE ServeRuntime(r) \/ RefuseUnscoped(r)
    BY <1>2, <2>2, Zenon DEF ServeRuntime, RefuseUnscoped
  <2>3. CASE Dispatch(r)
    <3>1. (\E status : Answer(r, status)) \/ \E new : Set(r, new)
      BY <2>3, Zenon DEF Dispatch
    <3> QED
      BY <1>1, <1>2, <3>1, Zenon
  <2> QED
    BY <1>3, <2>1, <2>2, <2>3, Zenon DEF Filter
<1>4. ASSUME NEW r, StoreStep(r) PROVE rows' = rows
  BY <1>1, <1>2, <1>4, Zenon DEF StoreStep, QueryRefused, QueryFails, QueryReturns, ReadNext,
                                 ReadFails, ReadEnds, MetricCallReturns
<1>5. ASSUME NEW r, NEW f, Handle(r, f) PROVE rows' = rows
  BY <1>1, <1>2, <1>5 DEF Handle
<1>6. ASSUME NEW r, NEW method, NEW path, NEW caller, Arrive(r, method, path, caller)
      PROVE  rows' = rows
  BY <1>1, <1>6 DEF Arrive
<1>7. ASSUME NEW r, ClientLeaves(r) \/ DeadlinePasses(r) \/ Finish(r) PROVE rows' = rows
  BY <1>1, <1>7 DEF ClientLeaves, DeadlinePasses, Finish
<1>8. Signal \/ CloseStore \/ Restart \/ UNCHANGED vars => rows' = rows
  BY DEF Signal, CloseStore, Restart, vars
<1>9. ASSUME NEW x, Insert(x) PROVE rows' = rows \cup {x}
  BY <1>9 DEF Insert
<1> QED
  BY <1>3, <1>4, <1>5, <1>6, <1>7, <1>8, <1>9, Zenon DEF Next

\* Every step stores records, finitely many.
LEMMA StoredStep == Stored /\ [Next]_vars => Stored'
<1> SUFFICES ASSUME Stored, [Next]_vars PROVE Stored'
  OBVIOUS
<1>1. CASE rows' = rows
  BY <1>1 DEF Stored
<1>2. ASSUME NEW x \in Records, rows' = rows \cup {x} PROVE Stored'
  BY <1>2, FS_AddElement DEF Stored
<1> QED
  BY <1>1, <1>2, RowsStep

\* What is stored are records, finitely many.
LEMMA StoredHolds == Spec => []Stored
BY StoredInit, StoredStep, PTL DEF Spec

\* On every name that is shown or advertised a row shows what a matcher reads.
\* The exceptions are a promoted name whose column is empty and, for names that
\* are not advertised, a collision whose first entry is empty (LabelNames,
\* assembleLabels, labelExpr).
THEOREM SeenIsSearchable == Spec => []ShownIsMatched
<1>1. Stored => ShownIsMatched
  <2> SUFFICES ASSUME Stored, NEW p \in Projects,
                      NEW x \in {y \in rows : y.project = p},
                      NEW n \in LabelNames({y \in rows : y.project = p})
                                  \cup DOMAIN assembleLabels(x),
                      ~HiddenByColumn(x, n),
                      n \in LabelNames({y \in rows : y.project = p})
                        \/ ~HiddenByCollision(x, n)
               PROVE  labelExpr(x, n) = Shown(x, n)
    BY Zenon DEF ShownIsMatched
  <2> DEFINE stored == {y \in rows : y.project = p}
  <2>1. x \in stored /\ x \in Records
    BY DEF Stored
  <2>2. CASE n \in Columns
    <3>1. Column(x, n) # Empty \/ At(x, n) = {}
      BY <2>2 DEF HiddenByColumn
    <3> QED
      BY <2>2, <3>1, ColumnIsShown, EmptyColumnIsNotShown
  <2>3. CASE n \notin Columns /\ n \in LabelNames(stored)
    <3>1. n \in buildLabelNamesQuery(stored) \ internalLogAttributes
      BY <2>3 DEF LabelNames, fixedSchemaLabels, Columns
    <3>2. ~Collided(x, n)
      BY <2>1, <3>1, Zenon DEF buildLabelNamesQuery
    <3>3. ~HiddenByCollision(x, n)
      BY <3>2 DEF HiddenByCollision
    <3> HIDE DEF stored
    <3>4. Sanitize(n) = n
      BY <3>1, UsedIsSanitized
    <3> QED
      BY <2>1, <2>3, <3>1, <3>3, <3>4, AttributeIsShown
  <2>4. CASE n \notin Columns /\ n \notin LabelNames(stored)
    <3>1. n \in DOMAIN assembleLabels(x) /\ ~HiddenByCollision(x, n)
      BY <2>4
    <3>2. n \notin NamedColumns(x)
      BY <2>4 DEF NamedColumns
    <3>3. PICK i \in ShownEntries(x) : Labels(x)[i].name = n
      BY <3>1, <3>2, AssembledLabels, Zenon
    <3>4. n \notin internalLogAttributes /\ Sanitize(n) = n
      BY <3>3, LabelIsSanitized DEF ShownEntries
    <3> QED
      BY <2>1, <2>4, <3>1, <3>4, AttributeIsShown
  <2> QED
    BY <2>2, <2>3, <2>4
<1> QED
  BY <1>1, StoredHolds, PTL
-----------------------------------------------------------------------------
(***************************************************************************)
(* Bounds: what reaches a store was accepted by its handler.               *)
(***************************************************************************)

\* Samples at every step of a window: no more than fit into it.
LEMMA SamplesInWindow ==
    ASSUME NEW s \in Nat, NEW e \in Nat, NEW d \in Nat \ {0}, s <= e
    PROVE  Cardinality({t \in s..e : (t - s) % d = 0}) <= (e - s) \div d + 1
<1> DEFINE S == {t \in s..e : (t - s) % d = 0}
           k == (e - s) \div d
           f == [t \in S |-> (t - s) \div d]
<1>1. ASSUME NEW a \in Nat PROVE a \div d \in Nat /\ a = d * (a \div d) + (a % d)
  OBVIOUS
<1>2. ASSUME NEW a \in Nat, NEW b \in Nat, a <= b PROVE a \div d <= b \div d
  BY <1>2
<1>3. \A t \in S : t - s \in Nat /\ t - s <= e - s /\ (t - s) % d = 0
  OBVIOUS
<1>4. k \in Nat
  BY <1>1
<1>5. \A t \in S : f[t] = (t - s) \div d /\ f[t] \in 0..k
  BY <1>1, <1>2, <1>3, <1>4
<1>6. \A t \in S : t - s = d * f[t]
  BY <1>1, <1>3, <1>5
<1>7. ASSUME NEW t \in S, NEW u \in S, f[t] = f[u] PROVE t = u
  <2>1. t - s = u - s
    BY <1>6, <1>7, Zenon
  <2>2. t \in Int /\ u \in Int
    OBVIOUS
  <2> QED BY <2>1, <2>2
<1>8. f \in Injection(S, 0..k)
  <2>1. f \in [S -> 0..k]
    BY <1>5, Zenon
  <2> HIDE DEF f
  <2> QED BY <1>7, <2>1 DEF Injection, IsInjective
<1>9. IsFiniteSet(0..k) /\ Cardinality(0..k) = k + 1
  <2> HIDE DEF k
  <2>1. 0 \in Int /\ k \in Int
    BY <1>4
  <2>2. IsFiniteSet(0..k) /\ Cardinality(0..k) = IF 0 > k THEN 0 ELSE k - 0 + 1
    BY <2>1, FS_Interval, Zenon
  <2> QED BY <1>4, <2>2
<1> HIDE DEF S, f, k
<1>10. Cardinality(S) <= Cardinality(0..k)
  BY <1>8, <1>9, FS_Injection
<1> QED BY <1>9, <1>10 DEF S, k

\* The handlers of the log routes.
LEMMA LogHandlerNames ==
    LogHandlers \subseteq {"lokiQuery", "lokiQueryRange", "lokiLabelNames", "lokiLabelValues",
                          "lokiSeries"}
<1>1. ASSUME NEW rt \in Routes, rt.permission[1] = "logs"
      PROVE  rt.handler \in {"lokiQuery", "lokiQueryRange", "lokiLabelNames", "lokiLabelValues",
                             "lokiSeries"}
  BY <1>1, RouteTable DEF Ends
<1> QED
  BY <1>1 DEF LogHandlers

RowHandlers == {"lokiQuery", "lokiQueryRange"}

\* A handler that reads rows asks one query, for at most MaxLimit of them.
Limited(q) ==
    /\ q.pc \in {"idle", "review", "serve", "handle"} => q.wanted = {} /\ q.got = {}
    /\ q.handler \in RowHandlers =>
         /\ q.pc = "query" => q.wanted = {}
         /\ q.got \subseteq q.wanted
         /\ IsFiniteSet(q.wanted) /\ Cardinality(q.wanted) <= MaxLimit

\* The form of a call was accepted.
Accepted(q) ==
    /\ q.pc \in {"query", "read"} =>
         q.handler \in LogHandlers /\ q.form \in Forms /\ ~lokiRejects(q.handler, q.form)
    /\ q.pc = "call" => q.form \in Forms /\ ~promRejects(q.handler, q.form)

Bounded(q) == Limited(q) /\ Accepted(q)

BInv == IInv /\ \A r \in Requests : Bounded(req[r])

\* A slot without a request is within every bound.
LEMMA NoRequestBounded == Bounded(NoRequest)
<1>1. /\ NoRequest.pc = "idle" /\ NoRequest.handler = ""
      /\ NoRequest.wanted = {} /\ NoRequest.got = {}
  BY DEF NoRequest
<1> QED
  BY <1>1 DEF Bounded, Limited, Accepted, RowHandlers

\* A step that sets a request leaves the others within their bounds.
LEMMA SetKeepsBInv ==
    ASSUME BInv, NEW r \in Requests, NEW new, Bounded(new), Set(r, new)
    PROVE  \A k \in Requests : Bounded(req'[k])
<1>1. \A k \in Requests : req'[k] = IF k = r THEN new ELSE req[k]
  BY DEF Set, BInv, IInv
<1> QED
  BY <1>1 DEF BInv

\* An answer leaves the result as it is.
LEMMA AnswerKeepsBInv ==
    ASSUME BInv, NEW r \in Requests, NEW status, Answer(r, status)
    PROVE  \A k \in Requests : Bounded(req'[k])
<1> DEFINE q == req[r]
           new == [q EXCEPT !.pc = "answered", !.status = status]
<1>1. IsRequest(q) /\ Bounded(q) /\ Set(r, new)
  BY DEF BInv, IInv, ReqInv, Answer
<1>2. /\ new.pc = "answered" /\ new.handler = q.handler
      /\ new.wanted = q.wanted /\ new.got = q.got
  BY <1>1 DEF IsRequest
<1> HIDE DEF new, q
<1>3. Bounded(new)
  BY <1>1, <1>2 DEF Bounded, Limited, Accepted
<1> QED
  BY <1>1, <1>3, SetKeepsBInv

\* A step that neither moves the request to another call nor reads anything.
LEMMA SameCallKeepsBInv ==
    ASSUME BInv, NEW r \in Requests, NEW new, Set(r, new),
           new.pc = req[r].pc, new.handler = req[r].handler, new.form = req[r].form,
           new.wanted = req[r].wanted, new.got = req[r].got
    PROVE  \A k \in Requests : Bounded(req'[k])
<1>1. Bounded(req[r])
  BY DEF BInv
<1>2. Bounded(new)
  BY <1>1 DEF Bounded, Limited, Accepted
<1> QED
  BY <1>2, SetKeepsBInv

\* Before a handler has the form, a request is within every bound.
LEMMA FilterKeepsBInv ==
    ASSUME BInv, NEW r \in Requests, Filter(r)
    PROVE  \A k \in Requests : Bounded(req'[k])
<1> DEFINE q == req[r]
<1>1. ASSUME NEW new, Set(r, new), new.pc \in {"review", "serve", "handle"},
             new.wanted = {}, new.got = {}
      PROVE  \A k \in Requests : Bounded(req'[k])
  <2>1. IsFiniteSet({}) /\ Cardinality({}) = 0 /\ 0 <= MaxLimit
    BY FS_EmptySet, ConfigAssumption DEF ValidConfig
  <2>2. Bounded(new)
    BY <1>1, <2>1 DEF Bounded, Limited, Accepted
  <2> QED
    BY <1>1, <2>2, SetKeepsBInv
<1>2. IsRequest(q) /\ Limited(q)
  BY DEF BInv, IInv, ReqInv, Bounded
<1>3. CASE ReviewAllows(r)
  <2> DEFINE new == [q EXCEPT !.pc = "serve",
                              !.reviewed = RequestedPermissions(q.method, q.path)]
  <2>1. q.pc = "review" /\ Set(r, new)
    BY <1>3 DEF ReviewAllows
  <2>2. new.pc = "serve" /\ new.wanted = q.wanted /\ new.got = q.got
    BY <1>2 DEF IsRequest
  <2> HIDE DEF new
  <2> QED
    BY <1>1, <1>2, <2>1, <2>2 DEF Limited
<1>4. CASE Dispatch(r)
  <2> DEFINE new(rt) == [q EXCEPT !.pc = "handle", !.handler = rt.handler,
                           !.project = Resolve(q.caller, Projects),
                           !.path = <<>>, !.method = ""]
  <2>1. q.pc = "serve" /\ (Answer(r, 301) \/ \E rt \in Routes : Set(r, new(rt)))
    BY <1>4, Zenon DEF Dispatch, Matched
  <2>2. \A rt : new(rt).pc = "handle" /\ new(rt).wanted = q.wanted /\ new(rt).got = q.got
    BY <1>2 DEF IsRequest
  <2> HIDE DEF new
  <2> QED
    BY <1>1, <1>2, <2>1, <2>2, AnswerKeepsBInv DEF Limited
<1>5. CASE ReviewDenies(r) \/ ReviewFails(r) \/ ServeRuntime(r) \/ RefuseUnscoped(r)
  <2>1. \E status : Answer(r, status)
    BY <1>5 DEF ReviewDenies, ReviewFails, ServeRuntime, RefuseUnscoped
  <2> QED
    BY <2>1, AnswerKeepsBInv
<1> QED
  BY <1>3, <1>4, <1>5 DEF Filter

\* A form that reaches a store is one that its handler accepted.
LEMMA HandleKeepsBInv ==
    ASSUME BInv, NEW r \in Requests, NEW f \in Forms, Handle(r, f)
    PROVE  \A k \in Requests : Bounded(req'[k])
<1> DEFINE q == req[r]
           pc == IF q.handler \in LogHandlers THEN "query" ELSE "call"
           new == [q EXCEPT !.form = f, !.pc = pc]
<1>1. IsRequest(q) /\ Limited(q) /\ q.pc = "handle"
  BY DEF BInv, IInv, ReqInv, Bounded, Handle
<1>2. \/ Answer(r, 200) \/ Answer(r, 400)
      \/ Set(r, new) /\ ~Rejects(q.handler, f)
  BY DEF Handle
<1>3. CASE Answer(r, 200) \/ Answer(r, 400)
  BY <1>3, AnswerKeepsBInv
<1>4. CASE Set(r, new) /\ ~Rejects(q.handler, f)
  <2>1. /\ new.pc = pc /\ new.form = f /\ new.handler = q.handler
        /\ new.wanted = q.wanted /\ new.got = q.got
    BY <1>1 DEF IsRequest
  <2>2. /\ pc = "query" => q.handler \in LogHandlers /\ ~lokiRejects(q.handler, f)
        /\ pc = "call" => ~promRejects(q.handler, f)
        /\ pc \in {"query", "call"}
    BY <1>4 DEF Rejects
  <2> HIDE DEF new, q, pc
  <2>3. Limited(new)
    BY <1>1, <2>1, <2>2 DEF Limited
  <2>4. Accepted(new)
    BY <2>1, <2>2 DEF Accepted
  <2> QED
    BY <1>4, <2>3, <2>4, SetKeepsBInv DEF Bounded
<1> QED
  BY <1>2, <1>3, <1>4

\* The log store returns at most as many rows as it was asked for.
LEMMA RowsAreLimited ==
    ASSUME Stored, NEW r \in Requests, req[r].handler \in RowHandlers, req[r].form \in Forms,
           NEW result \in Results(r)
    PROVE  IsFiniteSet(result) /\ Cardinality(result) <= MaxLimit
<1> DEFINE S == Selected(ProjectRows(r), SelectorAt(r))
           n == parseLimit(req[r].form)
<1>1. result \in AtMost(n, S)
  BY DEF Results, RowHandlers
<1>2. n \in Nat /\ n <= MaxLimit
  <2>1. req[r].form.limit \in Int
    BY FormsAssumption DEF IsForm, Absent
  <2> QED
    BY <2>1, ConfigAssumption DEF parseLimit, ValidConfig
<1>3. S \subseteq rows
  BY DEF Selected, ProjectRows
<1>4. IsFiniteSet(S)
  BY <1>3, FS_Subset DEF Stored
<1> HIDE DEF S, n
<1>5. result \subseteq S /\ Cardinality(result) = IF Cardinality(S) < n THEN Cardinality(S) ELSE n
  BY <1>1 DEF AtMost
<1>6. IsFiniteSet(result) /\ Cardinality(S) \in Nat
  BY <1>4, <1>5, FS_Subset, FS_CardinalityType
<1> QED
  BY <1>2, <1>5, <1>6, ConfigAssumption DEF ValidConfig

\* A result is within the limit.
LEMMA QueryReturnsKeepsBInv ==
    ASSUME BInv, Stored, NEW r \in Requests, QueryReturns(r)
    PROVE  \A k \in Requests : Bounded(req'[k])
<1> DEFINE q == req[r]
<1>1. IsRequest(q) /\ Limited(q) /\ Accepted(q) /\ q.pc = "query"
  BY DEF BInv, IInv, ReqInv, Bounded, QueryReturns, Sendable
<1>2. PICK result \in Results(r) :
         Set(r, [q EXCEPT !.pc = "read", !.wanted = q.wanted \cup result])
  BY Zenon DEF QueryReturns
<1> DEFINE new == [q EXCEPT !.pc = "read", !.wanted = q.wanted \cup result]
<1>3. /\ new.pc = "read" /\ new.form = q.form /\ new.handler = q.handler
      /\ new.wanted = q.wanted \cup result /\ new.got = q.got
  BY <1>1 DEF IsRequest
<1>4. Set(r, new)
  BY <1>2
<1>5. q.handler \in RowHandlers => IsFiniteSet(result) /\ Cardinality(result) <= MaxLimit
  BY <1>1, RowsAreLimited DEF Accepted
<1> HIDE DEF new, q
<1>6. Limited(new)
  <2>1. q.handler \in RowHandlers => new.wanted = result /\ q.got \subseteq {}
    BY <1>1, <1>3 DEF Limited
  <2> QED
    BY <1>3, <1>5, <2>1 DEF Limited
<1>7. Accepted(new)
  BY <1>1, <1>3 DEF Accepted
<1> QED
  BY <1>4, <1>6, <1>7, SetKeepsBInv DEF Bounded

\* What is read is of the result.
LEMMA ReadNextKeepsBInv ==
    ASSUME BInv, NEW r \in Requests, ReadNext(r)
    PROVE  \A k \in Requests : Bounded(req'[k])
<1> DEFINE q == req[r]
<1>1. IsRequest(q) /\ Limited(q) /\ Accepted(q) /\ q.pc = "read"
  BY DEF BInv, IInv, ReqInv, Bounded, ReadNext
<1>2. PICK x \in q.wanted \ q.got : Set(r, [q EXCEPT !.got = q.got \cup {x}])
  BY DEF ReadNext
<1> DEFINE new == [q EXCEPT !.got = q.got \cup {x}]
<1>3. /\ new.pc = "read" /\ new.form = q.form /\ new.handler = q.handler
      /\ new.wanted = q.wanted /\ new.got = q.got \cup {x}
  BY <1>1 DEF IsRequest
<1>4. Set(r, new) /\ x \in q.wanted
  BY <1>2
<1> HIDE DEF new, q
<1>5. Limited(new)
  BY <1>1, <1>3, <1>4 DEF Limited
<1>6. Accepted(new)
  BY <1>1, <1>3 DEF Accepted
<1> QED
  BY <1>4, <1>5, <1>6, SetKeepsBInv DEF Bounded

\* Only lokiSeries asks more than one query.
LEMMA ReadEndsKeepsBInv ==
    ASSUME BInv, NEW r \in Requests, ReadEnds(r)
    PROVE  \A k \in Requests : Bounded(req'[k])
<1> DEFINE q == req[r]
           new == [q EXCEPT !.pc = "query", !.next = q.next + 1]
<1>1. IsRequest(q) /\ Accepted(q) /\ q.pc = "read"
  BY DEF BInv, IInv, ReqInv, Bounded, ReadEnds
<1>2. Answer(r, 200) \/ (q.handler = "lokiSeries" /\ Set(r, new))
  BY DEF ReadEnds
<1>3. CASE q.handler = "lokiSeries" /\ Set(r, new)
  <2>1. new.pc = "query" /\ new.form = q.form /\ new.handler = q.handler
    BY <1>1 DEF IsRequest
  <2> HIDE DEF new, q
  <2>2. Bounded(new)
    BY <1>1, <1>3, <2>1 DEF Bounded, Limited, Accepted, RowHandlers
  <2> QED
    BY <1>3, <2>2, SetKeepsBInv
<1> QED
  BY <1>2, <1>3, AnswerKeepsBInv

\* A step of a store keeps the request within its bounds.
LEMMA StoreStepKeepsBInv ==
    ASSUME BInv, Stored, NEW r \in Requests, StoreStep(r)
    PROVE  \A k \in Requests : Bounded(req'[k])
<1>1. CASE QueryReturns(r)
  BY <1>1, QueryReturnsKeepsBInv
<1>2. CASE ReadNext(r)
  BY <1>2, ReadNextKeepsBInv
<1>3. CASE ReadEnds(r)
  BY <1>3, ReadEndsKeepsBInv
<1>4. CASE QueryRefused(r) \/ QueryFails(r) \/ ReadFails(r) \/ MetricCallReturns(r)
  <2>1. \E status : Answer(r, status)
    BY <1>4, Zenon DEF QueryRefused, QueryFails, ReadFails, MetricCallReturns
  <2> QED
    BY <2>1, AnswerKeepsBInv
<1> QED
  BY <1>1, <1>2, <1>3, <1>4 DEF StoreStep

\* Every step keeps every request within its bounds.
LEMMA BInvStep == BInv /\ Stored /\ [Next]_vars => BInv'
<1> SUFFICES ASSUME BInv, Stored, [Next]_vars PROVE BInv'
  OBVIOUS
<1> DEFINE Goal == \A k \in Requests : Bounded(req'[k])
<1>1. ASSUME NEW r \in Requests, NEW method, NEW path, NEW caller,
             Arrive(r, method, path, caller)
      PROVE  Goal
  <2> DEFINE new == [NoRequest EXCEPT !.pc = "review", !.method = method,
                                      !.path = canonicalPath(path), !.caller = caller]
  <2>1. Set(r, new)
    BY <1>1 DEF Arrive
  <2>2. new.pc = "review" /\ new.handler = "" /\ new.wanted = {} /\ new.got = {}
    BY DEF NoRequest
  <2> HIDE DEF new
  <2>3. Bounded(new)
    BY <2>2 DEF Bounded, Limited, Accepted, RowHandlers
  <2> QED
    BY <2>1, <2>3, SetKeepsBInv
<1>2. ASSUME NEW r \in Requests, NEW f \in Forms, Handle(r, f) PROVE Goal
  BY <1>2, HandleKeepsBInv
<1>3. ASSUME NEW r \in Requests, ClientLeaves(r) \/ DeadlinePasses(r) PROVE Goal
  <2>1. IsRequest(req[r])
    BY DEF BInv, IInv, ReqInv
  <2>2. PICK ctx \in {"canceled", "expired"} : Set(r, [req[r] EXCEPT !.ctx = ctx])
    BY <1>3 DEF ClientLeaves, DeadlinePasses
  <2> DEFINE new == [req[r] EXCEPT !.ctx = ctx]
  <2>3. /\ new.pc = req[r].pc /\ new.handler = req[r].handler /\ new.form = req[r].form
        /\ new.wanted = req[r].wanted /\ new.got = req[r].got
    BY <2>1 DEF IsRequest
  <2>4. Set(r, new)
    BY <2>2
  <2> HIDE DEF new
  <2> QED
    BY <2>3, <2>4, SameCallKeepsBInv
<1>4. ASSUME NEW r \in Requests, Filter(r) \/ StoreStep(r) PROVE Goal
  BY <1>4, FilterKeepsBInv, StoreStepKeepsBInv
<1>5. ASSUME NEW r \in Requests, Finish(r) PROVE Goal
  BY <1>5, NoRequestBounded, SetKeepsBInv DEF Finish
<1>6. ASSUME Restart PROVE Goal
  BY <1>6, NoRequestBounded DEF Restart
<1>7. ASSUME req' = req PROVE Goal
  BY <1>7 DEF BInv
<1>8. ASSUME NEW x, Insert(x) PROVE req' = req
  BY <1>8 DEF Insert
<1>9. Signal \/ CloseStore \/ UNCHANGED vars => req' = req
  BY DEF Signal, CloseStore, vars
<1>10. Goal
  BY <1>1, <1>2, <1>3, <1>4, <1>5, <1>6, <1>7, <1>8, <1>9 DEF Next
<1>11. IInv'
  BY IInvStep DEF BInv
<1> QED
  BY <1>10, <1>11 DEF BInv, Bounded, Limited, Accepted

\* No request exceeds a bound at first.
LEMMA BInvInit == Init => BInv
BY InitIInv, NoRequestBounded DEF Init, BInv

\* No request ever exceeds a bound.
LEMMA BInvHolds == Spec => []BInv
BY BInvInit, BInvStep, StoredHolds, PTL DEF Spec

\* A log query that was accepted has a window that is not empty.
LEMMA WindowIsNotEmpty ==
    ASSUME NEW handler \in LogHandlers, NEW f \in Forms, ~lokiRejects(handler, f)
    PROVE  timeRange(f).start < timeRange(f).end \/ handler = "lokiQuery"
<1>1. handler = "lokiQuery" \/ ~LogRangeFails(f)
  BY LogHandlerNames, Zenon DEF lokiRejects
<1>2. {f.start, f.end} \subseteq Int
  BY FormsAssumption DEF IsForm, Absent
<1>3. timeRange(f).start \in Int /\ timeRange(f).end \in Int
  BY <1>2, ConfigAssumption DEF timeRange, ValidConfig
<1> QED
  BY <1>1, <1>3 DEF LogRangeFails

\* A range query that was accepted asks for at most maxPoints samples.
LEMMA RangeIsBounded ==
    ASSUME NEW f \in Forms, ~promRejects("promQueryRange", f)
    PROVE  /\ f.end - f.start <= MaxRange
           /\ Cardinality({t \in f.start..f.end : (t - f.start) % f.step = 0}) <= maxPoints
           /\ promTimeout(f) <= QueryTimeout
<1>1. ~promQueryRangeFails(f)
  BY DEF promRejects
<1>2. f.start \in Nat /\ f.end \in Nat /\ f.step \in Nat \ {0} /\ f.start <= f.end
  BY <1>1, FormsAssumption DEF IsForm, Absent, promQueryRangeFails, promRangeFails
<1>3. MaxRange \in Nat /\ maxPoints \in Nat /\ QueryTimeout \in Nat
  BY ConfigAssumption DEF ValidConfig
<1>4. f.end - f.start <= MaxRange
  BY <1>1, <1>2, <1>3 DEF promQueryRangeFails
<1>5. (f.end - f.start) \div f.step + 1 <= maxPoints
  <2>1. (f.end - f.start) \div f.step + 1 \in Int
    BY <1>2
  <2>2. ~((f.end - f.start) \div f.step + 1 > maxPoints)
    BY <1>1 DEF promQueryRangeFails, TooManyPoints
  <2> QED
    BY <1>3, <2>1, <2>2
<1>6. Cardinality({t \in f.start..f.end : (t - f.start) % f.step = 0}) <= maxPoints
  <2> DEFINE S == {t \in f.start..f.end : (t - f.start) % f.step = 0}
  <2>1. Cardinality(S) <= (f.end - f.start) \div f.step + 1
    BY <1>2, SamplesInWindow, Zenon
  <2>2. IsFiniteSet(S)
    <3>1. IsFiniteSet(f.start..f.end)
      <4>1. f.start \in Int /\ f.end \in Int
        BY <1>2
      <4> QED
        BY <4>1, FS_Interval, Zenon
    <3> QED
      BY <3>1, FS_Subset, Zenon
  <2>3. Cardinality(S) \in Nat /\ (f.end - f.start) \div f.step + 1 \in Int
    BY <1>2, <2>2, FS_CardinalityType
  <2> HIDE DEF S
  <2>4. Cardinality(S) <= maxPoints
    BY <1>3, <1>5, <2>1, <2>3
  <2> QED
    BY <2>4 DEF S
<1>7. promTimeout(f) <= QueryTimeout
  BY <1>3 DEF promTimeout
<1> QED
  BY <1>4, <1>6, <1>7

\* Whatever it is asked, the server asks its stores for no more than its
\* configuration allows (params.go, prom.go).
THEOREM StoreCallsAreBounded == Spec => []CallsAreBounded
<1>1. BInv => CallsAreBounded
  <2> SUFFICES ASSUME BInv, NEW r \in Requests
               PROVE  LET f == req[r].form
                      IN  /\ req[r].pc \in {"query", "read"} =>
                               timeRange(f).start < timeRange(f).end \/ req[r].handler = "lokiQuery"
                          /\ req[r].handler \in {"lokiQuery", "lokiQueryRange"} =>
                               Cardinality(req[r].got) <= MaxLimit
                          /\ req[r].pc = "call" /\ req[r].handler = "promQueryRange" =>
                               /\ f.end - f.start <= MaxRange
                               /\ Cardinality({t \in f.start..f.end : (t - f.start) % f.step = 0})
                                    <= maxPoints
                               /\ promTimeout(f) <= QueryTimeout
    BY Zenon DEF CallsAreBounded
  <2> DEFINE q == req[r]
  <2>1. Limited(q) /\ Accepted(q)
    BY DEF BInv, Bounded
  <2>2. q.pc \in {"query", "read"} =>
           timeRange(q.form).start < timeRange(q.form).end \/ q.handler = "lokiQuery"
    BY <2>1, WindowIsNotEmpty, Zenon DEF Accepted
  <2>3. ASSUME q.handler \in {"lokiQuery", "lokiQueryRange"}
        PROVE  Cardinality(q.got) <= MaxLimit
    <3>1. q.got \subseteq q.wanted /\ IsFiniteSet(q.wanted) /\ Cardinality(q.wanted) <= MaxLimit
      BY <2>1, <2>3 DEF Limited, RowHandlers
    <3>2. IsFiniteSet(q.got) /\ Cardinality(q.got) <= Cardinality(q.wanted)
      BY <3>1, FS_Subset
    <3>3. Cardinality(q.got) \in Nat /\ Cardinality(q.wanted) \in Nat /\ MaxLimit \in Nat
      BY <3>1, <3>2, FS_CardinalityType, ConfigAssumption DEF ValidConfig
    <3> QED
      BY <3>1, <3>2, <3>3
  <2>4. ASSUME q.pc = "call", q.handler = "promQueryRange"
        PROVE  q.form \in Forms /\ ~promRejects("promQueryRange", q.form)
    BY <2>1, <2>4 DEF Accepted
  <2> QED
    BY <2>2, <2>3, <2>4, RangeIsBounded, Zenon
<1> QED
  BY <1>1, BInvHolds, PTL
=============================================================================
