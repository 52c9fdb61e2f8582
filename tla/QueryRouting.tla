---------------------------- MODULE QueryRouting ----------------------------
(***************************************************************************)
(* How the query API decides what a request asks for (routes.go), whether  *)
(* it is reviewed at all (internal/authz) and which project it is about    *)
(* (internal/miloauth).  A path is the sequence of its segments; an empty  *)
(* segment is a doubled slash, or a slash at the end.                      *)
(***************************************************************************)
EXTENDS Naturals, Sequences, SequencesExt

GroupPrefix == <<"apis", "o11y.miloapis.com">>
APIVersion == "v1alpha1"
APIPrefix == Append(GroupPrefix, APIVersion)
Loki == <<"loki", "api", "v1">>

Permissions == {"logs", "metrics"} \X {"query", "getLabels", "getSeries"}

Route(method, tail, permission, handler) ==
    [method |-> method, path |-> APIPrefix \o tail,
     permission |-> permission, handler |-> handler]

LogRoute(tail, verb, handler) ==
    Route("GET", <<"logs">> \o Loki \o tail, <<"logs", verb>>, handler)

MetricRoute(method, tail, verb, handler) ==
    Route(method, <<"metrics", "api", "v1">> \o tail, <<"metrics", verb>>, handler)

\* The table of newRouter.
Routes ==
    {LogRoute(<<"query">>, "query", "lokiQuery"),
     LogRoute(<<"query_range">>, "query", "lokiQueryRange"),
     LogRoute(<<"labels">>, "getLabels", "lokiLabelNames"),
     LogRoute(<<"label", "{name}", "values">>, "getLabels", "lokiLabelValues"),
     LogRoute(<<"series">>, "getSeries", "lokiSeries"),
     MetricRoute("POST", <<"query">>, "query", "promQuery"),
     MetricRoute("POST", <<"query_range">>, "query", "promQueryRange"),
     MetricRoute("GET", <<"labels">>, "getLabels", "promLabelNames"),
     MetricRoute("GET", <<"label", "{name}", "values">>, "getLabels", "promLabelValues"),
     MetricRoute("GET", <<"series">>, "getSeries", "promSeries")}

LogHandlers == {rt.handler : rt \in {x \in Routes : x.permission[1] = "logs"}}
MetricHandlers == {rt.handler : rt \in {x \in Routes : x.permission[1] = "metrics"}}
-----------------------------------------------------------------------------
\* canonicalPath: Grafana's bare form and the older one without the group.
canonicalPath(path) ==
    CASE IsPrefix(Loki, path) -> APIPrefix \o <<"logs">> \o path
      [] Len(path) >= 2 /\ path[1] = APIVersion /\ path[2] \in {"logs", "metrics"} ->
           GroupPrefix \o path
      [] OTHER -> path

\* The segments that a path walks to: nothing is above the root.
Walk(path) ==
    FoldLeft(LAMBDA at, s : CASE s \in {"", "."} -> at
                              [] s = ".." -> IF at = <<>> THEN at ELSE Front(at)
                              [] OTHER -> Append(at, s),
             <<>>, path)

\* http.ServeMux matches the cleaned path and redirects to it when it differs.
\* A slash at the end stays.
Clean(path) ==
    IF Walk(path) # <<>> /\ Last(path) = "" THEN Append(Walk(path), "") ELSE Walk(path)

\* The pattern of GET serves HEAD too, and {name} any one segment.
MatchesPattern(rt, method, path) ==
    /\ method = rt.method \/ (method = "HEAD" /\ rt.method = "GET")
    /\ Len(path) = Len(rt.path)
    /\ \A i \in 1..Len(path) : rt.path[i] \in {path[i], "{name}"}

\* mux.Handler: the route of the pattern it reports, if any.
Matched(method, path) == {rt \in Routes : MatchesPattern(rt, method, Clean(path))}

UnderGroup(path) == IsPrefix(GroupPrefix, path)

\* Mutant: the permission is read off the path, as the stock resolver does.
RequestedPermissionsByResource(method, path) ==
    IF IsPrefix(APIPrefix, path) /\ Len(path) > Len(APIPrefix)
    THEN {<<path[Len(APIPrefix) + 1], "query">>} ELSE {}

\* NewRequestInfo: the permission that the request is described by.  A path
\* that no route serves, or outside the group, is a non-resource request.
RequestedPermissions(method, path) ==
    IF UnderGroup(path) THEN {rt.permission : rt \in Matched(method, path)} ELSE {}

\* The guard asks the delegate about paths of the framework, the discovery
\* documents and its own permissions; everything else it denies.
Delegates(method, path) ==
    \/ ~UnderGroup(path)
    \/ path \in {GroupPrefix, APIPrefix}
    \/ RequestedPermissions(method, path) \cap Permissions # {}
-----------------------------------------------------------------------------
\* The first values of the caller's two extras; a caller without them has "".
Caller == [parentType : {"Project", "Organization", ""}, parentName : STRING]

\* The project that a caller acts in, if any: projects are the valid ids.
Resolve(caller, projects) ==
    IF caller.parentType = "Project" THEN {caller.parentName} \cap projects ELSE {}
=============================================================================
