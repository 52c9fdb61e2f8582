--------------------------- MODULE MCQueryServer ----------------------------
(***************************************************************************)
(* A small query API: every route in each of its forms, two projects, an   *)
(* organization that is named like one of them, and records whose          *)
(* attributes collide.                                                     *)
(***************************************************************************)
EXTENDS QueryServer

\* A label name stands for {name}.
Concrete(path) == [i \in DOMAIN path |-> IF path[i] = "{name}" THEN "pod" ELSE path[i]]

Served == {Concrete(rt.path) : rt \in Routes}

Tail_(path, n) == SubSeq(path, n + 1, Len(path))

\* The served paths, without the group, without anything before loki, with a
\* doubled slash and with dots; the discovery documents; paths that nothing
\* serves, one of them for a slash at its end.
MCPaths ==
    Served
      \cup {Tail_(p, 2) : p \in Served}
      \cup {Tail_(p, 4) : p \in {q \in Served : q[4] = "logs"}}
      \cup {APIPrefix \o <<"logs", "">> \o Loki \o <<"labels">>,
            GroupPrefix \o <<"", "v1alpha1", "logs">> \o Loki \o <<"series">>,
            APIPrefix \o <<"metrics", "..", "logs", ".">> \o Loki \o <<"query">>,
            APIPrefix \o <<"logs">> \o Loki \o <<"labels", "">>,
            APIPrefix \o <<"logs">> \o Loki \o <<"tail">>,
            GroupPrefix, APIPrefix, <<"healthz">>}

MCCallers ==
    {[parentType |-> "Project", parentName |-> "p1"],
     [parentType |-> "Organization", parentName |-> "p1"],
     [parentType |-> "Project", parentName |-> "Not A Project"]}

Attr(key, value) == [key |-> key, value |-> value]
Dotted == <<"k8s", ".", "pod">>
Plain == <<"k8s", "_", "pod">>

Rec(project, severityText, log, resource) ==
    [project |-> project, service |-> "a", severity |-> severityText, trace |-> "",
     log |-> log, resource |-> resource]

\* One name per map, both names on one record with and without an empty first
\* value, an attribute named like a column, an internal attribute, another
\* project's.
MCRecords ==
    {Rec("p1", "a", <<>>, <<Attr(Plain, "a")>>),
     Rec("p1", "", <<Attr(Dotted, ""), Attr(<<"severity">>, "b")>>, <<Attr(Plain, "b")>>),
     Rec("p1", "a", <<Attr(Dotted, "a")>>, <<Attr(Plain, "b")>>),
     Rec("p1", "b", <<Attr(<<"severity">>, "a"),
                      Attr(<<"telemetry", ".", "observed_time_unix_nano">>, "a")>>,
                    <<Attr(<<"resource", ".", "name">>, "a")>>),
     Rec("p2", "a", <<Attr(Plain, "b")>>, <<>>)}

Sel(matchers) == [kind |-> "selector", matchers |-> matchers]
Unparsable == [kind |-> "unparsable", matchers |-> {}]
Probe == [kind |-> "healthProbe", matchers |-> {}]

IsA == [label |-> Plain, values |-> {"a"}, positive |-> TRUE]
IsNotA == [label |-> severity, values |-> {"a"}, positive |-> FALSE]

Defaults == [parses |-> TRUE, selectors |-> <<Sel({IsA})>>, start |-> Absent, end |-> Absent,
             step |-> Absent, timeout |-> Absent, limit |-> Absent]

MCForms ==
    {[Defaults EXCEPT !.selectors = s] :
        s \in {<<>>, <<Sel({IsA})>>, <<Unparsable>>, <<Probe>>, <<Sel({IsA}), Sel({IsNotA})>>,
               <<Sel({IsA}), Unparsable>>}}
      \cup {[Defaults EXCEPT !.parses = FALSE]}
      \cup {[Defaults EXCEPT !.limit = l, !.selectors = <<Sel({IsNotA})>>] : l \in {0, 1, 5}}
      \cup {[Defaults EXCEPT !.start = s, !.end = e, !.step = d, !.timeout = 5] :
              s \in {1, 2}, e \in {1, 4, 6}, d \in {0, 1, 2}}
      \cup {[Defaults EXCEPT !.start = 1, !.end = 4, !.step = 2, !.timeout = t] : t \in {0, 1}}
=============================================================================
