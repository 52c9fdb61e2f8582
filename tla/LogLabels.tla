----------------------------- MODULE LogLabels ------------------------------
(***************************************************************************)
(* Three views of the labels of stored log records: what a query shows on  *)
(* a row (iterator.go), what a matcher reads (query.go, labels.go) and     *)
(* what the catalogue advertises (clickhouse.go).  The Labels column, which *)
(* the schema derives, holds the log attributes before the resource's and  *)
(* keeps both entries when two keys become one name.                       *)
(*                                                                         *)
(* A key is the sequence of its words and separators; a regular expression *)
(* is the set of the values that it matches.                               *)
(***************************************************************************)
EXTENDS Naturals, FiniteSets, Sequences

CONSTANTS
    Records,    \* the records that may be stored
    Values,     \* label values, not empty
    Projects    \* valid project ids

Empty == ""

Attribute == [key : Seq(STRING), value : Values \cup {Empty}]

\* A record: its project, three columns, and its attributes, no key twice.
IsRecord(r) ==
    /\ r.project \in Projects
    /\ {r.service, r.severity, r.trace} \subseteq Values \cup {Empty}
    /\ \A attrs \in {r.log, r.resource} :
          /\ attrs \in Seq(Attribute)
          /\ \A i, j \in 1..Len(attrs) : i # j => attrs[i].key # attrs[j].key

ASSUME RecordsAssumption ==
    /\ Empty \notin Values
    /\ \A r \in Records : IsRecord(r)

\* Sanitize: dots become underscores.
Sanitize(key) == [i \in DOMAIN key |-> IF key[i] = "." THEN "_" ELSE key[i]]

service_name == <<"service", "_", "name">>
severity == <<"severity">>
trace_id == <<"trace", "_", "id">>
resource_name == <<"resource", "_", "name">>

\* The promoted labels and their columns.
Columns == {service_name, severity, trace_id}

Column(r, name) ==
    CASE name = service_name -> r.service
      [] name = severity -> r.severity
      [] name = trace_id -> r.trace

internalLogAttributes == {Sanitize(<<"telemetry", ".", "observed_time_unix_nano">>)}

\* The Labels column.
Labels(r) ==
    LET attrs == r.log \o r.resource
    IN  [i \in DOMAIN attrs |-> [name |-> Sanitize(attrs[i].key), value |-> attrs[i].value]]

\* The positions of a name in Labels.
At(r, name) == {i \in DOMAIN Labels(r) : Labels(r)[i].name = name}

First(S) == CHOOSE i \in S : \A j \in S : i <= j

\* labelExpr and Resolve: the column, or Labels[name], the first entry.
labelExpr(r, label) ==
    LET at == At(r, Sanitize(label))
    IN  CASE label \in Columns -> Column(r, label)
          [] label \notin Columns /\ at = {} -> Empty
          [] OTHER -> Labels(r)[First(at)].value

\* matcherFragment: = and =~ want a value of the set, != and !~ one outside.
Matches(r, m) == (labelExpr(r, m.label) \in m.values) = m.positive

Selected(rows, matchers) == {r \in rows : \A m \in matchers : Matches(r, m)}

\* Mutant: a map of the entries keeps the last of each name.
assembleLabelsLast(r) ==
    LET named == {c \in Columns : Column(r, c) # Empty}
        given == {i \in DOMAIN Labels(r) :
                    /\ Labels(r)[i].value # Empty
                    /\ Labels(r)[i].name \notin named \cup internalLogAttributes}
    IN  [n \in named \cup {Labels(r)[i].name : i \in given} |->
            IF n \in named THEN Column(r, n)
            ELSE Labels(r)[CHOOSE i \in At(r, n) \cap given :
                             \A j \in At(r, n) \cap given : j <= i].value]

\* assembleLabels: the columns that are not empty, then the first entry of
\* each other name that is not.
assembleLabels(r) ==
    LET named == {c \in Columns : Column(r, c) # Empty}
        given == {i \in DOMAIN Labels(r) :
                    /\ Labels(r)[i].value # Empty
                    /\ Labels(r)[i].name \notin named \cup internalLogAttributes}
    IN  [n \in named \cup {Labels(r)[i].name : i \in given} |->
            IF n \in named THEN Column(r, n)
            ELSE Labels(r)[First(At(r, n) \cap given)].value]
-----------------------------------------------------------------------------
Collided(r, name) == Cardinality(At(r, name)) > 1

\* The names in use, without those that collided on any record.
buildLabelNamesQuery(rows) ==
    LET used == UNION {{Labels(r)[i].name : i \in DOMAIN Labels(r)} : r \in rows}
    IN  {n \in used : \A r \in rows : ~Collided(r, n)}

fixedSchemaLabels == {service_name, severity}

LabelNames(rows) == (buildLabelNamesQuery(rows) \ internalLogAttributes) \cup fixedSchemaLabels

LabelValues(rows, label) == {labelExpr(r, label) : r \in rows} \ {Empty}

\* A label set of the series: the allowlisted labels that are not empty.
SeriesOf(r) ==
    LET given == {l \in {service_name, severity, resource_name} : labelExpr(r, l) # Empty}
    IN  [l \in given |-> labelExpr(r, l)]

Series(rows, matchers) == {SeriesOf(r) : r \in Selected(rows, matchers)}
=============================================================================
