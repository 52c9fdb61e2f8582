---------------------------- MODULE ExportPolicy ----------------------------
(***************************************************************************)
(* What an ExportPolicy says (operator/api/v1alpha1) and the two things    *)
(* the controller computes from it and from the Secrets it reads: the      *)
(* status conditions (export_policy_controller.go) and the Vector          *)
(* configuration (vector_configuration.go).                                *)
(*                                                                         *)
(* A source is its kind and a sink its target and its inputs: endpoints,   *)
(* batching, label texts and the wording of messages are left out.         *)
(***************************************************************************)
EXTENDS Naturals, FiniteSets

CONSTANTS
    SourceNames,  \* names of the telemetry sources
    SinkNames,    \* names of the telemetry sinks
    Secrets,      \* names of the Secrets in the policy's namespace
    NoSecret,     \* no Secret reference
    Credentials,  \* contents of a well-formed basic-auth Secret
    NoAuth        \* a sink configured without credentials

ASSUME SpecAssumption ==
    /\ NoSecret \notin Secrets
    /\ NoAuth \notin Credentials
    /\ IsFiniteSet(SinkNames)
    /\ Credentials \cap {"absent", "malformed"} = {}

\* What metricsql.Parse makes of a source: no metrics at all, a syntax error,
\* a plain selector, or an expression that is not a selector.
SourceKinds == {"noMetrics", "unparsable", "selector", "expression"}

\* prometheusRemoteWrite absent; present without authentication; with an
\* authentication that sets no basicAuth; with basicAuth and a Secret.
Target == [type : {"none", "open", "noBasicAuth"}, secret : {NoSecret}]
            \cup [type : {"basicAuth"}, secret : Secrets]

\* A sink and the sources it names, which the policy may not have.
Sink == [target : Target, inputs : (SUBSET SourceNames) \ {{}}]

\* ExportPolicySpec: the listed sources and sinks, each by its name.
ExportPolicySpec ==
    [sources : UNION {[S -> SourceKinds] : S \in SUBSET SourceNames},
     sinks : UNION {[S -> Sink] : S \in SUBSET SinkNames}]

\* A Secret that exists is of the right type with both keys, or malformed.
SecretContents == Credentials \cup {"absent", "malformed"}
-----------------------------------------------------------------------------
(***************************************************************************)
(* Status.  ready is the Ready condition: true, or the pair of its message *)
(* "n/m sinks are accepted"; both zero with FALSE before it is first set.  *)
(* current says that its ObservedGeneration is the policy's generation.    *)
(***************************************************************************)
AcceptedReasons == {"unset", "configured", "notFound", "malformed", "internal"}

Ready == [isTrue : BOOLEAN, accepted : Nat, total : Nat]

Status == [sinks : UNION {[S -> AcceptedReasons] : S \in SUBSET SinkNames},
           ready : Ready, current : BOOLEAN]

NoStatus == [sinks |-> [n \in {} |-> "unset"],
             ready |-> [isTrue |-> FALSE, accepted |-> 0, total |-> 0],
             current |-> FALSE]

\* retrieveBasicAuthSecret: the reason that goes with its error, if any.
retrieveBasicAuthSecret(content, failed) ==
    CASE failed -> "internal"
      [] ~failed /\ content = "absent" -> "notFound"
      [] ~failed /\ content = "malformed" -> "malformed"
      [] OTHER -> "configured"

getSinkStatus(status, n) ==
    IF n \in DOMAIN status.sinks THEN status.sinks[n] ELSE "unset"

\* The sinks whose configuration needs a Secret.
SinksWithSecret(spec) ==
    {n \in DOMAIN spec.sinks : spec.sinks[n].target.type = "basicAuth"}

\* The Accepted condition that the loop over the sinks leaves on sink n.  A
\* sink without a target is not looked at and keeps what it had.
SinkCondition(spec, status, secrets, failed, n) ==
    LET target == spec.sinks[n].target
    IN  CASE target.type = "none" -> getSinkStatus(status, n)
          [] target.type = "basicAuth" ->
               retrieveBasicAuthSecret(secrets[target.secret], n \in failed)
          [] OTHER -> "configured"

\* updateExportPolicyConditions
ReadyCondition(sinks) ==
    LET accepted == Cardinality({n \in DOMAIN sinks : sinks[n] = "configured"})
        total == Cardinality(DOMAIN sinks)
    IN  IF accepted = total
        THEN [isTrue |-> TRUE, accepted |-> 0, total |-> 0]
        ELSE [isTrue |-> FALSE, accepted |-> accepted, total |-> total]

\* reconcileExportPolicyStatus: the new status ...
ReconciledStatus(spec, status, secrets, failed) ==
    LET sinks == [n \in DOMAIN spec.sinks |->
                    SinkCondition(spec, status, secrets, failed, n)]
    IN  [sinks |-> sinks, ready |-> ReadyCondition(sinks), current |-> TRUE]

\* ... and whether a condition changed.
StatusChanged(spec, status, new) ==
    \/ \E n \in DOMAIN spec.sinks : new.sinks[n] # getSinkStatus(status, n)
    \/ new.ready # status.ready
    \/ ~status.current
-----------------------------------------------------------------------------
(***************************************************************************)
(* The Vector configuration.                                               *)
(***************************************************************************)
Config == [sources : SUBSET SourceNames,
           sinks : UNION {[S -> [inputs : SUBSET SourceNames,
                                 auth : Credentials \cup {NoAuth}]] :
                            S \in SUBSET SinkNames}]

\* Building it dereferences a nil pointer: the MetricExpr of a query that is
\* not a selector, or the BasicAuth of an authentication without one.
QueryPanics(source) == source = "expression"
AuthPanics(target) == target.type = "noBasicAuth"

Panics(spec) ==
    \/ \E n \in DOMAIN spec.sources : QueryPanics(spec.sources[n])
    \/ \E n \in DOMAIN spec.sinks : AuthPanics(spec.sinks[n].target)

\* getSinkVectorConfig returns no error.
SinkIsConfigured(spec, secrets, failed, n) ==
    LET target == spec.sinks[n].target
    IN  \/ target.type = "open"
        \/ /\ target.type = "basicAuth"
           /\ retrieveBasicAuthSecret(secrets[target.secret], n \in failed) = "configured"

\* getPrometheusRemoteWriteSinkVectorConfig and the inputs put around it.
SinkConfig(sink, secrets) ==
    [inputs |-> sink.inputs,
     auth |-> IF sink.target.type = "open" THEN NoAuth ELSE secrets[sink.target.secret]]

\* createVectorConfiguration skips a source or sink that it cannot configure.
VectorConfig(spec, secrets, failed) ==
    [sources |-> {n \in DOMAIN spec.sources : spec.sources[n] = "selector"},
     sinks |-> [n \in {k \in DOMAIN spec.sinks :
                         SinkIsConfigured(spec, secrets, failed, k)} |->
                  SinkConfig(spec.sinks[n], secrets)]]

\* referencesSecret
referencesSecret(spec, s) ==
    \E n \in SinksWithSecret(spec) : spec.sinks[n].target.secret = s
=============================================================================
