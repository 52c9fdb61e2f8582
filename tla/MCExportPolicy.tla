--------------------------- MODULE MCExportPolicy ---------------------------
(***************************************************************************)
(* Instances of ExportPolicyController for TLC: specs that differ in one   *)
(* sink's target.                                                          *)
(***************************************************************************)
EXTENDS ExportPolicyController

CONSTANTS src, k1, k2, s1

To(type, s) == [target |-> [type |-> type, secret |-> s], inputs |-> {src}]
OneSink(kind, sink) == [sources |-> [n \in {src} |-> kind], sinks |-> [n \in {k1} |-> sink]]

Open == OneSink("selector", To("open", NoSecret))
WithSecret == OneSink("selector", To("basicAuth", s1))
Targetless == OneSink("unparsable", To("none", NoSecret))
Crashing == OneSink("expression", To("basicAuth", s1))
NilBasicAuth == OneSink("noMetrics", To("noBasicAuth", NoSecret))
TwoSinks == [sources |-> [n \in {src} |-> "selector"],
             sinks |-> [n \in {k1, k2} |-> IF n = k1 THEN To("basicAuth", s1)
                                                     ELSE To("open", NoSecret)]]

MCSpecs == {WithSecret, TwoSinks, Crashing}
MCReadySpecs == {Open, WithSecret, Targetless, NilBasicAuth}
=============================================================================
