------------------------ MODULE MCTelemetryPipeline ------------------------
(***************************************************************************)
(* Batches for model checking: one with two resources, two groups and an   *)
(* empty group, and one whose only item comes after an empty resource.     *)
(***************************************************************************)
EXTENDS TelemetryPipeline

CONSTANTS x1, x2, x3, tenantA, tenantB

TwoResources ==
    <<[tenant |-> tenantA, groups |-> <<<<>>, <<x1>>>>],
      [tenant |-> NoTenant, groups |-> <<<<x2>>>>]>>

EmptyFirst ==
    <<[tenant |-> tenantA, groups |-> <<>>],
      [tenant |-> tenantB, groups |-> <<<<x3>>>>]>>

Regular == {TwoResources}
Sparse == {TwoResources, EmptyFirst}
=============================================================================
