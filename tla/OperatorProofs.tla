--------------------------- MODULE OperatorProofs ---------------------------
(***************************************************************************)
(* Proofs about the operator.  About ExportPolicyController, for any       *)
(* specs, Secrets and bounds: its type invariant, that no downstream       *)
(* Secret outlives its policy, and that a controller with nothing left to  *)
(* do has overlooked no change.  About the process it runs in              *)
(* (OperatorProcess), for any configured modes and any number of failures  *)
(* and restarts: the exit status tells whether a goroutine returned an     *)
(* error.                                                                  *)
(***************************************************************************)
EXTENDS ExportPolicyController, OperatorProcess, FiniteSetTheorems, TLAPS

-----------------------------------------------------------------------------
(***************************************************************************)
(* Types.                                                                  *)
(***************************************************************************)
LEMMA NoPolicyType == NoPolicy \in Version
<1>1. (CHOOSE s \in Specs : TRUE) \in Specs
  BY ControllerAssumption
<1>2. NoStatus.sinks \in [{} -> AcceptedReasons]
  BY DEF NoStatus
<1>3. NoStatus.sinks \in UNION {[S -> AcceptedReasons] : S \in SUBSET SinkNames}
  <2>1. {} \in SUBSET SinkNames
    OBVIOUS
  <2> QED
    BY <1>2, <2>1
<1>4. NoStatus \in Status
  BY <1>3 DEF NoStatus, Status, Ready
<1> QED
  BY <1>1, <1>4 DEF NoPolicy, Version, NoUid

\* The sinks of a spec are sinks.
LEMMA SpecSinks ==
    ASSUME NEW spec \in ExportPolicySpec
    PROVE  /\ DOMAIN spec.sinks \in SUBSET SinkNames
           /\ spec.sinks \in [DOMAIN spec.sinks -> Sink]
BY DEF ExportPolicySpec

\* A sink with credentials names a Secret.
LEMMA SinkTarget ==
    ASSUME NEW k \in Sink
    PROVE  /\ k.target.type \in {"none", "open", "noBasicAuth", "basicAuth"}
           /\ k.target.type = "basicAuth" => k.target.secret \in Secrets
           /\ k.inputs \in SUBSET SourceNames
BY DEF Sink, Target

\* The Ready condition is one of those a status can hold.
LEMMA ReadyConditionType ==
    ASSUME NEW S \in SUBSET SinkNames, NEW sinks \in [S -> AcceptedReasons]
    PROVE  ReadyCondition(sinks) \in Ready
<1>1. IsFiniteSet(S)
  BY SpecAssumption, FS_Subset
<1>2. IsFiniteSet({n \in S : sinks[n] = "configured"})
  BY <1>1, FS_Subset
<1>3. Cardinality(S) \in Nat /\ Cardinality({n \in S : sinks[n] = "configured"}) \in Nat
  BY <1>1, <1>2, FS_CardinalityType
<1>4. DOMAIN sinks = S
  OBVIOUS
<1> QED
  BY <1>3, <1>4 DEF ReadyCondition, Ready

\* What reconcileExportPolicyStatus computes is a status.
LEMMA ReconciledStatusType ==
    ASSUME NEW spec \in ExportPolicySpec, NEW status \in Status, NEW secrets, NEW refused
    PROVE  ReconciledStatus(spec, status, secrets, refused) \in Status
<1> DEFINE S == DOMAIN spec.sinks
           sinks == [n \in S |-> SinkCondition(spec, status, secrets, refused, n)]
<1>1. S \in SUBSET SinkNames
  BY SpecSinks
<1>2. ASSUME NEW n \in S
      PROVE  SinkCondition(spec, status, secrets, refused, n) \in AcceptedReasons
  <2>1. getSinkStatus(status, n) \in AcceptedReasons
    BY DEF getSinkStatus, Status, AcceptedReasons
  <2>2. ASSUME NEW c, NEW f PROVE retrieveBasicAuthSecret(c, f) \in AcceptedReasons
    BY DEF retrieveBasicAuthSecret, AcceptedReasons
  <2>3. "configured" \in AcceptedReasons
    BY DEF AcceptedReasons
  <2> QED
    BY <2>1, <2>2, <2>3 DEF SinkCondition
<1>3. sinks \in [S -> AcceptedReasons]
  BY <1>2
<1>4. ReadyCondition(sinks) \in Ready
  BY <1>1, <1>3, ReadyConditionType
<1>5. sinks \in UNION {[T -> AcceptedReasons] : T \in SUBSET SinkNames}
  BY <1>1, <1>3
<1> HIDE DEF sinks
<1>6. [sinks |-> sinks, ready |-> ReadyCondition(sinks), current |-> TRUE] \in Status
  BY <1>4, <1>5 DEF Status
<1> QED
  BY <1>6 DEF ReconciledStatus, sinks

\* createVectorConfiguration puts no credentials into a sink's configuration
\* but those of a well-formed Secret.
LEMMA VectorConfigType ==
    ASSUME NEW spec \in ExportPolicySpec, NEW secrets \in [Secrets -> SecretContents],
           NEW refused
    PROVE  VectorConfig(spec, secrets, refused) \in Config
<1> DEFINE S == {k \in DOMAIN spec.sinks : SinkIsConfigured(spec, secrets, refused, k)}
           C == [inputs : SUBSET SourceNames, auth : Credentials \cup {NoAuth}]
           sources == {n \in DOMAIN spec.sources : spec.sources[n] = "selector"}
           sinks == [n \in S |-> SinkConfig(spec.sinks[n], secrets)]
<1>1. S \in SUBSET SinkNames
  BY SpecSinks
<1>2. sources \in SUBSET SourceNames
  BY DEF ExportPolicySpec
<1>3. ASSUME NEW n \in S
      PROVE  SinkConfig(spec.sinks[n], secrets) \in C
  <2> DEFINE k == spec.sinks[n]
  <2>1. k \in Sink
    BY SpecSinks
  <2>2. k.inputs \in SUBSET SourceNames
    BY <2>1, SinkTarget
  <2>3. \/ k.target.type = "open"
        \/ /\ k.target.type = "basicAuth"
           /\ secrets[k.target.secret] \in Credentials
    <3>1. CASE k.target.type = "open"
      BY <3>1
    <3>2. CASE k.target.type # "open"
      <4>1. /\ k.target.type = "basicAuth"
            /\ retrieveBasicAuthSecret(secrets[k.target.secret], n \in refused) = "configured"
        BY <3>2 DEF SinkIsConfigured
      <4>2. secrets[k.target.secret] \in SecretContents
        BY <2>1, <4>1, SinkTarget
      <4>3. secrets[k.target.secret] \notin {"absent", "malformed"}
        BY <4>1 DEF retrieveBasicAuthSecret
      <4> QED
        BY <4>1, <4>2, <4>3 DEF SecretContents
    <3> QED
      BY <3>1, <3>2
  <2> QED
    BY <2>2, <2>3 DEF SinkConfig
<1>4. sinks \in [S -> C]
  BY <1>3
<1>5. sinks \in UNION {[T -> C] : T \in SUBSET SinkNames}
  BY <1>1, <1>4, Zenon
<1> HIDE DEF sinks, sources
<1>6. [sources |-> sources, sinks |-> sinks] \in Config
  BY <1>2, <1>5 DEF Config
<1> QED
  BY <1>6 DEF VectorConfig, sinks, sources

\* Done leaves well-typed local state behind.
LEMMA DoneType ==
    ASSUME Done
    PROVE  /\ pc' \in Steps
           /\ obj' \in Version
           /\ fresh' \in BOOLEAN
           /\ config' \in Config \cup {NoConfig}
BY NoPolicyType, Zenon DEF Done, Steps

\* Store keeps the API server's object and the watch's backlog well-typed.
LEMMA StoreType ==
    ASSUME TypeOK, NEW v \in Version, Store(v)
    PROVE  policy' \in Version /\ pending' \in Seq(Version)
BY DEF TypeOK, Store

\* A version that a user writes keeps the types.
LEMMA UserWritesType ==
    ASSUME TypeOK, NEW v \in Version, UserWrites(v), created' \in 0..MaxPolicies
    PROVE  TypeOK'
<1>1. policy' \in Version /\ pending' \in Seq(Version)
  BY StoreType DEF UserWrites
<1>2. edits' \in 0..MaxEdits
  BY ControllerAssumption DEF UserWrites, TypeOK
<1> QED
  BY <1>1, <1>2, Zenon DEF TypeOK, UserWrites, cacheVars, downVars

\* Users keep the types.
LEMMA UserType == ASSUME TypeOK, User PROVE TypeOK'
<1>1. ASSUME NEW s \in Specs, CreatePolicy(s) PROVE TypeOK'
  <2>1. created + 1 \in Uids /\ created' \in 0..MaxPolicies
    BY <1>1, ControllerAssumption DEF CreatePolicy, TypeOK, Uids
  <2>2. [NoPolicy EXCEPT !.uid = created + 1, !.spec = s] \in Version
    BY <2>1, NoPolicyType, Zenon DEF Version
  <2> QED
    BY <1>1, <2>1, <2>2, UserWritesType DEF CreatePolicy
<1>2. ASSUME NEW s \in Specs, UpdateSpec(s) PROVE TypeOK'
  <2>1. [policy.status EXCEPT !.current = FALSE] \in Status
    BY Zenon DEF TypeOK, Version, Status
  <2>2. [policy EXCEPT !.spec = s, !.status.current = FALSE] \in Version
    BY <2>1, Zenon DEF TypeOK, Version
  <2>3. created' \in 0..MaxPolicies
    BY <1>2 DEF UpdateSpec, TypeOK
  <2> QED
    BY <1>2, <2>2, <2>3, UserWritesType DEF UpdateSpec
<1>3. ASSUME DeletePolicy PROVE TypeOK'
  <2>1. [policy EXCEPT !.deleting = TRUE] \in Version
    BY Zenon DEF TypeOK, Version
  <2>2. created' \in 0..MaxPolicies
    BY <1>3 DEF DeletePolicy, TypeOK
  <2> QED
    BY <1>3, <2>1, <2>2, NoPolicyType, UserWritesType DEF DeletePolicy
<1>4. ASSUME NEW s \in Secrets, NEW content \in SecretContents, WriteSecret(s, content)
      PROVE  TypeOK'
  <2>1. edits' \in 0..MaxEdits /\ secret' \in [Secrets -> SecretContents]
    BY <1>4, ControllerAssumption DEF WriteSecret, TypeOK
  <2> QED
    BY <1>4, <2>1 DEF TypeOK, WriteSecret, cacheVars, downVars, workVars
<1> QED
  BY <1>1, <1>2, <1>3, <1>4 DEF User

\* The watches keep the types.
LEMMA WatchType == ASSUME TypeOK, Watch PROVE TypeOK'
<1>1. CASE SyncPolicy
  <2>1. cached' \in Version /\ pending' \in Seq(Version)
    BY <1>1 DEF SyncPolicy, TypeOK
  <2> QED
    BY <1>1, <2>1 DEF SyncPolicy, TypeOK, downVars, workVars, boundVars
<1>2. ASSUME NEW s \in Secrets, SyncSecret(s) PROVE TypeOK'
  <2>1. queued' \in BOOLEAN
    BY <1>2 DEF SyncSecret, EnqueueForSecret, TypeOK
  <2>2. secretCache' \in [Secrets -> SecretContents]
    BY <1>2 DEF SyncSecret, TypeOK
  <2> QED
    BY <1>2, <2>1, <2>2 DEF SyncSecret, TypeOK, apiVars, downVars, workVars, boundVars
<1>3. ASSUME NEW s \in Secrets, SyncSecretDropped(s) PROVE TypeOK'
  <2>1. faults' \in 0..MaxFaults /\ secretCache' \in [Secrets -> SecretContents]
    BY <1>3, ControllerAssumption DEF SyncSecretDropped, TypeOK
  <2> QED
    BY <1>3, <2>1 DEF SyncSecretDropped, TypeOK, apiVars, downVars, workVars
<1>4. ASSUME NEW u \in Uids, SyncDownstream(u) PROVE TypeOK'
  BY <1>4 DEF SyncDownstream, TypeOK, apiVars, cacheVars, workVars, boundVars
<1>5. CASE Resync
  BY <1>5 DEF Resync, TypeOK, apiVars, cacheVars, downVars, workVars, boundVars
<1> QED
  BY <1>1, <1>2, <1>3, <1>4, <1>5 DEF Watch

\* The copy that Reconcile deletes and writes for has a UID.
ObjHasUid == pc # "idle" => obj.uid \in Uids

TypeInv == TypeOK /\ ObjHasUid

\* Reconcile keeps the types.
LEMMA ReconcileType == ASSUME TypeInv, Reconcile PROVE TypeOK'
<1> USE DEF TypeInv
<1>1. CASE GetMissing
  BY <1>1, Zenon DEF GetMissing, TypeOK, apiVars, cacheVars, downVars, workVars, boundVars
<1>2. CASE GetPolicy
  <2>1. pc' \in Steps
    BY <1>2 DEF GetPolicy, AfterGet, Steps
  <2> QED
    BY <1>2, <2>1, Zenon DEF GetPolicy, TypeOK, apiVars, cacheVars, downVars, boundVars
<1>3. CASE FinalizeDelete
  <2>1. downstream' \in [Uids -> Config \cup {NoConfig}]
    BY <1>3, Zenon DEF FinalizeDelete, Deleted, TypeOK
  <2> QED
    BY <1>3, <2>1, Zenon DEF FinalizeDelete, TypeOK, Steps, apiVars, cacheVars, boundVars
<1>4. CASE UpdateFinalizer
  <2>1. Finalized(obj) \in Version
    BY NoPolicyType, Zenon DEF Finalized, TypeOK, Version
  <2>2. policy' \in Version /\ pending' \in Seq(Version)
    BY <1>4, <2>1, StoreType DEF UpdateFinalizer
  <2>3. pc' \in Steps /\ obj' \in Version /\ fresh' \in BOOLEAN
        /\ config' \in Config \cup {NoConfig}
    BY <1>4, <2>1, DoneType, Zenon DEF UpdateFinalizer, TypeOK, Steps
  <2> QED
    BY <1>4, <2>2, <2>3 DEF UpdateFinalizer, TypeOK, cacheVars, downVars, boundVars
<1>5. CASE Conflict
  BY <1>5, DoneType DEF Conflict, Retry, TypeOK, apiVars, cacheVars, downVars, boundVars
<1>6. ASSUME NEW refused \in SUBSET SinkNames, ReconcileStatus(refused) PROVE TypeOK'
  <2> DEFINE new == ReconciledStatus(obj.spec, obj.status, secretCache, refused)
  <2>1. obj.spec \in ExportPolicySpec /\ obj.status \in Status
    BY ControllerAssumption DEF TypeOK, Version
  <2>2. new \in Status
    BY <2>1, ReconciledStatusType
  <2> HIDE DEF new
  <2>3. [obj EXCEPT !.status = new] \in Version
    BY <2>2 DEF TypeOK, Version
  <2>4. obj' \in Version /\ pc' \in Steps
    BY <1>6, <2>3 DEF ReconcileStatus, TypeOK, Steps, new
  <2>5. faults' \in 0..MaxFaults
    BY <1>6, ControllerAssumption DEF ReconcileStatus, ReadsFail, TypeOK
  <2> QED
    BY <1>6, <2>4, <2>5 DEF ReconcileStatus, TypeOK, apiVars, cacheVars, downVars
<1>7. ASSUME NEW refused \in SUBSET SinkNames, Build(refused) PROVE TypeOK'
  <2>1. config' \in Config
    <3>1. obj.spec \in ExportPolicySpec
      BY ControllerAssumption DEF TypeOK, Version
    <3>2. secretCache \in [Secrets -> SecretContents]
      BY DEF TypeOK
    <3> QED
      BY <1>7, <3>1, <3>2, VectorConfigType DEF Build
  <2>2. faults' \in 0..MaxFaults
    BY <1>7, ControllerAssumption DEF Build, ReadsFail, TypeOK
  <2>3. missed' \in BOOLEAN
    BY <1>7 DEF Build
  <2> QED
    BY <1>7, <2>1, <2>2, <2>3 DEF Build, TypeOK, Steps, apiVars, cacheVars, downVars
<1>8. CASE UpdateStatus
  <2>1. [policy EXCEPT !.status = obj.status] \in Version
    BY DEF TypeOK, Version
  <2>2. policy' \in Version /\ pending' \in Seq(Version)
    BY <1>8, <2>1, StoreType DEF UpdateStatus
  <2> QED
    BY <1>8, <2>2, DoneType DEF UpdateStatus, Retry, TypeOK, cacheVars, downVars, boundVars
<1>9. CASE BuildPanics
  BY <1>9, DoneType DEF BuildPanics, Retry, TypeOK, apiVars, cacheVars, downVars, boundVars
<1>10. CASE WriteNothing
  <2>1. missed' \in BOOLEAN
    BY <1>10 DEF WriteNothing, TypeOK
  <2> QED
    BY <1>10, <2>1, DoneType DEF WriteNothing, TypeOK, apiVars, cacheVars, downVars, boundVars
<1>11. CASE WriteConfig
  <2>1. downstream' \in [Uids -> Config \cup {NoConfig}]
    BY <1>11, Zenon DEF WriteConfig, TypeOK
  <2> QED
    BY <1>11, <2>1, DoneType DEF WriteConfig, TypeOK, apiVars, cacheVars, boundVars
<1>12. CASE WriteFails
  BY <1>12, DoneType DEF WriteFails, Retry, TypeOK, apiVars, cacheVars, downVars, boundVars
<1> QED
  BY <1>1, <1>2, <1>3, <1>4, <1>5, <1>6, <1>7, <1>8, <1>9, <1>10, <1>11, <1>12
  DEF Reconcile

\* Every step keeps the types.
LEMMA TypeInvStep == ASSUME TypeInv, [Next]_vars PROVE TypeInv'
<1>1. CASE User
  <2>1. TypeOK'
    BY <1>1, UserType DEF TypeInv
  <2>2. pc' = pc /\ obj' = obj
    BY <1>1, Zenon DEF User, CreatePolicy, UpdateSpec, DeletePolicy, UserWrites, WriteSecret, workVars
  <2> QED
    BY <2>1, <2>2 DEF TypeInv, ObjHasUid
<1>2. CASE Watch
  <2>1. TypeOK'
    BY <1>2, WatchType DEF TypeInv
  <2>2. pc' = pc /\ obj' = obj
    BY <1>2 DEF Watch, SyncPolicy, SyncSecret, SyncSecretDropped, SyncDownstream, Resync, workVars
  <2> QED
    BY <2>1, <2>2 DEF TypeInv, ObjHasUid
<1>3. CASE Reconcile
  <2>1. TypeOK'
    BY <1>3, ReconcileType
  <2>2. ObjHasUid'
    <3>1. CASE GetPolicy
      BY <3>1 DEF GetPolicy, TypeInv, TypeOK, Version, ObjHasUid
    <3>2. CASE UpdateFinalizer
      <4>1. CASE obj.deleting
        BY <3>2, <4>1 DEF UpdateFinalizer, Done, ObjHasUid
      <4>2. CASE ~obj.deleting
        BY <3>2, <4>2 DEF UpdateFinalizer, Finalized, TypeInv, TypeOK, Version, ObjHasUid
      <4> QED
        BY <4>1, <4>2
    <3>3. ASSUME NEW refused, ReconcileStatus(refused) PROVE ObjHasUid'
      <4>1. obj'.uid = obj.uid
        BY <3>3 DEF ReconcileStatus, TypeInv, TypeOK, Version
      <4> QED
        BY <3>3, <4>1 DEF ReconcileStatus, TypeInv, ObjHasUid
    <3>4. CASE GetMissing
      BY <3>4 DEF GetMissing, workVars, TypeInv, ObjHasUid
    <3>5. CASE FinalizeDelete
      BY <3>5 DEF FinalizeDelete, TypeInv, ObjHasUid
    <3>6. ASSUME NEW refused, Build(refused) PROVE ObjHasUid'
      BY <3>6 DEF Build, TypeInv, ObjHasUid
    <3>7. CASE Done
      BY <3>7 DEF Done, ObjHasUid
    <3> QED
      BY <1>3, <3>1, <3>2, <3>3, <3>4, <3>5, <3>6, <3>7
      DEF Reconcile, Conflict, UpdateStatus, BuildPanics, WriteNothing, WriteConfig,
          WriteFails, Retry
  <2> QED
    BY <2>1, <2>2 DEF TypeInv
<1>4. CASE CallFails
  <2>1. faults' \in 0..MaxFaults
    BY <1>4, ControllerAssumption DEF CallFails, TypeInv, TypeOK
  <2>2. TypeOK'
    BY <1>4, <2>1, DoneType
    DEF CallFails, Retry, TypeInv, TypeOK, apiVars, cacheVars, downVars
  <2> QED
    BY <1>4, <2>2 DEF CallFails, Retry, Done, TypeInv, ObjHasUid
<1>5. CASE Restart
  <2>1. faults' \in 0..MaxFaults
    BY <1>5, ControllerAssumption DEF Restart, TypeInv, TypeOK
  <2>2. queued' \in BOOLEAN /\ pending' \in Seq(Version)
    BY <1>5 DEF Restart
  <2>3. TypeOK'
    BY <1>5, <2>1, <2>2, DoneType DEF Restart, TypeInv, TypeOK
  <2> QED
    BY <1>5, <2>3 DEF Restart, Done, TypeInv, ObjHasUid
<1>6. CASE UNCHANGED vars
  BY <1>6 DEF vars, apiVars, cacheVars, downVars, workVars, boundVars, TypeInv, TypeOK, ObjHasUid
<1> QED
  BY <1>1, <1>2, <1>3, <1>4, <1>5, <1>6 DEF Next

\* The types hold at first.
LEMMA TypeInvInit == Init => TypeInv
<1> SUFFICES ASSUME Init PROVE TypeInv
  OBVIOUS
<1>1. pending \in Seq(Version)
  BY DEF Init
<1>2. secret \in [Secrets -> SecretContents]
  BY DEF Init, SecretContents
<1>3. created \in 0..MaxPolicies /\ edits \in 0..MaxEdits /\ faults \in 0..MaxFaults
  BY ControllerAssumption DEF Init
<1> QED
  BY <1>1, <1>2, <1>3, NoPolicyType, Zenon DEF Init, TypeInv, TypeOK, ObjHasUid, Steps

\* Every variable keeps its type, for any specs and bounds; in particular no
\* configuration holds anything but the credentials of a well-formed Secret
\* (vector_configuration.go: createVectorConfiguration).
THEOREM TypeCorrect == Spec => []TypeOK
<1>1. TypeInv /\ [Next]_vars => TypeInv'
  BY TypeInvStep
<1>2. TypeInv => TypeOK
  BY DEF TypeInv
<1> QED
  BY <1>1, <1>2, TypeInvInit, PTL DEF Spec
-----------------------------------------------------------------------------
(***************************************************************************)
(* No orphaned Secret.  The invariant says what old copies still tell: a   *)
(* copy with the finalizer and no deletion mark, however old, is of the    *)
(* object that exists, because the object can only go away after a         *)
(* Reconcile whose copy was the last version, at a moment when the cache   *)
(* held that version too.                                                  *)
(***************************************************************************)
\* A copy that Reconcile would write a Secret for is of the existing object.
Backed(v) ==
    v.uid # NoUid /\ v.finalizer /\ ~v.deleting => policy.uid = v.uid /\ policy.finalizer

\* The watch ends at the version that the API server holds.
CacheLeadsToPolicy ==
    IF pending = <<>> THEN cached = policy ELSE pending[Len(pending)] = policy

CopiesBacked ==
    /\ Backed(cached)
    /\ \A i \in 1..Len(pending) : Backed(pending[i])

Writing == {"status", "updateStatus", "build", "write"}

WorkerInv ==
    /\ pc \in Writing => policy.uid = obj.uid /\ policy.finalizer
    /\ pc \in {"delete", "update"} /\ fresh =>
         policy = obj /\ cached = obj /\ pending = <<>>
    /\ pc = "delete" => obj.deleting /\ obj.finalizer
    /\ pc = "update" /\ obj.deleting => downstream[obj.uid] = NoConfig

Safe == NoOrphan /\ CacheLeadsToPolicy /\ CopiesBacked /\ WorkerInv

IInv == TypeInv /\ Safe

\* Storing a version that leaves every earlier copy backed.
LEMMA StoreBacked ==
    ASSUME TypeOK, CopiesBacked, NEW v \in Version, Store(v), cached' = cached,
           policy.uid # NoUid /\ policy.finalizer => v.uid = policy.uid /\ v.finalizer
    PROVE  CacheLeadsToPolicy' /\ CopiesBacked'
<1>1. ASSUME NEW w, Backed(w) PROVE Backed(w)'
  BY <1>1 DEF Backed, Store
<1>2. pending' = Append(pending, v) /\ policy' = v /\ pending \in Seq(Version)
  BY DEF Store, TypeOK
<1>3. Len(pending') = Len(pending) + 1 /\ pending'[Len(pending')] = v /\ pending' # <<>>
  BY <1>2
<1>4. \A i \in 1..Len(pending) : pending'[i] = pending[i]
  BY <1>2
<1>5. CacheLeadsToPolicy'
  BY <1>2, <1>3 DEF CacheLeadsToPolicy
<1>6. Backed(cached)'
  BY <1>1 DEF CopiesBacked, Backed, Store
<1>7. ASSUME NEW i \in 1..Len(pending') PROVE Backed(pending[i])'
  <2>1. CASE i = Len(pending')
    BY <1>2, <1>3, <2>1 DEF Backed
  <2>2. CASE i # Len(pending')
    <3>1. i \in 1..Len(pending)
      BY <1>2, <1>3, <2>2
    <3>2. Backed(pending[i])
      BY <3>1 DEF CopiesBacked
    <3> QED
      BY <1>2, <1>4, <3>1, <3>2 DEF Backed
  <2> QED
    BY <2>1, <2>2
<1> QED
  BY <1>5, <1>6, <1>7 DEF CopiesBacked

\* Users leave every copy backed: they cannot remove the object.
LEMMA UserKeeps == ASSUME IInv, User PROVE Safe'
<1> USE DEF IInv, TypeInv, Safe
<1>1. ASSUME NEW v \in Version, UserWrites(v),
             policy.uid # NoUid /\ policy.finalizer => v.uid = policy.uid /\ v.finalizer
      PROVE  Safe'
  <2>1. Store(v) /\ cached' = cached /\ policy' = v /\ fresh' = FALSE /\ pc' = pc /\ obj' = obj
        /\ downstream' = downstream
    BY <1>1 DEF UserWrites, Store, cacheVars, downVars
  <2>2. CacheLeadsToPolicy' /\ CopiesBacked'
    BY <1>1, <2>1, StoreBacked
  <2>3. NoOrphan'
    BY <1>1, <2>1 DEF NoOrphan, Uids, NoUid
  <2>4. WorkerInv'
    BY <1>1, <2>1, ControllerAssumption DEF WorkerInv, ObjHasUid, Writing, Uids, NoUid
  <2> QED
    BY <2>2, <2>3, <2>4
<1>2. ASSUME NEW s \in Specs, CreatePolicy(s)
      PROVE  Safe'
  <2>1. created + 1 \in Uids
    BY <1>2, ControllerAssumption DEF CreatePolicy, TypeOK, Uids
  <2>2. [NoPolicy EXCEPT !.uid = created + 1, !.spec = s] \in Version
    BY <2>1, NoPolicyType, Zenon DEF Version
  <2> QED
    BY <1>1, <1>2, <2>2 DEF CreatePolicy
<1>3. ASSUME NEW s \in Specs, UpdateSpec(s)
      PROVE  Safe'
  <2> DEFINE v == [policy EXCEPT !.spec = s, !.status.current = FALSE]
  <2>1. [policy.status EXCEPT !.current = FALSE] \in Status
    BY Zenon DEF TypeOK, Version, Status
  <2>2. v \in Version /\ v.uid = policy.uid /\ v.finalizer = policy.finalizer
    BY <2>1, Zenon DEF TypeOK, Version
  <2> HIDE DEF v
  <2>3. UserWrites(v)
    BY <1>3 DEF UpdateSpec, v
  <2> QED
    BY <1>1, <2>2, <2>3
<1>4. ASSUME DeletePolicy
      PROVE  Safe'
  <2>1. CASE policy.finalizer
    <3> DEFINE v == [policy EXCEPT !.deleting = TRUE]
    <3>1. v \in Version /\ v.uid = policy.uid /\ v.finalizer = policy.finalizer
      BY Zenon DEF TypeOK, Version
    <3> HIDE DEF v
    <3>2. UserWrites(v)
      BY <1>4, <2>1 DEF DeletePolicy, v
    <3> QED
      BY <1>1, <3>1, <3>2
  <2>2. CASE ~policy.finalizer
    BY <1>1, <1>4, <2>2, NoPolicyType DEF DeletePolicy
  <2> QED
    BY <2>1, <2>2
<1>5. ASSUME NEW s \in Secrets, NEW c \in SecretContents, WriteSecret(s, c)
      PROVE  Safe'
  BY <1>5 DEF WriteSecret, NoOrphan, CacheLeadsToPolicy, CopiesBacked, Backed, WorkerInv,
              cacheVars, downVars, workVars
<1> QED
  BY <1>2, <1>3, <1>4, <1>5 DEF User

\* The watches only move copies.
LEMMA WatchKeeps == ASSUME IInv, Watch PROVE Safe'
<1> USE DEF IInv, TypeInv, Safe
<1>1. CASE SyncPolicy
  <2>1. /\ pending \in Seq(Version) /\ pending # <<>>
        /\ cached' = Head(pending) /\ pending' = Tail(pending)
        /\ policy' = policy /\ downstream' = downstream
        /\ pc' = pc /\ obj' = obj /\ fresh' = fresh
    BY <1>1 DEF SyncPolicy, TypeOK, downVars, workVars
  <2>2. Len(pending') = Len(pending) - 1 /\ cached' = pending[1] /\ Len(pending) \in Nat \ {0}
    BY <2>1
  <2>3. \A i \in 1..Len(pending') : pending'[i] = pending[i + 1] /\ i + 1 \in 1..Len(pending)
    BY <2>1, <2>2
  <2>4. CacheLeadsToPolicy'
    <3>1. pending[Len(pending)] = policy
      BY <2>1 DEF CacheLeadsToPolicy
    <3>2. CASE pending' = <<>>
      <4>1. Len(pending) = 1
        BY <2>2, <3>2
      <4> QED
        BY <2>1, <2>2, <3>1, <3>2, <4>1 DEF CacheLeadsToPolicy
    <3>3. CASE pending' # <<>>
      <4>1. Len(pending') \in 1..Len(pending')
        BY <2>1, <2>2, <3>3
      <4>2. pending'[Len(pending')] = pending[Len(pending)]
        BY <2>2, <2>3, <4>1
      <4> QED
        BY <2>1, <3>1, <3>3, <4>2 DEF CacheLeadsToPolicy
    <3> QED
      BY <3>2, <3>3
  <2>5. CopiesBacked'
    <3>1. \A i \in 1..Len(pending) : Backed(pending[i])
      BY DEF CopiesBacked
    <3>2. Backed(pending[1])
      BY <2>2, <3>1
    <3>3. ASSUME NEW i \in 1..Len(pending') PROVE Backed(pending'[i])
      BY <2>3, <3>1
    <3> QED
      BY <2>1, <2>2, <3>2, <3>3 DEF CopiesBacked, Backed
  <2>6. WorkerInv'
    BY <2>1 DEF WorkerInv
  <2>7. NoOrphan'
    BY <2>1 DEF NoOrphan
  <2> QED
    BY <2>4, <2>5, <2>6, <2>7
<1>2. ASSUME UNCHANGED <<policy, pending, cached, downstream, pc, obj, fresh>>
      PROVE  Safe'
  BY <1>2 DEF NoOrphan, CacheLeadsToPolicy, CopiesBacked, Backed, WorkerInv
<1>3. ASSUME NEW s \in Secrets, SyncSecret(s) \/ SyncSecretDropped(s)
      PROVE  UNCHANGED <<policy, pending, cached, downstream, pc, obj, fresh>>
  BY <1>3 DEF SyncSecret, SyncSecretDropped, apiVars, downVars, workVars
<1>4. ASSUME NEW u \in Uids, SyncDownstream(u)
      PROVE  UNCHANGED <<policy, pending, cached, downstream, pc, obj, fresh>>
  BY <1>4 DEF SyncDownstream, apiVars, cacheVars, workVars
<1>5. ASSUME Resync
      PROVE  UNCHANGED <<policy, pending, cached, downstream, pc, obj, fresh>>
  BY <1>5 DEF Resync, apiVars, cacheVars, downVars, workVars
<1> QED
  BY <1>1, <1>2, <1>3, <1>4, <1>5 DEF Watch

\* Reconcile writes for backed copies only, and removes the Secret first.
LEMMA ReconcileKeeps == ASSUME IInv, Reconcile PROVE Safe'
<1> USE DEF IInv, TypeInv, Safe
<1>0. ASSUME UNCHANGED <<policy, pending, cached>>
      PROVE  CacheLeadsToPolicy' /\ CopiesBacked'
  BY <1>0 DEF CacheLeadsToPolicy, CopiesBacked, Backed
<1>1. ASSUME Done, UNCHANGED <<policy, pending, cached, downstream>> PROVE Safe'
  BY <1>0, <1>1 DEF Done, NoOrphan, WorkerInv, Writing
<1>2. CASE GetMissing
  BY <1>2 DEF GetMissing, apiVars, cacheVars, downVars, workVars, NoOrphan,
              CacheLeadsToPolicy, CopiesBacked, Backed, WorkerInv
<1>3. CASE GetPolicy
  <2>1. /\ UNCHANGED <<policy, pending, cached, downstream>>
        /\ obj' = cached /\ fresh' = (pending = <<>>) /\ pc' = AfterGet(cached)
        /\ cached.uid # NoUid
    BY <1>3 DEF GetPolicy, apiVars, cacheVars, downVars
  <2>2. cached.deleting \in BOOLEAN /\ cached.finalizer \in BOOLEAN
    BY DEF TypeOK, Version
  <2>3. pc' \in Writing => cached.finalizer /\ ~cached.deleting
    BY <2>1, <2>2 DEF AfterGet, Writing
  <2>4. pc' = "delete" => cached.deleting /\ cached.finalizer
    BY <2>1, <2>2 DEF AfterGet
  <2>5. pc' = "update" => ~cached.deleting
    BY <2>1, <2>2 DEF AfterGet
  <2>6. fresh' => cached = policy /\ pending = <<>>
    BY <2>1, Zenon DEF CacheLeadsToPolicy
  <2>7. WorkerInv'
    BY <2>1, <2>3, <2>4, <2>5, <2>6 DEF WorkerInv, CopiesBacked, Backed
  <2> QED
    BY <1>0, <2>1, <2>7 DEF NoOrphan
<1>4. CASE FinalizeDelete
  <2>1. /\ UNCHANGED <<policy, pending, cached, obj, fresh>>
        /\ pc = "delete" /\ pc' = "update"
        /\ downstream' = [downstream EXCEPT ![obj.uid] = NoConfig]
    BY <1>4 DEF FinalizeDelete, Deleted, apiVars, cacheVars
  <2>2. downstream'[obj.uid] = NoConfig
    BY <2>1 DEF ObjHasUid, TypeOK
  <2>3. NoOrphan'
    BY <2>1 DEF NoOrphan, TypeOK
  <2>4. WorkerInv'
    BY <2>1, <2>2 DEF WorkerInv, Writing
  <2> QED
    BY <1>0, <2>1, <2>3, <2>4
<1>5. CASE UpdateFinalizer
  <2>1. /\ policy = obj /\ cached = obj /\ pending = <<>>
        /\ Store(Finalized(obj)) /\ UNCHANGED <<cached, downstream>>
    BY <1>5 DEF UpdateFinalizer, WorkerInv, cacheVars, downVars
  <2>2. CASE obj.deleting
    <3>1. policy' = NoPolicy /\ pending' = <<NoPolicy>> /\ Done
      BY <1>5, <2>1, <2>2 DEF UpdateFinalizer, Store, Finalized
    <3>2. NoOrphan'
      BY <1>5, <2>1, <2>2, <3>1 DEF UpdateFinalizer, NoOrphan, WorkerInv
    <3>3. CacheLeadsToPolicy'
      BY <3>1 DEF CacheLeadsToPolicy
    <3>4. CopiesBacked'
      <4>1. \A i \in 1..Len(pending') : pending'[i] = NoPolicy
        BY <3>1
      <4>2. Backed(NoPolicy)'
        BY DEF Backed, NoPolicy
      <4>3. Backed(cached)'
        BY <2>1, <2>2 DEF Backed
      <4> QED
        BY <4>1, <4>2, <4>3 DEF CopiesBacked
    <3>5. WorkerInv'
      BY <3>1 DEF Done, WorkerInv, Writing
    <3> QED
      BY <3>2, <3>3, <3>4, <3>5
  <2>3. CASE ~obj.deleting
    <3> DEFINE v == Finalized(obj)
    <3>1. v \in Version /\ v.uid = obj.uid /\ v.finalizer
      BY <2>3, Zenon DEF Finalized, TypeOK, Version
    <3>2. obj' = v /\ pc' = "status" /\ policy' = v
      BY <1>5, <2>1, <2>3 DEF UpdateFinalizer, Store
    <3> HIDE DEF v
    <3>3. CacheLeadsToPolicy' /\ CopiesBacked'
      BY <2>1, <3>1, StoreBacked DEF v
    <3>4. NoOrphan'
      BY <2>1, <3>1, <3>2 DEF NoOrphan
    <3>5. WorkerInv'
      BY <3>1, <3>2 DEF WorkerInv, Writing
    <3> QED
      BY <3>3, <3>4, <3>5
  <2> QED
    BY <2>2, <2>3
<1>6. ASSUME NEW refused, ReconcileStatus(refused) PROVE Safe'
  <2>1. /\ UNCHANGED <<policy, pending, cached, downstream>>
        /\ pc = "status" /\ pc' \in {"updateStatus", "build"}
    BY <1>6 DEF ReconcileStatus, apiVars, cacheVars, downVars
  <2>2. obj'.uid = obj.uid
    BY <1>6 DEF ReconcileStatus, TypeOK, Version
  <2> QED
    BY <1>0, <2>1, <2>2 DEF NoOrphan, WorkerInv, Writing
<1>7. ASSUME NEW refused, Build(refused) PROVE Safe'
  <2>1. /\ UNCHANGED <<policy, pending, cached, downstream, obj>>
        /\ pc = "build" /\ pc' = "write"
    BY <1>7 DEF Build, apiVars, cacheVars, downVars
  <2> QED
    BY <1>0, <2>1 DEF NoOrphan, WorkerInv, Writing
<1>8. CASE UpdateStatus
  <2> DEFINE v == [policy EXCEPT !.status = obj.status]
  <2>1. v \in Version /\ v.uid = policy.uid /\ v.finalizer = policy.finalizer
    BY DEF TypeOK, Version
  <2> HIDE DEF v
  <2>2. Store(v) /\ Done /\ UNCHANGED <<cached, downstream>>
    BY <1>8 DEF UpdateStatus, Retry, cacheVars, downVars, v
  <2>3. CacheLeadsToPolicy' /\ CopiesBacked'
    BY <2>1, <2>2, StoreBacked
  <2>4. NoOrphan'
    BY <2>1, <2>2 DEF Store, NoOrphan
  <2> QED
    BY <2>2, <2>3, <2>4 DEF Done, WorkerInv, Writing
<1>9. CASE WriteConfig
  <2>1. /\ UNCHANGED <<policy, pending, cached>> /\ Done /\ pc = "write"
        /\ downstream' = [downstream EXCEPT ![obj.uid] = config]
    BY <1>9 DEF WriteConfig, apiVars, cacheVars
  <2>2. NoOrphan'
    BY <2>1 DEF NoOrphan, WorkerInv, Writing, TypeOK
  <2> QED
    BY <1>0, <2>1, <2>2 DEF Done, WorkerInv, Writing
<1>10. CASE Conflict \/ BuildPanics \/ WriteNothing \/ WriteFails
  BY <1>1, <1>10 DEF Conflict, BuildPanics, WriteNothing, WriteFails, Retry,
                     apiVars, cacheVars, downVars
<1> QED
  BY <1>2, <1>3, <1>4, <1>5, <1>6, <1>7, <1>8, <1>9, <1>10 DEF Reconcile

\* Every step keeps the invariant.
LEMMA IInvStep == ASSUME IInv, [Next]_vars PROVE IInv'
<1>1. TypeInv'
  BY TypeInvStep DEF IInv
<1>2. CASE CallFails
  <2>1. Done /\ UNCHANGED <<policy, pending, cached, downstream>>
    BY <1>2 DEF CallFails, Retry, apiVars, cacheVars, downVars
  <2>2. WorkerInv'
    BY <2>1 DEF Done, WorkerInv, Writing
  <2>3. NoOrphan' /\ CacheLeadsToPolicy'
    BY <2>1 DEF IInv, Safe, NoOrphan, CacheLeadsToPolicy
  <2>4. CopiesBacked'
    BY <2>1 DEF IInv, Safe, CopiesBacked, Backed
  <2> QED
    BY <1>1, <2>2, <2>3, <2>4 DEF IInv, Safe
<1>3. CASE Restart
  <2>1. cached' = policy /\ pending' = <<>> /\ policy' = policy /\ downstream' = downstream /\ Done
    BY <1>3 DEF Restart
  <2>2. NoOrphan' /\ CacheLeadsToPolicy' /\ WorkerInv'
    BY <2>1 DEF Done, IInv, Safe, NoOrphan, CacheLeadsToPolicy, WorkerInv, Writing
  <2>3. Backed(cached)'
    BY <2>1 DEF Backed
  <2>4. \A i \in 1..Len(pending') : Backed(pending[i])'
    BY <2>1
  <2> QED
    BY <1>1, <2>2, <2>3, <2>4 DEF IInv, Safe, CopiesBacked
<1>4. CASE UNCHANGED vars
  BY <1>1, <1>4 DEF vars, apiVars, cacheVars, downVars, workVars, IInv, Safe, NoOrphan,
              CacheLeadsToPolicy, CopiesBacked, Backed, WorkerInv
<1> QED
  BY <1>1, <1>2, <1>3, <1>4, UserKeeps, WatchKeeps, ReconcileKeeps DEF Next, IInv

\* There is no policy at first, and nothing downstream.
LEMMA InitIInv == Init => IInv
<1> SUFFICES ASSUME Init PROVE Safe
  BY TypeInvInit DEF IInv
<1>1. NoOrphan
  BY DEF Init, NoOrphan
<1>2. pending = <<>> /\ cached = policy /\ policy.uid = NoUid
  BY DEF Init, NoPolicy
<1>3. CacheLeadsToPolicy /\ CopiesBacked
  <2>1. CacheLeadsToPolicy
    BY <1>2 DEF CacheLeadsToPolicy
  <2>2. Backed(cached)
    BY <1>2 DEF Backed
  <2>3. \A i \in 1..Len(pending) : Backed(pending[i])
    BY <1>2
  <2> QED
    BY <2>1, <2>2, <2>3 DEF CopiesBacked
<1>4. WorkerInv
  BY DEF Init, WorkerInv, Writing
<1> QED
  BY <1>1, <1>3, <1>4 DEF Safe

\* However old the copies are that Reconcile works on, whatever calls fail and
\* whenever the operator restarts, a downstream Secret belongs to a policy that
\* exists and has the finalizer (export_policy_controller.go: Reconcile).
THEOREM NoSecretIsOrphaned == Spec => []NoOrphan
<1>1. Init => IInv
  BY InitIInv
<1>2. IInv /\ [Next]_vars => IInv'
  BY IInvStep
<1>3. IInv => NoOrphan
  BY DEF IInv, Safe
<1> QED
  BY <1>1, <1>2, <1>3, PTL DEF Spec
-----------------------------------------------------------------------------
(***************************************************************************)
(* Nothing is overlooked.  While the name is not queued, Reconcile works   *)
(* on what the caches hold: whatever reaches a cache meanwhile queues the  *)
(* name, is counted as missed, or is of no concern to the policy.          *)
(***************************************************************************)
\* The configuration that the caches call for.
CachedConfig == VectorConfig(cached.spec, secretCache, {})

\* Reconcile's copy is of the version in the cache.
CopyIsCached ==
    pc # "idle" /\ ~queued =>
        /\ cached.uid # NoUid
        /\ obj.uid = cached.uid /\ obj.spec = cached.spec /\ obj.deleting = cached.deleting

\* What it is about to write is what the caches call for.
BuiltFromCaches ==
    pc = "write" /\ ~queued /\ ~missed => config = CachedConfig

\* Once it is done, what the caches call for is there.
IdleMatches ==
    pc = "idle" /\ ~queued /\ ~missed /\ cached.uid # NoUid /\ ~cached.deleting =>
        downstream[cached.uid] = CachedConfig

NothingOverlooked == CopyIsCached /\ BuiltFromCaches /\ IdleMatches

\* A Secret that the policy does not refer to has no part in its
\* configuration (referencesSecret, getSinkVectorConfig).
LEMMA UnreferencedSecret ==
    ASSUME NEW spec \in ExportPolicySpec, NEW secrets \in [Secrets -> SecretContents],
           NEW s \in Secrets, NEW content, ~referencesSecret(spec, s)
    PROVE  VectorConfig(spec, [secrets EXCEPT ![s] = content], {}) = VectorConfig(spec, secrets, {})
<1> DEFINE other == [secrets EXCEPT ![s] = content]
           S(x) == {k \in DOMAIN spec.sinks : SinkIsConfigured(spec, x, {}, k)}
<1>1. ASSUME NEW k \in DOMAIN spec.sinks, spec.sinks[k].target.type = "basicAuth"
      PROVE  other[spec.sinks[k].target.secret] = secrets[spec.sinks[k].target.secret]
  <2>1. spec.sinks[k] \in Sink
    BY SpecSinks
  <2>2. spec.sinks[k].target.secret \in Secrets \ {s}
    BY <1>1, <2>1, SinkTarget DEF referencesSecret, SinksWithSecret
  <2> QED
    BY <2>2
<1> HIDE DEF other
<1>2. ASSUME NEW k \in DOMAIN spec.sinks
      PROVE  SinkIsConfigured(spec, other, {}, k) <=> SinkIsConfigured(spec, secrets, {}, k)
  BY <1>1, Zenon DEF SinkIsConfigured
<1>3. S(other) = S(secrets)
  BY <1>2, Zenon
<1>4. ASSUME NEW k \in S(secrets)
      PROVE  SinkConfig(spec.sinks[k], other) = SinkConfig(spec.sinks[k], secrets)
  <2>1. spec.sinks[k].target.type \in {"open", "basicAuth"}
    BY DEF SinkIsConfigured
  <2> QED
    BY <1>1, <2>1 DEF SinkConfig
<1> HIDE DEF S
<1>5. [k \in S(other) |-> SinkConfig(spec.sinks[k], other)] =
      [k \in S(secrets) |-> SinkConfig(spec.sinks[k], secrets)]
  BY <1>3, <1>4
<1>6. VectorConfig(spec, other, {}) = VectorConfig(spec, secrets, {})
  BY <1>5 DEF VectorConfig, S
<1> QED
  BY <1>6 DEF other

\* Users change neither the caches nor what Reconcile does.
LEMMA UserOverlooks == ASSUME NothingOverlooked, User PROVE NothingOverlooked'
<1>1. UNCHANGED <<cached, secretCache, downstream, queued, pc, obj, config, missed>>
  BY Zenon DEF User, CreatePolicy, UpdateSpec, DeletePolicy, UserWrites, WriteSecret, cacheVars,
         downVars, workVars
<1> QED
  BY <1>1 DEF NothingOverlooked, CopyIsCached, BuiltFromCaches, IdleMatches, CachedConfig

\* What the watches deliver queues the name unless it is of no concern.
LEMMA WatchOverlooks == ASSUME TypeOK, NothingOverlooked, Watch PROVE NothingOverlooked'
<1> USE DEF NothingOverlooked, CopyIsCached, BuiltFromCaches, IdleMatches
<1>1. CASE SyncPolicy \/ Resync
  BY <1>1, Zenon DEF SyncPolicy, Resync
<1>2. ASSUME NEW s \in Secrets, SyncSecretDropped(s) PROVE NothingOverlooked'
  <2>1. missed' /\ UNCHANGED <<cached, queued, pc, obj>>
    BY <1>2 DEF SyncSecretDropped, workVars
  <2> QED
    BY <2>1
<1>3. ASSUME NEW u \in Uids, SyncDownstream(u) PROVE NothingOverlooked'
  BY <1>3 DEF SyncDownstream, cacheVars, workVars, CachedConfig
<1>4. ASSUME NEW s \in Secrets, SyncSecret(s) PROVE NothingOverlooked'
  <2>1. UNCHANGED <<cached, downstream, pc, obj, config, missed>>
    BY <1>4 DEF SyncSecret, downVars, workVars
  <2>2. ~queued' => ~queued /\ (cached.uid # NoUid => ~referencesSecret(cached.spec, s))
    BY <1>4, Zenon DEF SyncSecret, EnqueueForSecret
  <2>3. ASSUME ~referencesSecret(cached.spec, s) PROVE CachedConfig' = CachedConfig
    <3>1. cached.spec \in ExportPolicySpec /\ secretCache \in [Secrets -> SecretContents]
      BY ControllerAssumption DEF TypeOK, Version
    <3>2. secretCache' = [secretCache EXCEPT ![s] = secret[s]]
      BY <1>4 DEF SyncSecret
    <3> QED
      BY <2>1, <2>3, <3>1, <3>2, UnreferencedSecret, Zenon DEF CachedConfig
  <2>4. CopyIsCached'
    BY <2>1, <2>2
  <2>5. BuiltFromCaches' /\ IdleMatches'
    BY <2>1, <2>2, <2>3
  <2> QED
    BY <2>4, <2>5
<1> QED
  BY <1>1, <1>2, <1>3, <1>4 DEF Watch
\* Whatever puts the name back leaves nothing to claim.
LEMMA RetryOverlooks == ASSUME Retry PROVE NothingOverlooked'
BY DEF Retry, Done, NothingOverlooked, CopyIsCached, BuiltFromCaches, IdleMatches

\* Reconcile builds from the caches and writes what it built.
LEMMA ReconcileOverlooks == ASSUME TypeInv, NothingOverlooked, Reconcile PROVE NothingOverlooked'
<1> USE DEF NothingOverlooked, CopyIsCached, BuiltFromCaches, IdleMatches
<1>1. CASE GetMissing
  BY <1>1, Zenon DEF GetMissing, cacheVars, workVars
<1>2. CASE GetPolicy
  <2>1. cached.deleting \in BOOLEAN /\ cached.finalizer \in BOOLEAN
    BY DEF TypeInv, TypeOK, Version
  <2>2. /\ UNCHANGED cached
        /\ obj' = cached /\ pc' = AfterGet(cached) /\ cached.uid # NoUid
    BY <1>2 DEF GetPolicy, cacheVars
  <2>3. pc' # "write" /\ (pc' = "idle" => cached.deleting)
    BY <2>1, <2>2 DEF AfterGet
  <2> QED
    BY <2>2, <2>3, Zenon
<1>3. CASE FinalizeDelete
  BY <1>3 DEF FinalizeDelete, cacheVars
<1>4. CASE UpdateFinalizer
  <2>1. pc = "update" /\ UNCHANGED <<cached, queued>>
    BY <1>4, Zenon DEF UpdateFinalizer, cacheVars
  <2>2. CASE obj.deleting
    <3>1. pc' = "idle"
      BY <1>4, <2>2 DEF UpdateFinalizer, Done
    <3>2. ~queued => cached.deleting
      BY <2>1, <2>2, Zenon
    <3>3. ~queued' => cached'.deleting
      BY <2>1, <3>2
    <3> QED
      BY <3>1, <3>3
  <2>3. CASE ~obj.deleting
    <3>1. pc' = "status" /\ obj' = [obj EXCEPT !.finalizer = TRUE]
      BY <1>4, <2>3 DEF UpdateFinalizer, Finalized
    <3>2. obj'.uid = obj.uid /\ obj'.spec = obj.spec /\ obj'.deleting = obj.deleting
      BY <3>1 DEF TypeInv, TypeOK, Version
    <3> QED
      BY <2>1, <3>1, <3>2
  <2> QED
    BY <2>2, <2>3
<1>5. CASE Conflict \/ UpdateStatus \/ BuildPanics \/ WriteFails
  BY <1>5, RetryOverlooks DEF Conflict, UpdateStatus, BuildPanics, WriteFails
<1>6. ASSUME NEW refused \in SUBSET SinkNames, ReconcileStatus(refused) PROVE NothingOverlooked'
  <2>1. /\ pc = "status" /\ UNCHANGED <<cached, queued>>
        /\ pc' \in {"updateStatus", "build"}
    BY <1>6 DEF ReconcileStatus, cacheVars
  <2>2. obj' = obj \/ \E new : obj' = [obj EXCEPT !.status = new]
    BY <1>6, Zenon DEF ReconcileStatus
  <2>3. obj'.uid = obj.uid /\ obj'.spec = obj.spec /\ obj'.deleting = obj.deleting
    BY <2>2 DEF TypeInv, TypeOK, Version
  <2> QED
    BY <2>1, <2>3
<1>7. ASSUME NEW refused \in SUBSET SinkNames, Build(refused) PROVE NothingOverlooked'
  <2>1. /\ pc = "build" /\ pc' = "write" /\ UNCHANGED <<cached, secretCache, queued, obj>>
        /\ config' = VectorConfig(obj.spec, secretCache, refused)
        /\ missed' = (refused # {})
    BY <1>7 DEF Build, cacheVars
  <2>2. ~queued' /\ ~missed' => config' = CachedConfig'
    BY <2>1, Zenon DEF CachedConfig
  <2> QED
    BY <2>1, <2>2
<1>8. CASE WriteNothing
  <2>1. /\ pc = "write" /\ pc' = "idle"
        /\ UNCHANGED <<cached, secretCache, downstream, queued>>
        /\ ~missed' => ~missed /\ downstream[obj.uid] = config
    BY <1>8, Zenon DEF WriteNothing, Done, cacheVars, downVars
  <2> QED
    BY <2>1 DEF CachedConfig
<1>9. CASE WriteConfig
  <2>1. /\ pc = "write" /\ pc' = "idle"
        /\ UNCHANGED <<cached, secretCache, queued, missed>>
        /\ downstream' = [downstream EXCEPT ![obj.uid] = config]
    BY <1>9 DEF WriteConfig, Done, cacheVars
  <2>2. downstream'[obj.uid] = config
    BY <2>1 DEF TypeInv, ObjHasUid, TypeOK
  <2> QED
    BY <2>1, <2>2 DEF CachedConfig
<1> QED
  BY <1>1, <1>2, <1>3, <1>4, <1>5, <1>6, <1>7, <1>8, <1>9 DEF Reconcile

\* Every step keeps it.
LEMMA OverlooksStep ==
    ASSUME TypeInv, NothingOverlooked, [Next]_vars PROVE NothingOverlooked'
<1>1. CASE CallFails
  BY <1>1, RetryOverlooks DEF CallFails
<1>2. CASE Restart
  BY <1>2, Zenon DEF Restart, Done, NothingOverlooked, CopyIsCached, BuiltFromCaches, IdleMatches
<1>3. CASE UNCHANGED vars
  BY <1>3 DEF vars, apiVars, cacheVars, downVars, workVars, NothingOverlooked, CopyIsCached,
              BuiltFromCaches, IdleMatches, CachedConfig
<1>4. TypeOK
  BY DEF TypeInv
<1> QED
  BY <1>1, <1>2, <1>3, <1>4, UserOverlooks, WatchOverlooks, ReconcileOverlooks DEF Next

\* When the watches have delivered everything and the queue is empty, the
\* downstream Secret of a policy is the configuration that its spec and the
\* Secrets call for, unless an event was dropped, a read failed or an old
\* cached copy was taken for the downstream Secret
\* (export_policy_controller.go: Reconcile, the Secret watch's map function).
THEOREM SettledIsConfigured == Spec => []SettledMatches
<1>1. Init => IInv /\ NothingOverlooked
  <2>1. Init => NothingOverlooked
    BY DEF Init, NoPolicy, NothingOverlooked, CopyIsCached, BuiltFromCaches, IdleMatches
  <2> QED
    BY <2>1, InitIInv
<1>2. IInv /\ NothingOverlooked /\ [Next]_vars => (IInv /\ NothingOverlooked)'
  BY IInvStep, OverlooksStep DEF IInv
<1>3. IInv /\ NothingOverlooked => SettledMatches
  BY DEF IInv, Safe, CacheLeadsToPolicy, NothingOverlooked, IdleMatches, CachedConfig,
         SettledMatches, Quiet
<1> QED
  BY <1>1, <1>2, <1>3, PTL DEF Spec
-----------------------------------------------------------------------------
(***************************************************************************)
(* The process.                                                            *)
(***************************************************************************)
AGoroutineFailed == \E g \in Goroutines : state[g] = "error"

\* The group's error is kept from the goroutine that returned it until the
\* process starts again, nothing runs before the setup is over, and nothing is
\* left running in a process whose group returned.
RunInv ==
    /\ setup \in Nat
    /\ DOMAIN state = Goroutines
    /\ failed \in BOOLEAN
    /\ failed <=> AGoroutineFailed
    /\ ~Started => \A g \in Goroutines : state[g] = "off"
    /\ exit # "none" /\ exit # "forced" /\ Started =>
         /\ \A g \in Goroutines : state[g] # "running"
         /\ exit = "1" <=> failed

\* The setup has four steps.
LEMMA SetupLength == Len(SetupSteps) = 4
BY DEF SetupSteps

\* Nothing runs at first.
LEMMA RunInvInit == ProcessInit => RunInv
<1> SUFFICES ASSUME ProcessInit PROVE RunInv
  OBVIOUS
<1>1. \A g \in Goroutines : state[g] = "off"
  BY DEF ProcessInit
<1>2. failed = FALSE /\ ~AGoroutineFailed
  BY <1>1 DEF ProcessInit, AGoroutineFailed
<1>3. setup \in Nat /\ DOMAIN state = Goroutines /\ exit = "none"
  BY DEF ProcessInit
<1> QED
  BY <1>1, <1>2, <1>3, Zenon DEF RunInv

\* A goroutine that returns is one that ran, so the process is alive.
LEMMA ReturnKeepsRunInv ==
    ASSUME RunInv, NEW g \in Goroutines, NEW outcome \in {"nil", "canceled", "error"},
           Return(g, outcome)
    PROVE  RunInv'
<1>1. Started /\ exit = "none"
  BY DEF RunInv, Return
<1>2. /\ setup' = setup /\ exit' = exit
      /\ state[g] = "running"
      /\ state' = [state EXCEPT ![g] = outcome]
      /\ failed' = (failed \/ outcome = "error")
  BY DEF Return, ignoreCanceled
<1>3. AGoroutineFailed' <=> AGoroutineFailed \/ outcome = "error"
  BY <1>2 DEF RunInv, AGoroutineFailed
<1>4. Started' /\ exit' = "none"
  BY <1>1, <1>2 DEF Started
<1>5. failed' \in BOOLEAN /\ (failed' <=> AGoroutineFailed')
  BY <1>2, <1>3, Zenon DEF RunInv
<1> QED
  BY <1>2, <1>4, <1>5 DEF RunInv

\* Every step keeps the invariant.
LEMMA RunInvStep == ASSUME RunInv, [ProcessNext]_processVars PROVE RunInv'
<1> USE DEF RunInv, AGoroutineFailed, Started
<1>1. CASE SetupSucceeds
  <2>1. \A g \in Goroutines : state[g] = "off"
    BY <1>1 DEF SetupSucceeds
  <2>2. \A g \in Goroutines : state'[g] \in {"off", "running"}
    BY <1>1, <2>1 DEF SetupSucceeds
  <2>3. ~failed' /\ failed' \in BOOLEAN /\ ~AGoroutineFailed'
    BY <1>1, <2>1, <2>2 DEF SetupSucceeds
  <2>4. ~Started' => state' = state
    BY <1>1, SetupLength DEF SetupSucceeds
  <2> QED
    BY <1>1, <2>1, <2>3, <2>4, SetupLength DEF SetupSucceeds
<1>2. CASE SetupFails
  BY <1>2 DEF SetupFails
<1>3. CASE ModeRefused
  BY <1>3 DEF ModeRefused
<1>4. ASSUME NEW g \in Goroutines, Stop(g) PROVE RunInv'
  BY <1>4, ReturnKeepsRunInv DEF Stop
<1>5. ASSUME NEW g \in Goroutines, Leave(g) PROVE RunInv'
  BY <1>5, ReturnKeepsRunInv DEF Leave
<1>6. CASE Signal \/ SignalAgain
  BY <1>6 DEF Signal, SignalAgain
<1>7. CASE Exit
  BY <1>7 DEF Exit
<1>8. CASE RestartProcess
  BY <1>8, SetupLength, Zenon DEF RestartProcess
<1>9. CASE UNCHANGED processVars
  BY <1>9 DEF processVars
<1> QED
  BY <1>1, <1>2, <1>3, <1>4, <1>5, <1>6, <1>7, <1>8, <1>9 DEF ProcessNext

\* A process whose group returned exits with an error just when a goroutine of
\* the group did (main.go: runUntilManagerStops, ignoreCanceled), whatever the
\* order in which they return and however often the process starts again.
THEOREM ExitStatusIsRight == ProcessSpec => []ExitReportsError
<1>1. RunInv => ExitReportsError
  BY DEF RunInv, ExitReportsError, AGoroutineFailed
<1> QED
  BY RunInvInit, RunInvStep, <1>1, PTL DEF ProcessSpec
=============================================================================
