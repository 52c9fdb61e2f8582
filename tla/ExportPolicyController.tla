----------------------- MODULE ExportPolicyController -----------------------
(***************************************************************************)
(* The ExportPolicy controller of the operator: Reconcile, its finalizer   *)
(* and its Secret watch (operator/internal/controller).  It keeps one      *)
(* downstream Secret per policy, named after the policy's UID, that holds  *)
(* the Vector configuration built from the policy and its Secrets.         *)
(*                                                                         *)
(* The model follows one policy name, whose object may be deleted and      *)
(* created again under a new UID.  The controller reads through caches     *)
(* that watches fill later, and one worker at a time handles a name.  One  *)
(* action is one API call with the computation around it: users, watches   *)
(* and crashes act between any two.                                        *)
(***************************************************************************)
EXTENDS ExportPolicy, Sequences

CONSTANTS
    Specs,        \* the specs that users write
    NoConfig,     \* no downstream Secret
    MaxPolicies,  \* bound: policy objects created under the name
    MaxEdits,     \* bound: writes by users
    MaxFaults     \* bound: failed calls and crashes

ASSUME ControllerAssumption ==
    /\ Specs \subseteq ExportPolicySpec
    /\ Specs # {}
    /\ NoConfig \notin Config
    /\ MaxPolicies \in Nat
    /\ MaxEdits \in Nat
    /\ MaxFaults \in Nat

VARIABLES
    policy,      \* the policy object at the API server
    pending,     \* versions of it that the watch has not delivered yet
    cached,      \* the version in the controller's cache
    secret,      \* secret[s]: the content of Secret s
    secretCache, \* secretCache[s]: its content in the cache
    downstream,  \* downstream[u]: configuration in the Secret for UID u
    downCache,   \* downCache[u]: the same in the downstream client's cache
    downSynced,  \* downSynced[u]: that cache has seen the last write
    queued,      \* is the policy's name in the work queue?
    pc,          \* what Reconcile does next
    obj,         \* its copy of the policy
    fresh,       \* the copy's resourceVersion is still the policy's
    config,      \* the configuration it has built
    missed,      \* a call failed, or read a stale copy, and nothing retries it
    created,     \* policy objects created so far
    edits,       \* writes by users so far
    faults       \* failed calls and crashes so far

apiVars == <<policy, pending, secret>>
cacheVars == <<cached, secretCache>>
downVars == <<downstream, downCache, downSynced>>
workVars == <<pc, obj, fresh, config>>
boundVars == <<created, edits, faults>>
vars == <<apiVars, cacheVars, downVars, queued, workVars, missed, boundVars>>

Uids == 1..MaxPolicies
NoUid == 0

\* A version of the ExportPolicy object.
Version == [uid : Uids \cup {NoUid}, spec : Specs, status : Status,
            deleting : BOOLEAN, finalizer : BOOLEAN]

\* No object under the name.
NoPolicy == [uid |-> NoUid, spec |-> CHOOSE s \in Specs : TRUE,
             status |-> NoStatus, deleting |-> FALSE, finalizer |-> FALSE]

Steps == {"idle", "delete", "update", "status", "updateStatus", "build", "write"}

TypeOK ==
    /\ policy \in Version
    /\ pending \in Seq(Version)
    /\ cached \in Version
    /\ secret \in [Secrets -> SecretContents]
    /\ secretCache \in [Secrets -> SecretContents]
    /\ downstream \in [Uids -> Config \cup {NoConfig}]
    /\ downCache \in [Uids -> Config \cup {NoConfig}]
    /\ downSynced \in [Uids -> BOOLEAN]
    /\ queued \in BOOLEAN
    /\ pc \in Steps
    /\ obj \in Version
    /\ fresh \in BOOLEAN
    /\ config \in Config \cup {NoConfig}
    /\ missed \in BOOLEAN
    /\ created \in 0..MaxPolicies
    /\ edits \in 0..MaxEdits
    /\ faults \in 0..MaxFaults

Init ==
    /\ policy = NoPolicy
    /\ pending = <<>>
    /\ cached = NoPolicy
    /\ secret = [s \in Secrets |-> "absent"]
    /\ secretCache = secret
    /\ downstream = [u \in Uids |-> NoConfig]
    /\ downCache = downstream
    /\ downSynced = [u \in Uids |-> TRUE]
    /\ queued = FALSE
    /\ pc = "idle"
    /\ obj = NoPolicy
    /\ fresh = FALSE
    /\ config = NoConfig
    /\ missed = FALSE
    /\ created = 0
    /\ edits = 0
    /\ faults = 0
-----------------------------------------------------------------------------
(***************************************************************************)
(* Users.  The API server stores a version of the object, which the watch  *)
(* will deliver; any copy read before is then out of date.                 *)
(***************************************************************************)
Store(v) ==
    /\ policy' = v
    /\ pending' = Append(pending, v)

UserWrites(v) ==
    /\ edits < MaxEdits
    /\ edits' = edits + 1
    /\ Store(v)
    /\ fresh' = FALSE
    /\ UNCHANGED <<secret, cacheVars, downVars, queued, pc, obj, config, missed, faults>>

CreatePolicy(s) ==
    /\ policy.uid = NoUid
    /\ created < MaxPolicies
    /\ created' = created + 1
    /\ UserWrites([NoPolicy EXCEPT !.uid = created + 1, !.spec = s])

\* A new spec raises the generation past what the status has observed.
UpdateSpec(s) ==
    /\ policy.uid # NoUid
    /\ s # policy.spec
    /\ UserWrites([policy EXCEPT !.spec = s, !.status.current = FALSE])
    /\ UNCHANGED created

\* The object stays, marked, as long as it has a finalizer.
DeletePolicy ==
    /\ policy.uid # NoUid
    /\ ~policy.deleting
    /\ UserWrites(IF policy.finalizer THEN [policy EXCEPT !.deleting = TRUE] ELSE NoPolicy)
    /\ UNCHANGED created

WriteSecret(s, content) ==
    /\ edits < MaxEdits
    /\ content # secret[s]
    /\ edits' = edits + 1
    /\ secret' = [secret EXCEPT ![s] = content]
    /\ UNCHANGED <<policy, pending, cacheVars, downVars, queued, workVars,
                   missed, created, faults>>
-----------------------------------------------------------------------------
(***************************************************************************)
(* Watches.                                                                *)
(***************************************************************************)
SyncPolicy ==
    /\ pending # <<>>
    /\ cached' = Head(pending)
    /\ pending' = Tail(pending)
    /\ queued' = TRUE
    /\ UNCHANGED <<policy, secret, secretCache, downVars, workVars, missed, boundVars>>

\* Mutant: the map function returns no request.
EnqueueForSecretNever(s) == queued' = queued

\* The map function of the Secret watch lists the policies in the cache.
EnqueueForSecret(s) ==
    queued' = (queued \/ (cached.uid # NoUid /\ referencesSecret(cached.spec, s)))

SyncSecret(s) ==
    /\ secretCache[s] # secret[s]
    /\ secretCache' = [secretCache EXCEPT ![s] = secret[s]]
    /\ EnqueueForSecret(s)
    /\ UNCHANGED <<apiVars, cached, downVars, workVars, missed, boundVars>>

\* Its List fails: the event is logged and dropped.
SyncSecretDropped(s) ==
    /\ faults < MaxFaults
    /\ secretCache[s] # secret[s]
    /\ secretCache' = [secretCache EXCEPT ![s] = secret[s]]
    /\ missed' = TRUE
    /\ faults' = faults + 1
    /\ UNCHANGED <<apiVars, cached, downVars, queued, workVars, created, edits>>

SyncDownstream(u) ==
    /\ ~downSynced[u]
    /\ downCache' = [downCache EXCEPT ![u] = downstream[u]]
    /\ downSynced' = [downSynced EXCEPT ![u] = TRUE]
    /\ UNCHANGED <<apiVars, cacheVars, downstream, queued, workVars, missed, boundVars>>

\* The informer replays its cache (by default every ten hours).
Resync ==
    /\ cached.uid # NoUid
    /\ ~queued
    /\ queued' = TRUE
    /\ UNCHANGED <<apiVars, cacheVars, downVars, workVars, missed, boundVars>>
-----------------------------------------------------------------------------
(***************************************************************************)
(* Reconcile.                                                              *)
(***************************************************************************)
Done ==
    /\ pc' = "idle"
    /\ obj' = NoPolicy
    /\ fresh' = FALSE
    /\ config' = NoConfig

\* An error, a recovered panic and Requeue put the name back in the queue.
Retry ==
    /\ Done
    /\ queued' = TRUE

\* The policy is not in the cache: assumed deleted.
GetMissing ==
    /\ pc = "idle"
    /\ queued
    /\ cached.uid = NoUid
    /\ queued' = FALSE
    /\ UNCHANGED <<apiVars, cacheVars, downVars, workVars, missed, boundVars>>

\* Mutant: no finalizer is registered for a policy that has none.
AfterGetUnregistered(v) ==
    IF v.deleting THEN (IF v.finalizer THEN "delete" ELSE "idle") ELSE "status"

\* finalizers.Finalize: what the copy calls for.
AfterGet(v) ==
    CASE v.deleting /\ v.finalizer -> "delete"
      [] v.deleting /\ ~v.finalizer -> "idle"
      [] ~v.deleting /\ ~v.finalizer -> "update"
      [] OTHER -> "status"

GetPolicy ==
    /\ pc = "idle"
    /\ queued
    /\ cached.uid # NoUid
    /\ queued' = FALSE
    /\ pc' = AfterGet(cached)
    /\ obj' = cached
    /\ fresh' = (pending = <<>>)
    /\ UNCHANGED <<apiVars, cacheVars, downVars, config, missed, boundVars>>

\* The downstream Secrets without the one for UID u.
Deleted(u) == [downstream EXCEPT ![u] = NoConfig]

\* vectorSecretFinalizer.Finalize: NotFound counts as success.
FinalizeDelete ==
    /\ pc = "delete"
    /\ downstream' = Deleted(obj.uid)
    /\ downSynced' = [downSynced EXCEPT ![obj.uid] = FALSE]
    /\ pc' = "update"
    /\ UNCHANGED <<apiVars, cacheVars, downCache, queued, obj, fresh, config, missed, boundVars>>

\* Mutant: the finalizer stays on a policy that is being deleted.
FinalizedKept(v) == [v EXCEPT !.finalizer = TRUE]

\* The version that Update stores: with the finalizer, or, once the last
\* finalizer of a policy marked for deletion is gone, none at all.
Finalized(v) == IF v.deleting THEN NoPolicy ELSE [v EXCEPT !.finalizer = TRUE]

\* The Update after Finalize.  A policy marked for deletion is done with; for
\* another Reconcile goes on with the version that Update returned.
UpdateFinalizer ==
    /\ pc = "update"
    /\ fresh
    /\ Store(Finalized(obj))
    /\ IF obj.deleting
       THEN Done
       ELSE /\ obj' = Finalized(obj)
            /\ pc' = "status"
            /\ UNCHANGED <<fresh, config>>
    /\ UNCHANGED <<secret, cacheVars, downVars, queued, missed, boundVars>>

\* Update or Status().Update of an old resourceVersion.
Conflict ==
    /\ pc \in {"update", "updateStatus"}
    /\ ~fresh
    /\ Retry
    /\ UNCHANGED <<apiVars, cacheVars, downVars, missed, boundVars>>

\* The reads of Secrets that fail count as one fault.
ReadsFail(failed) ==
    /\ failed = {} \/ faults < MaxFaults
    /\ faults' = IF failed = {} THEN faults ELSE faults + 1

ReconcileStatus(failed) ==
    /\ pc = "status"
    /\ failed \subseteq SinksWithSecret(obj.spec)
    /\ ReadsFail(failed)
    /\ LET new == ReconciledStatus(obj.spec, obj.status, secretCache, failed)
       IN  IF StatusChanged(obj.spec, obj.status, new)
           THEN /\ obj' = [obj EXCEPT !.status = new]
                /\ pc' = "updateStatus"
           ELSE /\ pc' = "build"
                /\ UNCHANGED obj
    /\ UNCHANGED <<apiVars, cacheVars, downVars, queued, fresh, config, missed, created, edits>>

UpdateStatus ==
    /\ pc = "updateStatus"
    /\ fresh
    /\ Store([policy EXCEPT !.status = obj.status])
    /\ Retry
    /\ UNCHANGED <<secret, cacheVars, downVars, missed, boundVars>>

\* createVectorConfiguration; a sink whose Secret it cannot read is skipped
\* and nothing asks for another try.
Build(failed) ==
    /\ pc = "build"
    /\ ~Panics(obj.spec)
    /\ failed \subseteq SinksWithSecret(obj.spec)
    /\ ReadsFail(failed)
    /\ config' = VectorConfig(obj.spec, secretCache, failed)
    /\ missed' = (failed # {})
    /\ pc' = "write"
    /\ UNCHANGED <<apiVars, cacheVars, downVars, queued, obj, fresh, created, edits>>

\* createVectorConfiguration panics, which controller-runtime recovers.
BuildPanics ==
    /\ pc = "build"
    /\ Panics(obj.spec)
    /\ Retry
    /\ UNCHANGED <<apiVars, cacheVars, downVars, missed, boundVars>>

\* CreateOrUpdate gets the Secret from the cache and finds nothing to change.
WriteNothing ==
    /\ pc = "write"
    /\ downCache[obj.uid] = config
    /\ missed' = (missed \/ downstream[obj.uid] # config)
    /\ Done
    /\ UNCHANGED <<apiVars, cacheVars, downVars, queued, boundVars>>

\* Mutant: only Create is called.
WriteSucceedsCreateOnly(u) == downCache[u] = NoConfig /\ downstream[u] = NoConfig

\* Create works if there is no Secret, Update if the cached one is the last.
WriteSucceeds(u) ==
    IF downCache[u] = NoConfig THEN downstream[u] = NoConfig ELSE downSynced[u]

WriteConfig ==
    /\ pc = "write"
    /\ downCache[obj.uid] # config
    /\ WriteSucceeds(obj.uid)
    /\ downstream' = [downstream EXCEPT ![obj.uid] = config]
    /\ downSynced' = [downSynced EXCEPT ![obj.uid] = FALSE]
    /\ Done
    /\ UNCHANGED <<apiVars, cacheVars, downCache, queued, missed, boundVars>>

\* AlreadyExists, Conflict or NotFound.
WriteFails ==
    /\ pc = "write"
    /\ downCache[obj.uid] # config
    /\ ~WriteSucceeds(obj.uid)
    /\ Retry
    /\ UNCHANGED <<apiVars, cacheVars, downVars, missed, boundVars>>

\* Any call may fail; the answer to one that did its work may get lost.
CallFails ==
    /\ pc # "idle"
    /\ faults < MaxFaults
    /\ faults' = faults + 1
    /\ Retry
    /\ UNCHANGED <<apiVars, cacheVars, downVars, missed, created, edits>>

\* The process dies and starts again with lists of everything there is.
Restart ==
    /\ faults < MaxFaults
    /\ faults' = faults + 1
    /\ cached' = policy
    /\ pending' = <<>>
    /\ secretCache' = secret
    /\ downCache' = downstream
    /\ downSynced' = [u \in Uids |-> TRUE]
    /\ Done
    /\ queued' = (policy.uid # NoUid)
    /\ UNCHANGED <<policy, secret, downstream, missed, created, edits>>
-----------------------------------------------------------------------------
User ==
    \/ \E s \in Specs : CreatePolicy(s) \/ UpdateSpec(s)
    \/ DeletePolicy
    \/ \E s \in Secrets, content \in SecretContents : WriteSecret(s, content)

Watch ==
    \/ SyncPolicy
    \/ \E s \in Secrets : SyncSecret(s) \/ SyncSecretDropped(s)
    \/ \E u \in Uids : SyncDownstream(u)
    \/ Resync

Reconcile ==
    \/ GetMissing
    \/ GetPolicy
    \/ FinalizeDelete
    \/ UpdateFinalizer
    \/ Conflict
    \/ \E failed \in SUBSET SinkNames : ReconcileStatus(failed) \/ Build(failed)
    \/ UpdateStatus
    \/ BuildPanics
    \/ WriteNothing
    \/ WriteConfig
    \/ WriteFails

Next == User \/ Watch \/ Reconcile \/ CallFails \/ Restart

Spec == Init /\ [][Next]_vars

\* Watches deliver, the worker takes the queue's items and works them off.
FairSpec ==
    /\ Spec
    /\ WF_vars(Reconcile)
    /\ WF_vars(SyncPolicy)
    /\ \A s \in Secrets : WF_vars(SyncSecret(s))
    /\ \A u \in Uids : WF_vars(SyncDownstream(u))
    /\ WF_vars(Resync)
-----------------------------------------------------------------------------
\* A downstream Secret belongs to a policy object that still exists and has
\* the finalizer, so that deleting the policy cannot leave the Secret behind,
\* however old the copies are that Reconcile works on
\* (export_policy_controller.go: Finalize, Reconcile).
NoOrphan ==
    \A u \in Uids : downstream[u] # NoConfig => policy.uid = u /\ policy.finalizer

Quiet ==
    /\ pc = "idle"
    /\ ~queued
    /\ pending = <<>>
    /\ secretCache = secret
    /\ \A u \in Uids : downSynced[u]
    /\ policy.uid # NoUid
    /\ ~policy.deleting

\* When there is nothing left to do, the downstream Secret holds the
\* configuration that the policy and its Secrets call for: no change of either
\* is overlooked, in whatever order the two watches report them.  Excepted is
\* a policy whose last configuration came from a failed or a stale read.
SettledMatches ==
    Quiet /\ ~missed => downstream[policy.uid] = VectorConfig(policy.spec, secret, {})

\* In the end the configuration is that of the policy, also after failed and
\* stale reads, thanks to the resync; a policy that makes Reconcile panic is
\* excepted (vector_configuration.go: createVectorConfiguration).
Converges ==
    <>[](policy.uid # NoUid /\ ~policy.deleting /\ ~Panics(policy.spec) =>
           downstream[policy.uid] = VectorConfig(policy.spec, secret, {}))

\* A policy that is being deleted goes away, and its Secret with it, whatever
\* calls fail in between (export_policy_controller.go: Finalize).
DeletionCompletes ==
    \A u \in Uids : policy.uid = u /\ policy.deleting ~>
                      policy.uid # u /\ downstream[u] = NoConfig

\* Once there is nothing left to do, a policy that is Ready for its present
\* generation has each of its sinks in the configuration
\* (export_policy_controller.go: reconcileExportPolicyStatus).
ReadyIsConfigured ==
    Quiet /\ ~missed /\ policy.status.current /\ policy.status.ready.isTrue
      => DOMAIN downstream[policy.uid].sinks = DOMAIN policy.spec.sinks
=============================================================================
