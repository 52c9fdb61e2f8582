--------------------------- MODULE NKeyGenerator ---------------------------
(***************************************************************************)
(* The nkey-generator job (nkey-generator/main.go).  A scheduled run lists *)
(* the enabled Karmada clusters, makes sure that each has a key Secret and *)
(* a PushSecret, and rewrites the ConfigMap of authorized leafs behind a   *)
(* guard against dropping a leaf that is still live.                       *)
(*                                                                         *)
(* One action is one API call of a run with the local computation that     *)
(* follows it, because another run or an operator can act between any two  *)
(* calls.  A key pair is one model value: only equality of pairs matters.  *)
(* The two static users are in every list and are left out of it.          *)
(***************************************************************************)
EXTENDS Naturals, FiniteSets

CONSTANTS
    Clusters,        \* Karmada Cluster objects
    ValidNames,      \* those whose name validClusterName accepts
    Runs,            \* job runs that may be in progress at the same time
    ReadMayFail,     \* may the ConfigMap Get of previousUsers fail?
    CarefulOperator, \* does the operator wait for the job? see OperatorWaits
    Keys,            \* key pairs; bound: as many as can be in use at once
    NoKey,           \* no key pair
    MaxChanges,      \* bound: label changes made by the operator
    MaxAborts        \* bound: runs that die of an API error or a killed pod

ASSUME ConstantsAssumption ==
    /\ Clusters # {}
    /\ ValidNames \subseteq Clusters
    /\ ReadMayFail \in BOOLEAN
    /\ CarefulOperator \in BOOLEAN
    /\ NoKey \notin Keys
    /\ MaxChanges \in Nat
    /\ MaxAborts \in Nat

VARIABLES
    enabled,    \* clusters labelled telemetry.miloapis.com/nats-leaf=enabled
    secret,     \* secret[c]: key in Secret nats-leaf-nkey-<c>, NoKey if absent
    pushed,     \* clusters that have a PushSecret
    cmExists,   \* does the authorized-leafs ConfigMap exist?
    published,  \* its leaf users
    fresh,      \* runs whose resourceVersion is still the ConfigMap's
    pc,         \* pc[r]: the API call run r makes next
    todo,       \* todo[r]: listed clusters that ensureKey has not returned for
    cur,        \* cur[r]: the cluster ensureKey works on
    key,        \* key[r]: the public key ensureKey will return for it
    users,      \* users[r]: the list sync has built so far
    prev,       \* prev[r]: previous users that droppedNkeys has yet to look up
    changes,    \* label changes made so far
    aborts      \* runs that died so far

apiVars == <<secret, pushed, cmExists, published, fresh>>
runVars == <<pc, todo, cur, key, users, prev>>
envVars == <<enabled, changes, aborts>>
vars == <<apiVars, runVars, envVars>>

\* nkeyUser: the key and the cluster its publish subjects are scoped to.
nkeyUser(c, k) == [cluster |-> c, nkey |-> k]
UserRecord == [cluster : Clusters, nkey : Keys]

\* clusterFromUser recovers the cluster that nkeyUser put in the subjects.
clusterFromUser(u) == u.cluster
clustersOf(list) == {clusterFromUser(u) : u \in list}
nkeysOf(list) == {u.nkey : u \in list}

\* The value of cur outside ensureKey, where no code reads it.
SomeCluster == CHOOSE c \in Clusters : TRUE

Steps == {"idle", "list", "getSecret", "createSecret", "getPush", "updatePush",
          "createPush", "readPrevious", "checkDropped", "updateMap", "createMap"}

TypeOK ==
    /\ enabled \subseteq Clusters
    /\ secret \in [Clusters -> Keys \cup {NoKey}]
    /\ pushed \subseteq Clusters
    /\ cmExists \in BOOLEAN
    /\ published \subseteq UserRecord
    /\ fresh \subseteq Runs
    /\ pc \in [Runs -> Steps]
    /\ todo \in [Runs -> SUBSET ValidNames]
    /\ cur \in [Runs -> Clusters]
    /\ key \in [Runs -> Keys \cup {NoKey}]
    /\ users \in [Runs -> SUBSET UserRecord]
    /\ prev \in [Runs -> SUBSET UserRecord]
    /\ changes \in 0..MaxChanges
    /\ aborts \in 0..MaxAborts

Init ==
    /\ enabled = {}
    /\ secret = [c \in Clusters |-> NoKey]
    /\ pushed = {}
    /\ cmExists = FALSE
    /\ published = {}
    /\ fresh = {}
    /\ pc = [r \in Runs |-> "idle"]
    /\ todo = [r \in Runs |-> {}]
    /\ cur = [r \in Runs |-> SomeCluster]
    /\ key = [r \in Runs |-> NoKey]
    /\ users = [r \in Runs |-> {}]
    /\ prev = [r \in Runs |-> {}]
    /\ changes = 0
    /\ aborts = 0
-----------------------------------------------------------------------------
(***************************************************************************)
(* A run.  It keeps nothing: whatever ends it, its local state is gone and *)
(* only the API objects remain.                                            *)
(***************************************************************************)
Exit(r) ==
    /\ pc' = [pc EXCEPT ![r] = "idle"]
    /\ todo' = [todo EXCEPT ![r] = {}]
    /\ key' = [key EXCEPT ![r] = NoKey]
    /\ users' = [users EXCEPT ![r] = {}]
    /\ prev' = [prev EXCEPT ![r] = {}]
    /\ cur' = [cur EXCEPT ![r] = SomeCluster]

GoTo(r, step) == pc' = [pc EXCEPT ![r] = step]

\* run: the CronJob starts the program, which builds its clients.
Start(r) ==
    /\ pc[r] = "idle"
    /\ GoTo(r, "list")
    /\ UNCHANGED <<apiVars, envVars, todo, cur, key, users, prev>>

\* After the last cluster sync calls writeConfigMap.
AfterEnsure(rest) == IF rest = {} THEN "readPrevious" ELSE "getSecret"

\* enabledClusters, and the loop's skip of names unfit for a NATS subject.
ListClusters(r) ==
    /\ pc[r] = "list"
    /\ todo' = [todo EXCEPT ![r] = enabled \cap ValidNames]
    /\ GoTo(r, AfterEnsure(enabled \cap ValidNames))
    /\ UNCHANGED <<apiVars, envVars, cur, key, users, prev>>

\* generateNKey: a pair unlike any other.  A pair that nothing refers to any
\* more is as good as one that never existed.
KeysInUse ==
    nkeysOf(published) \cup {secret[c] : c \in Clusters}
      \cup UNION {{key[r]} \cup nkeysOf(users[r]) \cup nkeysOf(prev[r]) : r \in Runs}

generateNKey == CHOOSE k \in Keys : k \notin KeysInUse

\* Mutant: ensureKey returns a new pair although the Secret has one.
GetSecretFoundRegenerates(r, c) ==
    /\ pc[r] = "getSecret"
    /\ c \in todo[r]
    /\ secret[c] # NoKey
    /\ Keys \ KeysInUse # {}
    /\ cur' = [cur EXCEPT ![r] = c]
    /\ key' = [key EXCEPT ![r] = generateNKey]
    /\ GoTo(r, "getPush")
    /\ UNCHANGED <<apiVars, envVars, todo, users, prev>>

\* ensureKey finds the Secret and takes its public key.
GetSecretFound(r, c) ==
    /\ pc[r] = "getSecret"
    /\ c \in todo[r]
    /\ secret[c] # NoKey
    /\ cur' = [cur EXCEPT ![r] = c]
    /\ key' = [key EXCEPT ![r] = secret[c]]
    /\ GoTo(r, "getPush")
    /\ UNCHANGED <<apiVars, envVars, todo, users, prev>>

\* ensureKey gets NotFound and generates a pair.
GetSecretMissing(r, c) ==
    /\ pc[r] = "getSecret"
    /\ c \in todo[r]
    /\ secret[c] = NoKey
    /\ Keys \ KeysInUse # {}
    /\ cur' = [cur EXCEPT ![r] = c]
    /\ key' = [key EXCEPT ![r] = generateNKey]
    /\ GoTo(r, "createSecret")
    /\ UNCHANGED <<apiVars, envVars, todo, users, prev>>

\* Mutant: the seed is written with an update instead of a create.
StoreKeyOverwrites(c, k) == [secret EXCEPT ![c] = k]

\* What Create does to the stored Secrets: AlreadyExists stores nothing.
StoreKey(c, k) == IF secret[c] = NoKey THEN [secret EXCEPT ![c] = k] ELSE secret

\* ensureKey stores the pair; AlreadyExists is ignored and the public key of
\* the generated pair is kept whether it was stored or not.
CreateSecret(r) ==
    /\ pc[r] = "createSecret"
    /\ secret' = StoreKey(cur[r], key[r])
    /\ GoTo(r, "getPush")
    /\ UNCHANGED <<pushed, cmExists, published, fresh, envVars,
                   todo, cur, key, users, prev>>

\* ensurePushSecret chooses between Update and Create.
GetPush(r) ==
    /\ pc[r] = "getPush"
    /\ GoTo(r, IF cur[r] \in pushed THEN "updatePush" ELSE "createPush")
    /\ UNCHANGED <<apiVars, envVars, todo, cur, key, users, prev>>

\* ensureKey returns and sync appends the cluster's user.
AppendUser(r) ==
    /\ users' = [users EXCEPT ![r] = @ \cup {nkeyUser(cur[r], key[r])}]
    /\ todo' = [todo EXCEPT ![r] = @ \ {cur[r]}]
    /\ key' = [key EXCEPT ![r] = NoKey]
    /\ cur' = [cur EXCEPT ![r] = SomeCluster]
    /\ GoTo(r, AfterEnsure(todo[r] \ {cur[r]}))

\* Runs write the same spec, so that their updates do not conflict; a conflict
\* with a status update of the secrets operator is an Abort.
UpdatePush(r) ==
    /\ pc[r] = "updatePush"
    /\ AppendUser(r)
    /\ UNCHANGED <<apiVars, envVars, prev>>

\* Mutant: the error of the PushSecret's Create is dropped.
CreatePushUnchecked(r) ==
    /\ pc[r] = "createPush"
    /\ AppendUser(r)
    /\ UNCHANGED <<apiVars, envVars, prev>>

\* Another run may have created the PushSecret: AlreadyExists ends this one.
CreatePush(r) ==
    /\ pc[r] = "createPush"
    /\ pushed' = pushed \cup {cur[r]}
    /\ \/ cur[r] \notin pushed /\ AppendUser(r) /\ UNCHANGED prev
       \/ cur[r] \in pushed /\ Exit(r)
    /\ UNCHANGED <<secret, cmExists, published, fresh, envVars>>

\* What previousUsers returns: the ConfigMap's leafs, none without a ConfigMap,
\* and none when its Get fails.
previousUsers == {published} \cup (IF ReadMayFail THEN {{}} ELSE {})

\* writeConfigMap reads the previous users; droppedNkeys goes on with those
\* whose key is not in the new list.
ReadPrevious(r) ==
    /\ pc[r] = "readPrevious"
    /\ \E found \in previousUsers :
         prev' = [prev EXCEPT ![r] = {u \in found : u.nkey \notin nkeysOf(users[r])}]
    /\ GoTo(r, "checkDropped")
    /\ UNCHANGED <<apiVars, envVars, todo, cur, key, users>>

\* Mutant: the Secret of a missing user is not looked up.
CheckDroppedBlindly(r, u) ==
    /\ pc[r] = "checkDropped"
    /\ u \in prev[r]
    /\ prev' = [prev EXCEPT ![r] = @ \ {u}]
    /\ UNCHANGED <<pc, todo, cur, key, users, apiVars, envVars>>

\* Mutant: a missing user is refused whether its Secret exists or not.
CheckDroppedRefuses(r, u) ==
    /\ pc[r] = "checkDropped"
    /\ u \in prev[r]
    /\ Exit(r)
    /\ UNCHANGED <<apiVars, envVars>>

\* droppedNkeys looks up the Secret of one missing user.  If the Secret is
\* gone the user was decommissioned; if not, writeConfigMap refuses to write
\* (the code looks the others up first, to name them in its error).
CheckDropped(r, u) ==
    /\ pc[r] = "checkDropped"
    /\ u \in prev[r]
    /\ \/ /\ secret[clusterFromUser(u)] = NoKey
          /\ prev' = [prev EXCEPT ![r] = @ \ {u}]
          /\ UNCHANGED <<pc, todo, cur, key, users>>
       \/ /\ secret[clusterFromUser(u)] # NoKey
          /\ Exit(r)
    /\ UNCHANGED <<apiVars, envVars>>

\* Mutant: writeConfigMap only ever creates the ConfigMap.
GetMapCreates(r) ==
    /\ pc[r] = "checkDropped"
    /\ prev[r] = {}
    /\ GoTo(r, "createMap")
    /\ UNCHANGED <<apiVars, envVars, todo, cur, key, users, prev>>

\* writeConfigMap takes the ConfigMap's resourceVersion with a second Get.
GetMap(r) ==
    /\ pc[r] = "checkDropped"
    /\ prev[r] = {}
    /\ IF cmExists
       THEN fresh' = fresh \cup {r} /\ GoTo(r, "updateMap")
       ELSE UNCHANGED fresh /\ GoTo(r, "createMap")
    /\ UNCHANGED <<secret, pushed, cmExists, published, envVars,
                   todo, cur, key, users, prev>>

\* A write gives the ConfigMap a new resourceVersion.
WriteMap(r) ==
    /\ published' = users[r]
    /\ cmExists' = TRUE
    /\ fresh' = {}

\* The Update conflicts when another run has written since the second Get.
UpdateMap(r) ==
    /\ pc[r] = "updateMap"
    /\ \/ r \in fresh /\ WriteMap(r)
       \/ r \notin fresh /\ UNCHANGED <<published, cmExists, fresh>>
    /\ Exit(r)
    /\ UNCHANGED <<secret, pushed, envVars>>

\* The Create fails when another run has created it since the second Get.
CreateMap(r) ==
    /\ pc[r] = "createMap"
    /\ \/ ~cmExists /\ WriteMap(r)
       \/ cmExists /\ UNCHANGED <<published, cmExists, fresh>>
    /\ Exit(r)
    /\ UNCHANGED <<secret, pushed, envVars>>

\* Every other API call that fails ends the run with its error, and so do a
\* Secret without a public key and a killed pod.
Abort(r) ==
    /\ pc[r] # "idle"
    /\ aborts < MaxAborts
    /\ aborts' = aborts + 1
    /\ fresh' = fresh \ {r}
    /\ Exit(r)
    /\ UNCHANGED <<secret, pushed, cmExists, published, enabled, changes>>

RunStep(r) ==
    \/ Start(r)
    \/ ListClusters(r)
    \/ \E c \in Clusters : GetSecretFound(r, c) \/ GetSecretMissing(r, c)
    \/ CreateSecret(r)
    \/ GetPush(r)
    \/ UpdatePush(r)
    \/ CreatePush(r)
    \/ ReadPrevious(r)
    \/ \E u \in prev[r] : CheckDropped(r, u)
    \/ GetMap(r)
    \/ UpdateMap(r)
    \/ CreateMap(r)
-----------------------------------------------------------------------------
(***************************************************************************)
(* The operator, who is outside the program.  They label and unlabel       *)
(* clusters, which also covers a listing glitch that heals, and delete the *)
(* Secret of an unlabelled cluster, as the refusal of writeConfigMap asks. *)
(* A careful operator acts between runs and labels a cluster again only    *)
(* once a run has taken its old key off the list.                          *)
(***************************************************************************)
OperatorWaits == CarefulOperator => \A r \in Runs : pc[r] = "idle"

Enable(c) ==
    /\ c \notin enabled
    /\ changes < MaxChanges
    /\ CarefulOperator /\ secret[c] = NoKey => c \notin clustersOf(published)
    /\ OperatorWaits
    /\ enabled' = enabled \cup {c}
    /\ changes' = changes + 1
    /\ UNCHANGED <<apiVars, runVars, aborts>>

Disable(c) ==
    /\ c \in enabled
    /\ changes < MaxChanges
    /\ enabled' = enabled \ {c}
    /\ changes' = changes + 1
    /\ UNCHANGED <<apiVars, runVars, aborts>>

DeleteSecret(c) ==
    /\ c \notin enabled
    /\ secret[c] # NoKey
    /\ OperatorWaits
    /\ secret' = [secret EXCEPT ![c] = NoKey]
    /\ UNCHANGED <<pushed, cmExists, published, fresh, runVars, envVars>>

Next ==
    \/ \E r \in Runs : RunStep(r) \/ Abort(r)
    \/ \E c \in Clusters : Enable(c) \/ Disable(c) \/ DeleteSecret(c)

Spec == Init /\ [][Next]_vars

(***************************************************************************)
(* The CronJob keeps starting runs and a run that is not killed goes on;   *)
(* the operator in the end deletes the Secret of a cluster that stays      *)
(* unlabelled, which the refusal asks for on every run.  Runs keep         *)
(* starting and ending, so a careful operator gets their chance again and  *)
(* again: strong fairness.                                                 *)
(***************************************************************************)
Fairness ==
    /\ \A r \in Runs : WF_vars(RunStep(r))
    /\ \A c \in Clusters : SF_vars(DeleteSecret(c))

FairSpec == Spec /\ Fairness
-----------------------------------------------------------------------------
\* A key on the published list is the key of the cluster's stored seed, unless
\* the Secret was deleted: ensureKey returns the public key of the Secret it
\* ensures, so the hub never authorizes a key that no PoP can hold.
PublishedKeyIsStored ==
    \A u \in published : secret[clusterFromUser(u)] \in {u.nkey, NoKey}

\* A published leaf has a PushSecret, so its PoP can fetch the seed: sync
\* publishes a user only after ensurePushSecret succeeded, whatever crashed or
\* overlapped in between.
PublishedIsMirrored == clustersOf(published) \subseteq pushed

\* writeConfigMap removes a published user only when the Secret of its cluster
\* is gone; a listing glitch never deauthorizes a live PoP.
NoSilentDrop ==
    [][\A u \in published \ published' : secret[clusterFromUser(u)] = NoKey]_vars

\* ensureKey never replaces a stored seed; only deletion ends it, and then
\* only for a cluster the operator has unlabelled.
SeedNeverRegenerated ==
    [][\A c \in Clusters : secret[c] # NoKey /\ secret'[c] # secret[c]
            => secret'[c] = NoKey /\ c \notin enabled]_vars

\* A cluster that stays labelled ends up authorized with its stored key.
EnabledEventuallyAuthorized ==
    \A c \in ValidNames :
        <>[](c \in enabled) => <>[](nkeyUser(c, secret[c]) \in published)

\* A cluster that stays unlabelled ends up off the published list.
DisabledEventuallyRemoved ==
    \A c \in Clusters :
        <>[](c \notin enabled) => <>[](c \notin clustersOf(published))
=============================================================================
