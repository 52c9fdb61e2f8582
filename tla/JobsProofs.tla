----------------------------- MODULE JobsProofs -----------------------------
(***************************************************************************)
(* Proofs about the jobs that prepare NATS and ClickHouse.  About          *)
(* NKeyGenerator, for every number of clusters, keys and runs and every    *)
(* bound: the first three theorems hold whatever overlaps and whatever     *)
(* fails; the last two name what they need.  About ClickhouseMigrate, for  *)
(* any number of overlapping Jobs, any migrations and any failures: what   *)
(* is recorded clean has been applied.                                     *)
(***************************************************************************)
EXTENDS NKeyGenerator, ClickhouseMigrate, TLAPS

USE ConstantsAssumption

\* The steps of ensureKey after it has chosen its key.
Ensuring == {"createSecret", "getPush", "updatePush", "createPush"}

\* A run inside ensureKey holds a key for one of the clusters on its list.
HoldsKey ==
    \A r \in Runs : pc[r] \in Ensuring => key[r] \in Keys /\ cur[r] \in todo[r]

TypeInv == TypeOK /\ HoldsKey

\* The value cur has between clusters is a cluster.
LEMMA SomeClusterType == SomeCluster \in Clusters
BY DEF SomeCluster

\* generateNKey returns a key that nothing refers to.
LEMMA GeneratedIsFresh ==
    ASSUME Keys \ KeysInUse # {}
    PROVE  generateNKey \in Keys /\ generateNKey \notin KeysInUse
BY DEF generateNKey

\* Exit leaves well-typed local state behind.
LEMMA ExitType ==
    ASSUME TypeInv, NEW r \in Runs, Exit(r)
    PROVE  /\ pc' \in [Runs -> Steps]
           /\ todo' \in [Runs -> SUBSET ValidNames]
           /\ cur' \in [Runs -> Clusters]
           /\ key' \in [Runs -> Keys \cup {NoKey}]
           /\ users' \in [Runs -> SUBSET UserRecord]
           /\ prev' \in [Runs -> SUBSET UserRecord]
           /\ HoldsKey'
<1>1. /\ pc' \in [Runs -> Steps]
      /\ todo' \in [Runs -> SUBSET ValidNames]
      /\ cur' \in [Runs -> Clusters]
      /\ key' \in [Runs -> Keys \cup {NoKey}]
      /\ users' \in [Runs -> SUBSET UserRecord]
      /\ prev' \in [Runs -> SUBSET UserRecord]
  BY SomeClusterType DEF TypeInv, TypeOK, Exit, Steps
<1>2. HoldsKey'
  BY DEF TypeInv, TypeOK, HoldsKey, Exit, Ensuring
<1> QED BY <1>1, <1>2

\* AppendUser leaves well-typed local state behind.
LEMMA AppendUserType ==
    ASSUME TypeInv, NEW r \in Runs, pc[r] \in Ensuring, AppendUser(r)
    PROVE  /\ pc' \in [Runs -> Steps]
           /\ todo' \in [Runs -> SUBSET ValidNames]
           /\ cur' \in [Runs -> Clusters]
           /\ key' \in [Runs -> Keys \cup {NoKey}]
           /\ users' \in [Runs -> SUBSET UserRecord]
           /\ HoldsKey'
<1>1. nkeyUser(cur[r], key[r]) \in UserRecord
  BY DEF TypeInv, TypeOK, HoldsKey, nkeyUser, UserRecord
<1>2. /\ todo' \in [Runs -> SUBSET ValidNames]
      /\ cur' \in [Runs -> Clusters]
      /\ key' \in [Runs -> Keys \cup {NoKey}]
  BY SomeClusterType DEF TypeInv, TypeOK, AppendUser
<1>3. users' \in [Runs -> SUBSET UserRecord]
  BY <1>1 DEF TypeInv, TypeOK, AppendUser
<1>4. pc' \in [Runs -> Steps]
  BY DEF TypeInv, TypeOK, AppendUser, GoTo, AfterEnsure, Steps
<1>5. HoldsKey'
  BY DEF TypeInv, TypeOK, HoldsKey, AppendUser, GoTo, AfterEnsure, Ensuring
<1> QED BY <1>2, <1>3, <1>4, <1>5

\* Every step keeps the variables in their types.
LEMMA TypeStep == TypeInv /\ [Next]_vars => TypeInv'
<1> SUFFICES ASSUME TypeInv, [Next]_vars PROVE TypeInv' OBVIOUS
<1> USE DEF TypeInv
<1>1. ASSUME NEW r \in Runs, Start(r) PROVE TypeInv'
  BY <1>1 DEF TypeOK, HoldsKey, Ensuring, Start, GoTo, Steps, apiVars, envVars
<1>2. ASSUME NEW r \in Runs, ListClusters(r) PROVE TypeInv'
  BY <1>2 DEF TypeOK, HoldsKey, Ensuring, ListClusters, AfterEnsure, GoTo, Steps,
              apiVars, envVars
<1>3. ASSUME NEW r \in Runs, NEW c \in Clusters, GetSecretFound(r, c) PROVE TypeInv'
  BY <1>3 DEF TypeOK, HoldsKey, Ensuring, GetSecretFound, GoTo, Steps, apiVars, envVars
<1>4. ASSUME NEW r \in Runs, NEW c \in Clusters, GetSecretMissing(r, c) PROVE TypeInv'
  <2>1. generateNKey \in Keys
    BY <1>4, GeneratedIsFresh DEF GetSecretMissing
  <2> QED
    BY <1>4, <2>1 DEF TypeOK, HoldsKey, Ensuring, GetSecretMissing, GoTo, Steps,
                      apiVars, envVars
<1>5. ASSUME NEW r \in Runs, CreateSecret(r) PROVE TypeInv'
  BY <1>5 DEF TypeOK, HoldsKey, Ensuring, CreateSecret, StoreKey, GoTo, Steps, envVars
<1>6. ASSUME NEW r \in Runs, GetPush(r) PROVE TypeInv'
  BY <1>6 DEF TypeOK, HoldsKey, Ensuring, GetPush, GoTo, Steps, apiVars, envVars
<1>7. ASSUME NEW r \in Runs, UpdatePush(r) PROVE TypeInv'
  BY <1>7, AppendUserType DEF TypeOK, Ensuring, UpdatePush, apiVars, envVars
<1>8. ASSUME NEW r \in Runs, CreatePush(r) PROVE TypeInv'
  <2>1. pushed' \subseteq Clusters
    BY <1>8 DEF TypeOK, CreatePush
  <2>2. CASE AppendUser(r) /\ UNCHANGED prev
    BY <1>8, <2>1, <2>2, AppendUserType DEF TypeOK, Ensuring, CreatePush, envVars
  <2>3. CASE Exit(r)
    BY <1>8, <2>1, <2>3, ExitType DEF TypeOK, CreatePush, envVars
  <2> QED BY <1>8, <2>2, <2>3 DEF CreatePush
<1>9. ASSUME NEW r \in Runs, ReadPrevious(r) PROVE TypeInv'
  BY <1>9 DEF TypeOK, HoldsKey, Ensuring, ReadPrevious, previousUsers, GoTo, Steps,
              apiVars, envVars
<1>10. ASSUME NEW r \in Runs, NEW u \in prev[r], CheckDropped(r, u) PROVE TypeInv'
  <2>1. CASE Exit(r)
    BY <1>10, <2>1, ExitType DEF TypeOK, CheckDropped, apiVars, envVars
  <2>2. CASE prev' = [prev EXCEPT ![r] = @ \ {u}] /\ UNCHANGED <<pc, todo, cur, key, users>>
    BY <1>10, <2>2 DEF TypeOK, HoldsKey, CheckDropped, apiVars, envVars
  <2> QED BY <1>10, <2>1, <2>2 DEF CheckDropped
<1>11. ASSUME NEW r \in Runs, GetMap(r) PROVE TypeInv'
  BY <1>11 DEF TypeOK, HoldsKey, Ensuring, GetMap, GoTo, Steps, envVars
<1>12. ASSUME NEW r \in Runs, UpdateMap(r) \/ CreateMap(r) PROVE TypeInv'
  BY <1>12, ExitType, Zenon DEF TypeOK, UpdateMap, CreateMap, WriteMap, envVars
<1>13. ASSUME NEW r \in Runs, Abort(r) PROVE TypeInv'
  <2>1. aborts' \in 0..MaxAborts
    BY <1>13 DEF TypeOK, Abort
  <2> QED BY <1>13, <2>1, ExitType DEF TypeOK, Abort
<1>14. ASSUME NEW c \in Clusters, Enable(c) \/ Disable(c) PROVE TypeInv'
  <2>1. changes' \in 0..MaxChanges
    BY <1>14 DEF TypeOK, Enable, Disable
  <2> QED BY <1>14, <2>1 DEF TypeOK, HoldsKey, Enable, Disable, apiVars, runVars
<1>15. ASSUME NEW c \in Clusters, DeleteSecret(c) PROVE TypeInv'
  BY <1>15 DEF TypeOK, HoldsKey, DeleteSecret, runVars, envVars
<1>16. CASE UNCHANGED vars
  BY <1>16 DEF TypeOK, HoldsKey, vars, apiVars, runVars, envVars
<1> QED
  BY <1>1, <1>2, <1>3, <1>4, <1>5, <1>6, <1>7, <1>8, <1>9, <1>10, <1>11, <1>12,
     <1>13, <1>14, <1>15, <1>16 DEF Next, RunStep

\* The variables keep their types, and ensureKey always has a key to return.
THEOREM TypeCorrect == Spec => [](TypeOK /\ HoldsKey)
<1>1. ASSUME Init PROVE TypeInv
  <2>1. cmExists \in BOOLEAN /\ secret \in [Clusters -> Keys \cup {NoKey}]
    BY <1>1, Zenon DEF Init
  <2>2. changes \in 0..MaxChanges /\ aborts \in 0..MaxAborts
    BY <1>1 DEF Init
  <2>3. pc \in [Runs -> Steps] /\ cur \in [Runs -> Clusters] /\ HoldsKey
    BY <1>1, SomeClusterType DEF Init, HoldsKey, Ensuring, Steps
  <2> QED BY <1>1, <2>1, <2>2, <2>3 DEF Init, TypeInv, TypeOK
<1> QED BY <1>1, TypeStep, PTL DEF Spec, TypeInv
-----------------------------------------------------------------------------
(***************************************************************************)
(* A published leaf has a PushSecret.  The list a run builds satisfies the *)
(* same condition while it is built, and a run that found the PushSecret   *)
(* still finds it there when it updates it, because nobody deletes it.     *)
(***************************************************************************)
MirrorInv ==
    /\ PublishedIsMirrored
    /\ \A r \in Runs : clustersOf(users[r]) \subseteq pushed
    /\ \A r \in Runs : pc[r] = "updatePush" => cur[r] \in pushed

\* The cluster of the user AppendUser adds is the one that was ensured.
LEMMA AppendUserClusters ==
    ASSUME TypeInv, NEW r \in Runs, AppendUser(r)
    PROVE  \A s \in Runs : clustersOf(users'[s]) \subseteq clustersOf(users[s]) \cup {cur[r]}
BY DEF TypeInv, TypeOK, AppendUser, clustersOf, clusterFromUser, nkeyUser

\* A run that ends keeps no list, and the other runs keep theirs.
LEMMA ExitUsers ==
    ASSUME TypeInv, NEW r \in Runs, Exit(r), NEW s \in Runs
    PROVE  /\ s = r => users'[s] = {} /\ prev'[s] = {} /\ todo'[s] = {}
                        /\ pc'[s] = "idle" /\ key'[s] = NoKey
           /\ s # r => /\ users'[s] = users[s] /\ prev'[s] = prev[s]
                       /\ todo'[s] = todo[s] /\ pc'[s] = pc[s]
                       /\ key'[s] = key[s] /\ cur'[s] = cur[s]
BY DEF TypeInv, TypeOK, Exit

\* Every step keeps the lists inside the mirrored clusters.
LEMMA MirrorStep == TypeInv /\ MirrorInv /\ [Next]_vars => MirrorInv'
<1> SUFFICES ASSUME TypeInv, MirrorInv, [Next]_vars PROVE MirrorInv' OBVIOUS
<1> USE DEF MirrorInv, PublishedIsMirrored
<1>1. ASSUME NEW r \in Runs, Start(r) \/ ListClusters(r) PROVE MirrorInv'
  BY <1>1 DEF TypeInv, TypeOK, Start, ListClusters, AfterEnsure, GoTo, apiVars
<1>2. ASSUME NEW r \in Runs, NEW c \in Clusters,
             GetSecretFound(r, c) \/ GetSecretMissing(r, c) PROVE MirrorInv'
  BY <1>2 DEF TypeInv, TypeOK, GetSecretFound, GetSecretMissing, GoTo, apiVars
<1>3. ASSUME NEW r \in Runs, CreateSecret(r) PROVE MirrorInv'
  BY <1>3 DEF TypeInv, TypeOK, CreateSecret, GoTo
<1>4. ASSUME NEW r \in Runs, GetPush(r) PROVE MirrorInv'
  BY <1>4 DEF TypeInv, TypeOK, GetPush, GoTo, apiVars
<1>5. ASSUME NEW r \in Runs, AppendUser(r), cur[r] \in pushed',
             pushed \subseteq pushed', published' = published
      PROVE  MirrorInv'
  <2>1. \A s \in Runs : clustersOf(users'[s]) \subseteq pushed'
    BY <1>5, AppendUserClusters
  <2>2. \A s \in Runs : pc'[s] = "updatePush" => cur'[s] \in pushed'
    BY <1>5 DEF TypeInv, TypeOK, AppendUser, GoTo, AfterEnsure
  <2> QED BY <1>5, <2>1, <2>2
<1>6. ASSUME NEW r \in Runs, UpdatePush(r) PROVE MirrorInv'
  BY <1>5, <1>6 DEF UpdatePush, apiVars
<1>7. ASSUME NEW r \in Runs, Exit(r), pushed \subseteq pushed',
             published' = published \/ published' = users[r]
      PROVE  MirrorInv'
  <2>1. clustersOf({}) = {}
    BY DEF clustersOf
  <2>2. \A s \in Runs : clustersOf(users'[s]) \subseteq pushed'
    BY <1>7, <2>1, ExitUsers, Zenon
  <2>3. \A s \in Runs : pc'[s] = "updatePush" => cur'[s] \in pushed'
    BY <1>7, ExitUsers
  <2> QED BY <1>7, <2>2, <2>3
<1>8. ASSUME NEW r \in Runs, CreatePush(r) PROVE MirrorInv'
  BY <1>5, <1>7, <1>8 DEF CreatePush, TypeInv, TypeOK
<1>9. ASSUME NEW r \in Runs, ReadPrevious(r) PROVE MirrorInv'
  BY <1>9 DEF TypeInv, TypeOK, ReadPrevious, GoTo, apiVars
<1>10. ASSUME NEW r \in Runs, NEW u \in prev[r], CheckDropped(r, u) PROVE MirrorInv'
  <2>1. CASE Exit(r)
    BY <1>7, <1>10, <2>1 DEF CheckDropped, apiVars
  <2>2. CASE UNCHANGED <<pc, todo, cur, key, users>>
    BY <1>10, <2>2 DEF CheckDropped, apiVars
  <2> QED BY <1>10, <2>1, <2>2 DEF CheckDropped
<1>11. ASSUME NEW r \in Runs, GetMap(r) PROVE MirrorInv'
  BY <1>11 DEF TypeInv, TypeOK, GetMap, GoTo
<1>12. ASSUME NEW r \in Runs, UpdateMap(r) \/ CreateMap(r) \/ Abort(r) PROVE MirrorInv'
  BY <1>7, <1>12 DEF UpdateMap, CreateMap, WriteMap, Abort
<1>13. ASSUME NEW c \in Clusters, Enable(c) \/ Disable(c) \/ DeleteSecret(c)
       PROVE  MirrorInv'
  BY <1>13 DEF Enable, Disable, DeleteSecret, apiVars, runVars
<1>14. CASE UNCHANGED vars
  BY <1>14 DEF vars, apiVars, runVars
<1> QED
  BY <1>1, <1>2, <1>3, <1>4, <1>6, <1>8, <1>9, <1>10, <1>11, <1>12, <1>13, <1>14
  DEF Next, RunStep

\* sync publishes a leaf only after its PushSecret exists, with any number of
\* overlapping runs and any failures.
THEOREM MirroredCorrect == Spec => []PublishedIsMirrored
<1>1. Init => MirrorInv
  BY DEF Init, MirrorInv, PublishedIsMirrored, clustersOf
<1>2. MirrorInv => PublishedIsMirrored
  BY DEF MirrorInv
<1> QED BY <1>1, <1>2, MirrorStep, TypeCorrect, PTL DEF Spec, TypeInv
-----------------------------------------------------------------------------
\* A stored seed is never replaced, and is deleted only for an unlabelled
\* cluster, with any number of overlapping runs and any failures.
THEOREM SeedCorrect == Spec => SeedNeverRegenerated
<1>1. TypeInv /\ [Next]_vars =>
        [\A c \in Clusters : secret[c] # NoKey /\ secret'[c] # secret[c]
              => secret'[c] = NoKey /\ c \notin enabled]_vars
  <2> SUFFICES ASSUME TypeInv, Next, NEW c \in Clusters,
                      secret[c] # NoKey, secret'[c] # secret[c]
               PROVE  secret'[c] = NoKey /\ c \notin enabled
    OBVIOUS
  <2>1. ASSUME NEW r \in Runs, CreateSecret(r) PROVE FALSE
    BY <2>1 DEF TypeInv, TypeOK, CreateSecret, StoreKey
  <2>2. ASSUME NEW d \in Clusters, DeleteSecret(d)
        PROVE  secret'[c] = NoKey /\ c \notin enabled
    BY <2>2 DEF TypeInv, TypeOK, DeleteSecret
  <2>3. ASSUME NEW r \in Runs, NEW d \in Clusters,
               GetSecretFound(r, d) \/ GetSecretMissing(r, d)
        PROVE  FALSE
    BY <2>3 DEF GetSecretFound, GetSecretMissing, apiVars
  <2>4. ASSUME NEW r \in Runs, NEW u \in prev[r], CheckDropped(r, u) PROVE FALSE
    BY <2>4 DEF CheckDropped, apiVars
  <2>5. ASSUME NEW r \in Runs,
               \/ Start(r) \/ ListClusters(r) \/ GetPush(r) \/ UpdatePush(r)
               \/ CreatePush(r) \/ ReadPrevious(r) \/ GetMap(r) \/ UpdateMap(r)
               \/ CreateMap(r) \/ Abort(r)
        PROVE  FALSE
    BY <2>5 DEF Start, ListClusters, GetPush, UpdatePush, CreatePush, ReadPrevious,
                GetMap, UpdateMap, CreateMap, Abort, apiVars
  <2>6. ASSUME NEW d \in Clusters, Enable(d) \/ Disable(d) PROVE FALSE
    BY <2>6 DEF Enable, Disable, apiVars
  <2> QED BY <2>1, <2>2, <2>3, <2>4, <2>5, <2>6 DEF Next, RunStep
<1> QED BY <1>1, TypeCorrect, PTL DEF Spec, TypeInv, SeedNeverRegenerated
-----------------------------------------------------------------------------
(***************************************************************************)
(* A key belongs to one cluster.  A key is tied to a cluster by a Secret,  *)
(* by a user on some list, or by a run that is ensuring the cluster; only  *)
(* GetSecretMissing ties a new one, and it takes a key in no use.          *)
(***************************************************************************)
Ties(c, k) ==
    \/ secret[c] = k
    \/ \E u \in published : u.cluster = c /\ u.nkey = k
    \/ \E r \in Runs : \E u \in users[r] \cup prev[r] : u.cluster = c /\ u.nkey = k
    \/ \E r \in Runs : pc[r] \in Ensuring /\ cur[r] = c /\ key[r] = k

OneOwner == \A k \in Keys : \A c, d \in Clusters : Ties(c, k) /\ Ties(d, k) => c = d

\* A step that ties no new key keeps every key with its owner.
LEMMA OwnerKept ==
    ASSUME OneOwner,
           \A k \in Keys : \A c \in Clusters : Ties(c, k)' => Ties(c, k)
    PROVE  OneOwner'
BY DEF OneOwner

\* Ending a run, with or without writing its list, ties no new key.
LEMMA ExitTies ==
    ASSUME TypeInv, NEW r \in Runs, Exit(r), secret' = secret,
           published' = published \/ published' = users[r],
           NEW k \in Keys, NEW c \in Clusters, Ties(c, k)'
    PROVE  Ties(c, k)
<1>1. \A s \in Runs : pc'[s] \in Ensuring => s # r
  BY ExitUsers DEF Ensuring
<1> QED BY <1>1, ExitUsers DEF Ties

\* The user AppendUser adds carries the tie that ensureKey held.
LEMMA AppendTies ==
    ASSUME TypeInv, NEW r \in Runs, pc[r] \in Ensuring, AppendUser(r),
           UNCHANGED <<secret, published, prev>>,
           NEW k \in Keys, NEW c \in Clusters, Ties(c, k)'
    PROVE  Ties(c, k)
<1>1. \A s \in Runs : s # r => /\ users'[s] = users[s] /\ pc'[s] = pc[s]
                               /\ cur'[s] = cur[s] /\ key'[s] = key[s]
  BY DEF TypeInv, TypeOK, AppendUser, GoTo
<1>2. users'[r] = users[r] \cup {nkeyUser(cur[r], key[r])} /\ pc'[r] \notin Ensuring
  BY DEF TypeInv, TypeOK, AppendUser, GoTo, AfterEnsure, Ensuring
<1> QED BY <1>1, <1>2 DEF Ties, nkeyUser

\* Every step keeps every key with one cluster.
LEMMA OwnerStep == TypeInv /\ OneOwner /\ [Next]_vars => OneOwner'
<1> SUFFICES ASSUME TypeInv, OneOwner, [Next]_vars PROVE OneOwner' OBVIOUS
<1> DEFINE NoNewTie == \A k \in Keys : \A c \in Clusters : Ties(c, k)' => Ties(c, k)
<1>1. ASSUME NEW r \in Runs, Start(r) \/ ListClusters(r) PROVE NoNewTie
  BY <1>1 DEF Ties, TypeInv, TypeOK, Start, ListClusters, AfterEnsure, GoTo, apiVars, Ensuring
<1>2. ASSUME NEW r \in Runs, NEW c \in Clusters, GetSecretFound(r, c) PROVE NoNewTie
  BY <1>2 DEF Ties, TypeInv, TypeOK, GetSecretFound, GoTo, apiVars
<1>3. ASSUME NEW r \in Runs, NEW c \in Clusters, GetSecretMissing(r, c) PROVE OneOwner'
  <2>1. \A d \in Clusters : ~Ties(d, generateNKey)
    <3>1. generateNKey \in Keys /\ generateNKey \notin KeysInUse
      BY <1>3, GeneratedIsFresh DEF GetSecretMissing
    <3> QED BY <3>1 DEF KeysInUse, nkeysOf, Ties
  <2>2. \A k \in Keys : \A d \in Clusters :
          Ties(d, k)' => Ties(d, k) \/ (d = c /\ k = generateNKey)
    BY <1>3 DEF Ties, TypeInv, TypeOK, GetSecretMissing, GoTo, apiVars
  <2> QED BY <2>1, <2>2 DEF OneOwner
<1>4. ASSUME NEW r \in Runs, CreateSecret(r) PROVE NoNewTie
  BY <1>4 DEF Ties, TypeInv, TypeOK, CreateSecret, StoreKey, GoTo, Ensuring
<1>5. ASSUME NEW r \in Runs, GetPush(r) PROVE NoNewTie
  BY <1>5 DEF Ties, TypeInv, TypeOK, GetPush, GoTo, apiVars, Ensuring
<1>6. ASSUME NEW r \in Runs, UpdatePush(r) PROVE NoNewTie
  BY <1>6, AppendTies DEF UpdatePush, apiVars, Ensuring
<1>7. ASSUME NEW r \in Runs, CreatePush(r) PROVE NoNewTie
  BY <1>7, AppendTies, ExitTies DEF CreatePush, Ensuring
<1>8. ASSUME NEW r \in Runs, ReadPrevious(r) PROVE NoNewTie
  BY <1>8 DEF Ties, TypeInv, TypeOK, ReadPrevious, previousUsers, GoTo, apiVars, Ensuring
<1>9. ASSUME NEW r \in Runs, NEW u \in prev[r], CheckDropped(r, u) PROVE NoNewTie
  <2>1. CASE Exit(r)
    BY <1>9, <2>1, ExitTies DEF CheckDropped, apiVars
  <2>2. CASE prev' = [prev EXCEPT ![r] = @ \ {u}] /\ UNCHANGED <<pc, todo, cur, key, users>>
    BY <1>9, <2>2 DEF Ties, TypeInv, TypeOK, CheckDropped, apiVars
  <2> QED BY <1>9, <2>1, <2>2 DEF CheckDropped
<1>10. ASSUME NEW r \in Runs, GetMap(r) PROVE NoNewTie
  BY <1>10 DEF Ties, TypeInv, TypeOK, GetMap, GoTo, Ensuring
<1>11. ASSUME NEW r \in Runs, UpdateMap(r) \/ CreateMap(r) \/ Abort(r) PROVE NoNewTie
  BY <1>11, ExitTies DEF UpdateMap, CreateMap, WriteMap, Abort
<1>12. ASSUME NEW c \in Clusters, Enable(c) \/ Disable(c) PROVE NoNewTie
  BY <1>12 DEF Ties, Enable, Disable, apiVars, runVars
<1>13. ASSUME NEW c \in Clusters, DeleteSecret(c) PROVE NoNewTie
  BY <1>13 DEF Ties, TypeInv, TypeOK, DeleteSecret, runVars
<1>14. CASE UNCHANGED vars
  BY <1>14 DEF OneOwner, Ties, vars, apiVars, runVars
<1> QED
  BY <1>1, <1>2, <1>3, <1>4, <1>5, <1>6, <1>7, <1>8, <1>9, <1>10, <1>11, <1>12,
     <1>13, <1>14, OwnerKept DEF Next, RunStep

\* A key pair never belongs to two clusters, so droppedNkeys may compare keys
\* and forget the clusters.
THEOREM OwnerCorrect == Spec => []OneOwner
<1>1. Init => OneOwner
  BY DEF Init, OneOwner, Ties, Ensuring
<1> QED BY <1>1, OwnerStep, TypeCorrect, PTL DEF Spec, TypeInv
-----------------------------------------------------------------------------
(***************************************************************************)
(* The guard of writeConfigMap.  Runs that do not overlap, and a ConfigMap *)
(* read that does not fail, are what it needs: every published user is in  *)
(* the new list, or still to be looked up, or its Secret is gone; and the  *)
(* write comes when none is left to look up.                               *)
(***************************************************************************)
Serial == \A r, s \in Runs : r = s

Guarding == {"checkDropped", "updateMap", "createMap"}

DropInv ==
    /\ \A r \in Runs : pc[r] \in Guarding =>
          \A u \in published : \/ u.nkey \in nkeysOf(users[r])
                               \/ u \in prev[r]
                               \/ secret[u.cluster] = NoKey
    /\ \A r \in Runs : pc[r] \in {"updateMap", "createMap"} => prev[r] = {}

\* A run that ends guards nothing any more.
LEMMA DropExit ==
    ASSUME Serial, TypeInv, NEW r \in Runs, Exit(r)
    PROVE  DropInv'
<1>1. \A s \in Runs : pc'[s] = "idle"
  BY ExitUsers DEF Serial
<1> QED BY <1>1 DEF DropInv, Guarding

\* A serial step leads into the guard only through its reads.
LEMMA DropStep ==
    ASSUME Serial, ~ReadMayFail
    PROVE  TypeInv /\ DropInv /\ [Next]_vars => DropInv'
<1> SUFFICES ASSUME TypeInv, DropInv, [Next]_vars PROVE DropInv' OBVIOUS
<1>1. ASSUME NEW r \in Runs, pc'[r] \notin Guarding PROVE DropInv'
  BY <1>1 DEF Serial, DropInv, Guarding
<1>2. ASSUME NEW r \in Runs, Start(r) \/ ListClusters(r) \/ CreateSecret(r) \/ GetPush(r)
      PROVE  DropInv'
  BY <1>1, <1>2 DEF TypeInv, TypeOK, Start, ListClusters, CreateSecret, GetPush,
                    AfterEnsure, GoTo, Guarding
<1>3. ASSUME NEW r \in Runs, NEW c \in Clusters,
             GetSecretFound(r, c) \/ GetSecretMissing(r, c) PROVE DropInv'
  BY <1>1, <1>3 DEF TypeInv, TypeOK, GetSecretFound, GetSecretMissing, GoTo, Guarding
<1>4. ASSUME NEW r \in Runs, AppendUser(r) PROVE DropInv'
  BY <1>1, <1>4 DEF TypeInv, TypeOK, AppendUser, AfterEnsure, GoTo, Guarding
<1>5. ASSUME NEW r \in Runs, UpdatePush(r) \/ CreatePush(r) PROVE DropInv'
  BY <1>4, <1>5, DropExit DEF UpdatePush, CreatePush
<1>6. ASSUME NEW r \in Runs, ReadPrevious(r) PROVE DropInv'
  BY <1>6 DEF Serial, DropInv, TypeInv, TypeOK, ReadPrevious, previousUsers, GoTo, apiVars
<1>7. ASSUME NEW r \in Runs, NEW u \in prev[r], CheckDropped(r, u) PROVE DropInv'
  <2>1. CASE /\ secret[clusterFromUser(u)] = NoKey
             /\ prev' = [prev EXCEPT ![r] = @ \ {u}]
             /\ UNCHANGED <<pc, todo, cur, key, users>>
    BY <1>7, <2>1 DEF Serial, DropInv, Guarding, TypeInv, TypeOK, CheckDropped,
                      clusterFromUser, apiVars
  <2> QED BY <1>7, <2>1, DropExit DEF CheckDropped
<1>8. ASSUME NEW r \in Runs, GetMap(r) PROVE DropInv'
  BY <1>8 DEF Serial, DropInv, Guarding, TypeInv, TypeOK, GetMap, GoTo
<1>9. ASSUME NEW r \in Runs, UpdateMap(r) \/ CreateMap(r) \/ Abort(r) PROVE DropInv'
  BY <1>9, DropExit DEF UpdateMap, CreateMap, Abort
<1>10. ASSUME NEW c \in Clusters, Enable(c) \/ Disable(c) PROVE DropInv'
  BY <1>10 DEF DropInv, Enable, Disable, apiVars, runVars
<1>11. ASSUME NEW c \in Clusters, DeleteSecret(c) PROVE DropInv'
  BY <1>11 DEF DropInv, TypeInv, TypeOK, DeleteSecret, runVars, UserRecord
<1>12. CASE UNCHANGED vars
  BY <1>12 DEF DropInv, vars, apiVars, runVars
<1> QED
  BY <1>2, <1>3, <1>5, <1>6, <1>7, <1>8, <1>9, <1>10, <1>11, <1>12 DEF Next, RunStep

\* When runs do not overlap and the ConfigMap read does not fail, writeConfigMap
\* takes no leaf off the list whose Secret still exists.
THEOREM DropCorrect == ASSUME Serial, ~ReadMayFail PROVE Spec => NoSilentDrop
<1>1. Init => DropInv
  BY DEF Init, DropInv, Guarding
<1>2. TypeInv /\ OneOwner /\ DropInv /\ [Next]_vars =>
        [\A u \in published \ published' : secret[clusterFromUser(u)] = NoKey]_vars
  <2> SUFFICES ASSUME TypeInv, OneOwner, DropInv, Next,
                      NEW u \in published \ published'
               PROVE  secret[clusterFromUser(u)] = NoKey
    OBVIOUS
  <2>1. ASSUME NEW r \in Runs, pc[r] \in {"updateMap", "createMap"}, WriteMap(r)
        PROVE  secret[clusterFromUser(u)] = NoKey
    <3>1. u \notin users[r] /\ prev[r] = {}
      BY <2>1 DEF WriteMap, DropInv
    <3>2. u.nkey \in nkeysOf(users[r]) \/ secret[u.cluster] = NoKey
      BY <2>1, <3>1 DEF DropInv, Guarding
    <3>3. ASSUME NEW v \in users[r], v.nkey = u.nkey PROVE FALSE
      <4>1. u \in UserRecord /\ v \in UserRecord
        BY DEF TypeInv, TypeOK
      <4>2. Ties(u.cluster, u.nkey) /\ Ties(v.cluster, u.nkey)
        BY <3>3 DEF Ties
      <4>3. u.cluster = v.cluster
        BY <4>1, <4>2 DEF OneOwner, UserRecord
      <4> QED BY <3>1, <3>3, <4>1, <4>3 DEF UserRecord
    <3> QED BY <3>2, <3>3 DEF nkeysOf, clusterFromUser
  <2>2. ASSUME NEW r \in Runs, UpdateMap(r) \/ CreateMap(r)
        PROVE  secret[clusterFromUser(u)] = NoKey
    BY <2>1, <2>2 DEF UpdateMap, CreateMap
  <2>3. ASSUME NEW r \in Runs, NEW c \in Clusters,
               GetSecretFound(r, c) \/ GetSecretMissing(r, c)
        PROVE  FALSE
    BY <2>3 DEF GetSecretFound, GetSecretMissing, apiVars
  <2>4. ASSUME NEW r \in Runs, NEW v \in prev[r], CheckDropped(r, v) PROVE FALSE
    BY <2>4 DEF CheckDropped, apiVars
  <2>5. ASSUME NEW r \in Runs,
               \/ Start(r) \/ ListClusters(r) \/ CreateSecret(r) \/ GetPush(r)
               \/ UpdatePush(r) \/ CreatePush(r) \/ ReadPrevious(r) \/ GetMap(r)
               \/ Abort(r)
        PROVE  FALSE
    BY <2>5 DEF Start, ListClusters, CreateSecret, GetPush, UpdatePush, CreatePush,
                ReadPrevious, GetMap, Abort, apiVars
  <2>6. ASSUME NEW c \in Clusters, Enable(c) \/ Disable(c) \/ DeleteSecret(c)
        PROVE  FALSE
    BY <2>6 DEF Enable, Disable, DeleteSecret, apiVars
  <2> QED BY <2>2, <2>3, <2>4, <2>5, <2>6 DEF Next, RunStep
<1> QED
  BY <1>1, <1>2, DropStep, OwnerCorrect, TypeCorrect, PTL DEF Spec, TypeInv, NoSilentDrop
-----------------------------------------------------------------------------
(***************************************************************************)
(* A published key is the stored one.  It takes runs that do not overlap   *)
(* (or the pair that lost the race to be stored is published) and an       *)
(* operator who does not label a cluster again while its old key is still  *)
(* published (or the new pair is stored while the old key is listed).      *)
(***************************************************************************)
StoredInv ==
    /\ PublishedKeyIsStored
    /\ \A c \in enabled : secret[c] = NoKey => c \notin clustersOf(published)
    /\ \A r \in Runs : \A c \in todo[r] :
          secret[c] = NoKey => c \notin clustersOf(published)
    /\ \A r \in Runs : \A u \in users[r] : secret[u.cluster] = u.nkey
    /\ \A r \in Runs : pc[r] \in {"getPush", "updatePush", "createPush"} =>
          secret[cur[r]] = key[r]
    /\ \A r \in Runs : pc[r] = "createSecret" => secret[cur[r]] = NoKey
    /\ \A r \in Runs : pc[r] = "idle" => todo[r] = {} /\ users[r] = {}

\* Ending a run, with or without writing its list, keeps the invariant.
LEMMA StoredExit ==
    ASSUME Serial, TypeInv, StoredInv, NEW r \in Runs, Exit(r),
           UNCHANGED <<secret, enabled>>,
           published' = published \/ published' = users[r]
    PROVE  StoredInv'
<1>1. \A s \in Runs : pc'[s] = "idle" /\ todo'[s] = {} /\ users'[s] = {}
  BY ExitUsers, Zenon DEF Serial
<1>2. CASE published' = published
  BY <1>1, <1>2, Zenon DEF StoredInv, PublishedKeyIsStored
<1>3. CASE published' = users[r]
  <2>1. \A u \in users[r] : u \in UserRecord /\ secret[u.cluster] = u.nkey /\ u.nkey # NoKey
    BY DEF StoredInv, TypeInv, TypeOK, UserRecord
  <2>2. \A u \in published' : secret'[u.cluster] = u.nkey /\ u.nkey # NoKey
    BY <1>3, <2>1
  <2>3. \A c : secret'[c] = NoKey => c \notin clustersOf(published')
    BY <2>2 DEF clustersOf, clusterFromUser
  <2>4. PublishedKeyIsStored'
    BY <2>2 DEF PublishedKeyIsStored, clusterFromUser
  <2> QED BY <1>1, <2>3, <2>4 DEF StoredInv
<1> QED BY <1>2, <1>3

\* The appended user carries the stored key.
LEMMA StoredAppend ==
    ASSUME Serial, TypeInv, StoredInv, NEW r \in Runs,
           pc[r] \in {"updatePush", "createPush"}, AppendUser(r),
           UNCHANGED <<secret, published, enabled>>
    PROVE  StoredInv'
BY DEF Serial, StoredInv, PublishedKeyIsStored, TypeInv, TypeOK, AppendUser, nkeyUser,
       AfterEnsure, GoTo

\* A serial step with a careful operator keeps the invariant.
LEMMA StoredStep ==
    ASSUME Serial, CarefulOperator
    PROVE  TypeInv /\ StoredInv /\ [Next]_vars => StoredInv'
<1> SUFFICES ASSUME TypeInv, StoredInv, [Next]_vars PROVE StoredInv' OBVIOUS
<1> USE DEF StoredInv, PublishedKeyIsStored
<1>1. ASSUME NEW r \in Runs, Start(r) \/ ListClusters(r) PROVE StoredInv'
  <2>1. CASE Start(r)
    BY <2>1, Zenon DEF Serial, TypeInv, TypeOK, Start, GoTo, apiVars, envVars
  <2>2. CASE ListClusters(r)
    <3>1. /\ UNCHANGED <<secret, published, enabled, users, cur, key>>
          /\ todo' = [todo EXCEPT ![r] = enabled \cap ValidNames]
          /\ pc' = [pc EXCEPT ![r] = AfterEnsure(enabled \cap ValidNames)]
      BY <2>2 DEF ListClusters, GoTo, apiVars, envVars
    <3>2. \A s \in Runs : s = r
      BY DEF Serial
    <3>3. pc'[r] \in {"readPrevious", "getSecret"} /\ todo'[r] \subseteq enabled
      BY <3>1 DEF TypeInv, TypeOK, AfterEnsure
    <3> QED
      BY <3>1, <3>2, <3>3, Zenon
  <2> QED
    BY <1>1, <2>1, <2>2, Zenon
<1>2. ASSUME NEW r \in Runs, NEW c \in Clusters, GetSecretFound(r, c) PROVE StoredInv'
  BY <1>2 DEF Serial, TypeInv, TypeOK, GetSecretFound, GoTo, apiVars, envVars
<1>3. ASSUME NEW r \in Runs, NEW c \in Clusters, GetSecretMissing(r, c) PROVE StoredInv'
  BY <1>3 DEF Serial, TypeInv, TypeOK, GetSecretMissing, GoTo, apiVars, envVars
<1>4. ASSUME NEW r \in Runs, CreateSecret(r) PROVE StoredInv'
  <2>1. /\ cur[r] \in Clusters /\ key[r] \in Keys /\ secret[cur[r]] = NoKey
        /\ cur[r] \notin clustersOf(published)
    BY <1>4 DEF TypeInv, TypeOK, HoldsKey, CreateSecret, Ensuring
  <2>2. secret' = [secret EXCEPT ![cur[r]] = key[r]]
    BY <1>4, <2>1 DEF CreateSecret, StoreKey
  <2>3. \A u \in users[r] : u.cluster # cur[r]
    BY <2>1 DEF TypeInv, TypeOK, UserRecord
  <2>4. /\ pc' = [pc EXCEPT ![r] = "getPush"]
        /\ UNCHANGED <<published, enabled, todo, cur, key, users>>
    BY <1>4 DEF CreateSecret, GoTo, envVars
  <2>5. \A s \in Runs : s = r
    BY DEF Serial
  <2>6. \A c \in Clusters : c # cur[r] => secret'[c] = secret[c]
    BY <2>1, <2>2 DEF TypeInv, TypeOK
  <2>7. secret'[cur[r]] = key[r] /\ pc'[r] = "getPush"
    BY <2>1, <2>2, <2>4 DEF TypeInv, TypeOK
  <2>8. PublishedKeyIsStored'
    <3>1. \A u \in published : clusterFromUser(u) \in Clusters /\ clusterFromUser(u) # cur[r]
      BY <2>1 DEF TypeInv, TypeOK, clustersOf, clusterFromUser, UserRecord
    <3> QED
      BY <2>4, <2>6, <3>1, Zenon DEF clusterFromUser
  <2>9. \A c \in Clusters : secret'[c] = NoKey => secret[c] = NoKey
    BY <2>1, <2>6
  <2>10. enabled \subseteq Clusters /\ todo[r] \subseteq Clusters
    BY DEF TypeInv, TypeOK
  <2>11. \A u \in users[r] : u.cluster \in Clusters
    BY DEF TypeInv, TypeOK, UserRecord
  <2>12. \A u \in users'[r] : secret'[u.cluster] = u.nkey
    BY <2>3, <2>4, <2>6, <2>11
  <2>13. /\ \A c \in enabled' : secret'[c] = NoKey => c \notin clustersOf(published')
         /\ \A c \in todo'[r] : secret'[c] = NoKey => c \notin clustersOf(published')
    BY <2>4, <2>9, <2>10
  <2> QED
    BY <2>4, <2>5, <2>7, <2>8, <2>12, <2>13
<1>5. ASSUME NEW r \in Runs, GetPush(r) PROVE StoredInv'
  BY <1>5 DEF Serial, TypeInv, TypeOK, GetPush, GoTo, apiVars, envVars
<1>6. ASSUME NEW r \in Runs, UpdatePush(r) \/ CreatePush(r) PROVE StoredInv'
  BY <1>6, StoredAppend, StoredExit DEF UpdatePush, CreatePush, apiVars, envVars
<1>7. ASSUME NEW r \in Runs, ReadPrevious(r) \/ GetMap(r) PROVE StoredInv'
  <2>1. /\ UNCHANGED <<secret, published, enabled, todo, users, cur, key>>
        /\ pc[r] \in {"readPrevious", "checkDropped"}
        /\ \E step \in {"checkDropped", "updateMap", "createMap"} :
              pc' = [pc EXCEPT ![r] = step]
    BY <1>7 DEF ReadPrevious, GetMap, GoTo, apiVars, envVars
  <2>2. \A s \in Runs :
          /\ pc'[s] \in {"getPush", "updatePush", "createPush", "createSecret", "idle"} =>
               pc'[s] = pc[s]
    BY <2>1 DEF TypeInv, TypeOK
  <2> QED BY <2>1, <2>2
<1>8. ASSUME NEW r \in Runs, NEW u \in prev[r], CheckDropped(r, u) PROVE StoredInv'
  <2>1. CASE Exit(r)
    BY <1>8, <2>1, StoredExit DEF CheckDropped, apiVars, envVars
  <2>2. CASE UNCHANGED <<pc, todo, cur, key, users>>
    BY <1>8, <2>2, Zenon DEF CheckDropped, apiVars, envVars
  <2> QED BY <1>8, <2>1, <2>2, Zenon DEF CheckDropped
<1>9. ASSUME NEW r \in Runs, UpdateMap(r) \/ CreateMap(r) \/ Abort(r) PROVE StoredInv'
  BY <1>9, StoredExit, Zenon DEF UpdateMap, CreateMap, WriteMap, Abort, envVars
<1>10. ASSUME NEW c \in Clusters, Enable(c) \/ Disable(c) PROVE StoredInv'
  BY <1>10, Zenon DEF Enable, Disable, apiVars, runVars
<1>11. ASSUME NEW c \in Clusters, DeleteSecret(c) PROVE StoredInv'
  BY <1>11 DEF TypeInv, TypeOK, DeleteSecret, OperatorWaits, runVars, envVars,
               UserRecord, clusterFromUser
<1>12. CASE UNCHANGED vars
  BY <1>12, Zenon DEF vars, apiVars, runVars, envVars
<1> QED
  BY <1>1, <1>2, <1>3, <1>4, <1>5, <1>6, <1>7, <1>8, <1>9, <1>10, <1>11, <1>12, Zenon
  DEF Next, RunStep

\* When runs do not overlap and a cluster is not labelled again while its old
\* key is published, ensureKey's keys on the list are the stored ones.
THEOREM StoredCorrect == ASSUME Serial, CarefulOperator PROVE Spec => []PublishedKeyIsStored
<1>1. Init => StoredInv
  BY DEF Init, StoredInv, PublishedKeyIsStored
<1>2. StoredInv => PublishedKeyIsStored
  BY Zenon DEF StoredInv
<1> QED BY <1>1, <1>2, StoredStep, TypeCorrect, PTL DEF Spec, TypeInv
-----------------------------------------------------------------------------
(***************************************************************************)
(* The migrations.  Statements are never undone, so what a Job knows to be *)
(* applied stays applied whatever the other Jobs record.                   *)
(***************************************************************************)
USE MigrateAssumption

\* What lies one before.
LEMMA OneBefore ==
    ASSUME NEW n \in Nat
    PROVE  /\ (n + 1) - 1 = n
           /\ \A k \in 1..n : k # n => k \in 1..(n - 1)
OBVIOUS

\* A later version includes an earlier one.
LEMMA UpToLess ==
    ASSUME NEW v \in 0..Latest, NEW w \in 0..Latest, v <= w
    PROVE  UpTo(v) \subseteq UpTo(w)
<1>1. 1..v \subseteq 1..w
  OBVIOUS
<1> QED
  BY <1>1 DEF UpTo

\* A version adds the statements of its file.
LEMMA UpToNext ==
    ASSUME NEW v \in Versions
    PROVE  UpTo(v) = UpTo(v - 1) \cup StatementsOf(v)
<1>1. 1..v = (1..(v - 1)) \cup {v}
  BY DEF Versions
<1> QED
  BY <1>1 DEF UpTo

\* No version, no statements.
LEMMA UpToZero == UpTo(0) = {}
BY DEF UpTo

\* Every file belongs to the migrations.
LEMMA StatementInUpTo ==
    ASSUME NEW v \in Versions
    PROVE  StatementsOf(v) \subseteq UpTo(Latest)
BY DEF UpTo, Versions

\* What job j knows to be applied.
JobInv(j) ==
    /\ podPc[j] \in Migrating => UpTo(at[j] - 1) \subseteq applied
    /\ podPc[j] = "run" => \A k \in 1..(next[j] - 1) : <<at[j], k>> \in applied
    /\ podPc[j] = "markClean" => StatementsOf(at[j]) \subseteq applied
    /\ podPc[j] \in {"report", "succeeded"} => UpTo(Latest) \subseteq applied

\* A dirty version comes after versions that are applied.
RecordedInv ==
    IF recorded.dirty
    THEN recorded.version \in Versions /\ UpTo(recorded.version - 1) \subseteq applied
    ELSE UpTo(recorded.version) \subseteq applied

MigrateInv == MigrateTypeOK /\ RecordedInv /\ \A j \in Jobs : JobInv(j)

\* Every step keeps the type invariant.
LEMMA MigrateTypeStep ==
    ASSUME MigrateTypeOK, RecordedInv, [MigrateNext]_migrateVars
    PROVE  MigrateTypeOK'
<1> USE DEF MigrateTypeOK, Goto, PodSteps
<1>1. ASSUME NEW j \in Jobs, Configure(j) PROVE MigrateTypeOK'
  BY <1>1 DEF Configure
<1>2. ASSUME NEW j \in Jobs, ensureDatabaseExists(j) PROVE MigrateTypeOK'
  BY <1>2 DEF ensureDatabaseExists
<1>3. ASSUME NEW j \in Jobs, ReadVersion(j) PROVE MigrateTypeOK'
  <2>1. AfterRead \in {"failed", "report", "markDirty"}
    BY DEF AfterRead
  <2>2. (IF recorded.version = Latest THEN Latest ELSE recorded.version + 1) \in Versions
    BY DEF Versions
  <2> QED
    BY <1>3, <2>1, <2>2 DEF ReadVersion
<1>4. ASSUME NEW j \in Jobs, MarkDirty(j) PROVE MigrateTypeOK'
  BY <1>4 DEF MarkDirty, Versions
<1>5. ASSUME NEW j \in Jobs, RunStatement(j) PROVE MigrateTypeOK'
  <2>1. <<at[j], next[j]>> \in UpTo(Latest)
    <3>1. <<at[j], next[j]>> \in StatementsOf(at[j])
      BY <1>5, Zenon DEF RunStatement, StatementsOf
    <3> QED
      BY <3>1, StatementInUpTo
  <2>2. applied' \subseteq UpTo(Latest)
    BY <1>5, <2>1, Zenon DEF RunStatement
  <2>3. next' \in [Jobs -> Nat]
    BY <1>5 DEF RunStatement
  <2>4. ASSUME NEW i \in Jobs, podPc'[i] = "run" PROVE next'[i] \in 1..Statements[at'[i]]
    BY <1>5, <2>4 DEF RunStatement, IsLast, Versions
  <2> QED
    BY <1>5, <2>2, <2>3, <2>4 DEF RunStatement
<1>6. ASSUME NEW j \in Jobs, MarkClean(j) PROVE MigrateTypeOK'
  <2>1. NextVersion(at[j]) \in Versions
    BY DEF NextVersion, Versions
  <2>2. at' \in [Jobs -> Versions] /\ podPc' \in [Jobs -> PodSteps]
    BY <1>6, <2>1 DEF MarkClean
  <2>3. recorded' \in [version : 0..Latest, dirty : BOOLEAN]
    BY <1>6 DEF MarkClean, Versions
  <2>4. ASSUME NEW i \in Jobs, podPc'[i] = "run" PROVE next'[i] \in 1..Statements[at'[i]]
    <3>1. i # j /\ podPc[i] = "run" /\ at'[i] = at[i] /\ next' = next
      BY <1>6, <2>4 DEF MarkClean
    <3> QED
      BY <3>1
  <2> QED
    BY <1>6, <2>2, <2>3, <2>4 DEF MarkClean
<1>7. ASSUME NEW j \in Jobs, Report(j) PROVE MigrateTypeOK'
  BY <1>7 DEF Report
<1>8. ASSUME NEW j \in Jobs, Fail(j) PROVE MigrateTypeOK'
  BY <1>8 DEF Fail
<1>9. ASSUME NEW j \in Jobs, Restart(j) PROVE MigrateTypeOK'
  BY <1>9 DEF Restart
<1>10. CASE Repair
  <2>1. StatementsOf(recorded.version) \subseteq UpTo(Latest)
    BY <1>10, StatementInUpTo DEF Repair, RecordedInv
  <2>2. applied' \subseteq UpTo(Latest)
    BY <1>10, <2>1 DEF Repair
  <2>3. recorded' \in [version : 0..Latest, dirty : BOOLEAN]
    <3>1. [recorded EXCEPT !.dirty = FALSE] \in [version : 0..Latest, dirty : BOOLEAN]
      BY Zenon
    <3>2. [version |-> 0, dirty |-> FALSE] \in [version : 0..Latest, dirty : BOOLEAN]
      OBVIOUS
    <3> QED
      BY <1>10, <3>1, <3>2, Zenon DEF Repair
  <2> QED
    BY <1>10, <2>2, <2>3 DEF Repair, jobVars
<1>11. CASE UNCHANGED migrateVars
  BY <1>11 DEF migrateVars, jobVars
<1> QED
  BY <1>1, <1>2, <1>3, <1>4, <1>5, <1>6, <1>7, <1>8, <1>9, <1>10, <1>11, Zenon DEF MigrateNext, Run

\* Statements are never undone.
LEMMA AppliedGrows == ASSUME [MigrateNext]_migrateVars PROVE applied \subseteq applied'
BY DEF MigrateNext, Run, Configure, ensureDatabaseExists, ReadVersion, MarkDirty, RunStatement,
       MarkClean, Report, Fail, Restart, Repair, migrateVars

\* A step of one job does not touch what another one knows.
LEMMA OthersKeep ==
    ASSUME applied \subseteq applied', NEW i \in Jobs, JobInv(i),
           podPc'[i] = podPc[i], at'[i] = at[i], next'[i] = next[i]
    PROVE  JobInv(i)'
BY DEF JobInv

\* A step of a job keeps what is known to be applied.
LEMMA JobStep ==
    ASSUME MigrateInv, NEW j \in Jobs, Run(j)
    PROVE  RecordedInv' /\ \A i \in Jobs : JobInv(i)'
<1> USE DEF MigrateInv
<1>0. applied \subseteq applied'
  BY AppliedGrows DEF MigrateNext
<1>1. ASSUME NEW i \in Jobs, i # j PROVE JobInv(i)'
  <2>1. podPc'[i] = podPc[i] /\ at'[i] = at[i] /\ next'[i] = next[i]
    BY <1>1 DEF Run, Configure, ensureDatabaseExists, ReadVersion, MarkDirty, RunStatement,
                MarkClean, Report, Goto, MigrateTypeOK
  <2> QED
    BY <1>0, <2>1, OthersKeep
<1>2. recorded' = recorded => RecordedInv'
  BY <1>0 DEF RecordedInv
<1>3. CASE Configure(j) \/ ensureDatabaseExists(j)
  <2>1. podPc'[j] \in {"ensureDatabase", "readVersion", "failed"} /\ recorded' = recorded
    BY <1>3 DEF Configure, ensureDatabaseExists, Goto, MigrateTypeOK
  <2> QED
    BY <1>1, <1>2, <2>1 DEF JobInv, Migrating
<1>4. CASE ReadVersion(j)
  <2>1. recorded' = recorded /\ applied' = applied /\ podPc'[j] = AfterRead
    BY <1>4 DEF ReadVersion, Goto, MigrateTypeOK
  <2>2. CASE AfterRead = "failed"
    BY <1>1, <1>2, <2>1, <2>2 DEF JobInv, Migrating
  <2>3. CASE AfterRead = "report"
    <3>1. UpTo(Latest) \subseteq applied
      BY <2>3 DEF AfterRead, RecordedInv
    <3> QED
      BY <1>1, <1>2, <2>1, <2>3, <3>1 DEF JobInv, Migrating
  <2>4. CASE AfterRead = "markDirty"
    <3>1. ~recorded.dirty /\ recorded.version # Latest
      BY <2>4 DEF AfterRead
    <3>2. at'[j] = recorded.version + 1
      BY <1>4, <3>1 DEF ReadVersion, MigrateTypeOK
    <3>3. at'[j] - 1 = recorded.version
      BY <3>2 DEF MigrateTypeOK
    <3>4. UpTo(at'[j] - 1) \subseteq applied'
      BY <2>1, <3>1, <3>3 DEF RecordedInv
    <3> QED
      BY <1>1, <1>2, <2>1, <2>4, <3>4 DEF JobInv, Migrating
  <2> QED
    BY <2>2, <2>3, <2>4 DEF AfterRead
<1>5. CASE MarkDirty(j)
  <2>1. /\ podPc[j] = "markDirty" /\ podPc'[j] = "run" /\ next'[j] = 1 /\ at'[j] = at[j]
        /\ applied' = applied /\ recorded' = [version |-> at[j], dirty |-> TRUE]
    BY <1>5 DEF MarkDirty, Goto, MigrateTypeOK
  <2>2. UpTo(at[j] - 1) \subseteq applied /\ at[j] \in Versions
    BY <2>1, Zenon DEF JobInv, Migrating, MigrateTypeOK
  <2>3. 1..(1 - 1) = {}
    OBVIOUS
  <2>4. RecordedInv'
    BY <2>1, <2>2, Zenon DEF RecordedInv
  <2>5. JobInv(j)'
    BY <2>1, <2>2, <2>3 DEF JobInv
  <2> QED
    BY <1>1, <2>4, <2>5
<1>6. CASE RunStatement(j)
  <2>1. /\ podPc[j] = "run" /\ at'[j] = at[j] /\ recorded' = recorded
        /\ applied' = applied \cup {<<at[j], next[j]>>}
        /\ next'[j] = IF IsLast(j) THEN next[j] ELSE next[j] + 1
        /\ podPc'[j] = IF IsLast(j) THEN "markClean" ELSE "run"
    BY <1>6 DEF RunStatement, Goto, MigrateTypeOK
  <2>2. next[j] \in Nat
    BY DEF MigrateTypeOK
  <2>3. ASSUME NEW k \in 1..next[j] PROVE <<at[j], k>> \in applied'
    <3>1. CASE k = next[j]
      BY <2>1, <3>1, Zenon
    <3>2. CASE k # next[j]
      <4>1. k \in 1..(next[j] - 1)
        BY <2>2, <3>2, OneBefore
      <4> QED
        BY <1>0, <2>1, <4>1, Zenon DEF JobInv
    <3> QED
      BY <3>1, <3>2
  <2>4. UpTo(at[j] - 1) \subseteq applied'
    BY <1>0, <2>1, Zenon DEF JobInv, Migrating
  <2>5. CASE IsLast(j)
    <3>1. StatementsOf(at[j]) \subseteq applied'
      BY <2>3, <2>5 DEF IsLast, StatementsOf
    <3>2. JobInv(j)'
      BY <2>1, <2>4, <2>5, <3>1 DEF JobInv, Migrating
    <3> QED
      BY <1>1, <1>2, <2>1, <3>2, Zenon
  <2>6. CASE ~IsLast(j)
    <3>1. next'[j] = next[j] + 1
      BY <2>1, <2>6
    <3>2. next'[j] - 1 = next[j]
      BY <2>2, <3>1, OneBefore
    <3>3. JobInv(j)'
      BY <2>1, <2>3, <2>4, <2>6, <3>2 DEF JobInv, Migrating
    <3> QED
      BY <1>1, <1>2, <2>1, <3>3
  <2> QED
    BY <2>5, <2>6
<1>7. CASE MarkClean(j)
  <2>1. /\ podPc[j] = "markClean" /\ applied' = applied
        /\ recorded' = [version |-> at[j], dirty |-> FALSE]
        /\ at'[j] = NextVersion(at[j])
        /\ podPc'[j] = IF at[j] = Latest THEN "report" ELSE "markDirty"
    BY <1>7 DEF MarkClean, Goto, MigrateTypeOK
  <2>2. at[j] \in Versions /\ UpTo(at[j]) \subseteq applied
    BY <2>1, UpToNext DEF JobInv, Migrating, MigrateTypeOK
  <2>3. RecordedInv'
    BY <2>1, <2>2 DEF RecordedInv
  <2>4. JobInv(j)'
    <3>1. CASE at[j] = Latest
      BY <2>1, <2>2, <3>1 DEF JobInv, Migrating
    <3>2. CASE at[j] # Latest
      <4>1. at'[j] = at[j] + 1
        BY <2>1, <3>2 DEF NextVersion
      <4>2. at[j] \in Nat
        BY <2>2 DEF Versions
      <4>3. at'[j] - 1 = at[j]
        BY <4>1, <4>2, OneBefore
      <4> QED
        BY <2>1, <2>2, <3>2, <4>3 DEF JobInv, Migrating
    <3> QED
      BY <3>1, <3>2
  <2> QED
    BY <1>1, <2>3, <2>4
<1>8. CASE Report(j)
  <2>1. podPc[j] = "report" /\ podPc'[j] \in {"failed", "succeeded"} /\ recorded' = recorded
    BY <1>8 DEF Report, Goto, MigrateTypeOK
  <2>2. JobInv(j)'
    BY <1>0, <2>1 DEF JobInv, Migrating
  <2> QED
    BY <1>1, <1>2, <2>1, <2>2
<1> QED
  BY <1>3, <1>4, <1>5, <1>6, <1>7, <1>8 DEF Run

\* Every step keeps the invariant.
LEMMA MigrateInvStep == ASSUME MigrateInv, [MigrateNext]_migrateVars PROVE MigrateInv'
<1> USE DEF MigrateInv
<1>1. MigrateTypeOK' /\ applied \subseteq applied'
  BY MigrateTypeStep, AppliedGrows
<1>2. ASSUME NEW j \in Jobs, Run(j) PROVE MigrateInv'
  BY <1>1, <1>2, JobStep
<1>3. ASSUME NEW j \in Jobs, Fail(j) \/ Restart(j) PROVE MigrateInv'
  <2>1. recorded' = recorded /\ applied' = applied /\ at' = at /\ next' = next
        /\ podPc'[j] \in {"failed", "configure"} /\ \A i \in Jobs \ {j} : podPc'[i] = podPc[i]
    BY <1>3 DEF Fail, Restart, Goto, MigrateTypeOK
  <2>2. RecordedInv'
    BY <2>1 DEF RecordedInv
  <2>3. JobInv(j)'
    BY <2>1 DEF JobInv, Migrating
  <2>4. ASSUME NEW i \in Jobs \ {j} PROVE JobInv(i)'
    BY <1>1, <2>1, OthersKeep
  <2> QED
    BY <1>1, <2>2, <2>3, <2>4
<1>4. CASE Repair
  <2>1. ASSUME NEW i \in Jobs PROVE JobInv(i)'
    BY <1>1, <1>4, OthersKeep DEF Repair, jobVars
  <2>2. recorded.version \in Versions /\ UpTo(recorded.version - 1) \subseteq applied
    BY <1>4 DEF Repair, RecordedInv
  <2>3. RecordedInv'
    <3>1. CASE recorded' = [version |-> 0, dirty |-> FALSE]
      BY <3>1, UpToZero DEF RecordedInv
    <3>2. CASE /\ applied' = applied \cup StatementsOf(recorded.version)
               /\ recorded' = [recorded EXCEPT !.dirty = FALSE]
      <4>1. UpTo(recorded.version) \subseteq applied'
        BY <2>2, <3>2, UpToNext
      <4>2. ~recorded'.dirty /\ recorded'.version = recorded.version
        BY <3>2 DEF MigrateTypeOK
      <4> QED
        BY <4>1, <4>2 DEF RecordedInv
    <3> QED
      BY <1>4, <3>1, <3>2 DEF Repair
  <2> QED
    BY <1>1, <2>1, <2>3
<1>5. CASE UNCHANGED migrateVars
  <2>1. ASSUME NEW i \in Jobs PROVE JobInv(i)'
    BY <1>1, <1>5, OthersKeep DEF migrateVars, jobVars
  <2> QED
    BY <1>1, <1>5, <2>1 DEF migrateVars, RecordedInv
<1> QED
  BY <1>2, <1>3, <1>4, <1>5 DEF MigrateNext

\* The invariant holds before the first Job.
LEMMA MigrateInvInit == MigrateInit => MigrateInv
<1> SUFFICES ASSUME MigrateInit PROVE MigrateInv
  OBVIOUS
<1>1. MigrateTypeOK
  <2>1. recorded \in [version : 0..Latest, dirty : BOOLEAN]
    BY DEF MigrateInit
  <2>2. at \in [Jobs -> Versions] /\ next \in [Jobs -> Nat]
    BY DEF MigrateInit, Versions
  <2>3. attempts \in [Jobs -> 0..BackoffLimit] /\ failures \in 0..MaxFailures
        /\ repairs \in 0..MaxRepairs
    BY DEF MigrateInit
  <2> QED
    BY <2>1, <2>2, <2>3, Zenon DEF MigrateInit, MigrateTypeOK, PodSteps
<1>2. RecordedInv
  BY UpToZero DEF MigrateInit, RecordedInv
<1>3. \A j \in Jobs : JobInv(j)
  BY DEF MigrateInit, JobInv, Migrating
<1> QED
  BY <1>1, <1>2, <1>3 DEF MigrateInv

\* What is recorded clean has been applied, with any number of Jobs at once
\* (clickhouse-migrate/main.go: applyMigrations).
THEOREM CleanVersionIsApplied == MigrateSpec => []VersionIsApplied
<1>1. MigrateInv => VersionIsApplied
  BY DEF MigrateInv, RecordedInv, VersionIsApplied
<1>2. MigrateInv /\ [MigrateNext]_migrateVars => MigrateInv'
  BY MigrateInvStep
<1> QED
  BY <1>1, <1>2, MigrateInvInit, PTL DEF MigrateSpec

\* A pod that exits with success leaves a fully migrated database
\* (clickhouse-migrate/main.go: run).
THEOREM SuccessIsMigrated == MigrateSpec => []SuccessMeansMigrated
<1>1. MigrateInv => SuccessMeansMigrated
  BY Zenon DEF MigrateInv, JobInv, MigrateTypeOK, SuccessMeansMigrated
<1>2. MigrateInv /\ [MigrateNext]_migrateVars => MigrateInv'
  BY MigrateInvStep
<1> QED
  BY <1>1, <1>2, MigrateInvInit, PTL DEF MigrateSpec

\* A Job that reads a dirty version, or the last one, does not start.
LEMMA NothingToDo ==
    ASSUME recorded.dirty \/ recorded.version = Latest
    PROVE  AfterRead \in {"failed", "report"}
BY DEF AfterRead

\* Re-running is a no-op and a dirty database blocks every later run, until
\* someone repairs it (clickhouse-migrate/main.go: applyMigrations).
THEOREM SettledIsLeftAlone == MigrateSpec => LeftAlone
<1> DEFINE Settled == NobodyMigrates /\ (recorded.dirty \/ recorded.version = Latest)
           Kept == NobodyMigrates' /\ UNCHANGED <<recorded, applied>>
<1>1. ASSUME MigrateTypeOK, [MigrateNext]_migrateVars, Settled, repairs' = repairs
      PROVE  Kept
  <2>1. ASSUME NEW j \in Jobs, NEW step \in PodSteps \ Migrating, Goto(j, step),
               UNCHANGED <<recorded, applied>>
        PROVE  Kept
    <3>1. \A i \in Jobs : podPc'[i] \in {podPc[i], step}
      BY <2>1 DEF Goto, MigrateTypeOK
    <3> QED
      BY <1>1, <2>1, <3>1, Zenon DEF NobodyMigrates
  <2>2. ASSUME NEW j \in Jobs, Configure(j) \/ ensureDatabaseExists(j) \/ Report(j)
        PROVE  Kept
    <3>1. \E step \in PodSteps \ Migrating : Goto(j, step)
      BY <2>2 DEF Configure, ensureDatabaseExists, Report, PodSteps, Migrating
    <3> QED
      BY <2>1, <2>2, <3>1 DEF Configure, ensureDatabaseExists, Report
  <2>3. ASSUME NEW j \in Jobs, ReadVersion(j) PROVE Kept
    <3>1. AfterRead \in PodSteps \ Migrating
      BY <1>1, NothingToDo DEF PodSteps, Migrating
    <3> QED
      BY <2>1, <2>3, <3>1 DEF ReadVersion
  <2>4. ASSUME NEW j \in Jobs, MarkDirty(j) \/ RunStatement(j) \/ MarkClean(j) PROVE FALSE
    BY <1>1, <2>4 DEF NobodyMigrates, Migrating, MarkDirty, RunStatement, MarkClean
  <2>5. ASSUME NEW j \in Jobs, Fail(j) \/ Restart(j) PROVE Kept
    <3>1. \E step \in PodSteps \ Migrating : Goto(j, step)
      BY <2>5 DEF Fail, Restart, PodSteps, Migrating
    <3> QED
      BY <2>1, <2>5, <3>1 DEF Fail, Restart
  <2>6. ~Repair
    BY <1>1 DEF Repair, MigrateTypeOK
  <2>7. CASE UNCHANGED migrateVars
    BY <1>1, <2>7 DEF migrateVars, jobVars, NobodyMigrates
  <2> QED
    BY <1>1, <2>2, <2>3, <2>4, <2>5, <2>6, <2>7 DEF MigrateNext, Run
<1>2. MigrateInv /\ [MigrateNext]_migrateVars => [Settled /\ repairs' = repairs => Kept]_migrateVars
  BY <1>1 DEF MigrateInv
<1>3. MigrateInv /\ [MigrateNext]_migrateVars => MigrateInv'
  BY MigrateInvStep
<1> QED
  BY <1>2, <1>3, MigrateInvInit, PTL DEF MigrateSpec, LeftAlone
=============================================================================
