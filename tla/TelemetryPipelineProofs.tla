---------------------- MODULE TelemetryPipelineProofs ----------------------
(***************************************************************************)
(* Proofs about TelemetryPipeline, for every set of items, batches and      *)
(* workers and any number of failures: what splitting a batch returns, that *)
(* no item vanishes, that the durable receiver implements AtLeastOnce, and  *)
(* that nothing is accepted twice while nothing fails.                      *)
(***************************************************************************)
EXTENDS TelemetryPipeline, Integers, FiniteSetTheorems, TLAPS

-----------------------------------------------------------------------------
(***************************************************************************)
(* Flattening a sequence of sequences.                                     *)
(***************************************************************************)

\* A set that holds 1 and the successor of each of its members holds every
\* positive number: otherwise n |-> n + 1 maps its part below a missing number
\* injectively into that part without 1.
LEMMA Induction ==
    ASSUME NEW S, 1 \in S, \A n \in Nat \ {0} : n \in S => n + 1 \in S
    PROVE  \A n \in Nat \ {0} : n \in S
<1> SUFFICES ASSUME NEW k \in Nat \ {0}, k \notin S PROVE FALSE
  OBVIOUS
<1> DEFINE U == {n \in 1..k : n \in S}
           f == [n \in U |-> n + 1]
<1>1. IsFiniteSet(U)
  <2>1. IsFiniteSet(1..k)
    BY FS_Interval
  <2>2. QED
    BY <2>1, FS_Subset
<1>2. 1 \in U
  OBVIOUS
<1>3. IsFiniteSet(U \ {1}) /\ Cardinality(U \ {1}) = Cardinality(U) - 1
  BY <1>1, <1>2, FS_RemoveElement, Zenon
<1>4. f \in Injection(U, U \ {1})
  BY DEF Injection, IsInjective
<1>5. Cardinality(U) <= Cardinality(U \ {1})
  BY <1>1, <1>3, <1>4, FS_Injection
<1>6. QED
  BY <1>1, <1>3, <1>5, FS_CardinalityType

\* Concatenation, as a name that the provers leave folded.
Cat(a, b) == a \o b

\* F[i] is the concatenation of the first i elements of s.
Steps(s, n, F) == F = [i \in 1..n |-> IF i = 1 THEN s[i] ELSE Cat(F[i-1], s[i])]

\* F holds the growing concatenations of s, and the last is FlattenSeq's result.
Grows(s, F) ==
    /\ FlattenSeq(s) = F[Len(s)]
    /\ F[1] = s[1]
    /\ \A n \in 1..(Len(s) - 1) : F[n + 1] = F[n] \o s[n + 1]

\* FlattenSeq returns the last of the growing concatenations of its argument.
LEMMA FlattenSteps ==
    ASSUME NEW s, Len(s) \in Nat \ {0}
    PROVE  \E F : Grows(s, F)
<1> DEFINE S == {n \in Nat : \E F : Steps(s, n, F)}
<1>1. 1 \in S
  <2>1. Steps(s, 1, [i \in 1..1 |-> s[i]])
    BY DEF Steps
  <2> QED BY <2>1
<1>2. ASSUME NEW n \in Nat \ {0}, n \in S PROVE n + 1 \in S
  <2>1. PICK F : Steps(s, n, F)
    BY <1>2
  <2> DEFINE G == [i \in 1..(n + 1) |-> IF i = n + 1 THEN Cat(F[n], s[n + 1]) ELSE F[i]]
  <2>2. \A i \in 1..(n + 1) : G[i] = IF i = 1 THEN s[i] ELSE Cat(G[i-1], s[i])
    BY <2>1 DEF Steps
  <2>3. Steps(s, n + 1, G)
    BY <2>2 DEF Steps
  <2> QED BY <2>3
<1>3. \E F : Steps(s, Len(s), F)
  <2> HIDE DEF S
  <2>1. Len(s) \in S
    BY <1>1, <1>2, Induction
  <2> QED BY <2>1 DEF S
<1> DEFINE F == CHOOSE F : Steps(s, Len(s), F)
<1>4. FlattenSeq(s) = F[Len(s)]
  BY Zenon DEF FlattenSeq, Steps, Cat
<1>5. Steps(s, Len(s), F)
  BY <1>3
<1> HIDE DEF F
<1>6. F[1] = s[1] /\ \A n \in 1..(Len(s) - 1) : F[n + 1] = Cat(F[n], s[n + 1])
  BY <1>5 DEF Steps
<1> QED BY <1>4, <1>6, Zenon DEF Cat, Grows

\* The elements of a concatenation.
LEMMA ConcatSet ==
    ASSUME NEW S, NEW a \in Seq(S), NEW b \in Seq(S)
    PROVE  ToSet(a \o b) = ToSet(a) \cup ToSet(b)
<1>1. ASSUME NEW i \in DOMAIN (a \o b) PROVE (a \o b)[i] \in ToSet(a) \cup ToSet(b)
  BY DEF ToSet
<1>2. ASSUME NEW i \in DOMAIN a PROVE a[i] \in ToSet(a \o b)
  <2>1. i \in DOMAIN (a \o b) /\ (a \o b)[i] = a[i]
    OBVIOUS
  <2> QED BY <2>1 DEF ToSet
<1>3. ASSUME NEW i \in DOMAIN b PROVE b[i] \in ToSet(a \o b)
  <2>1. i + Len(a) \in DOMAIN (a \o b) /\ (a \o b)[i + Len(a)] = b[i]
    OBVIOUS
  <2> QED BY <2>1 DEF ToSet
<1>4. ToSet(a \o b) \subseteq ToSet(a) \cup ToSet(b)
  BY <1>1 DEF ToSet
<1>5. ToSet(a) \subseteq ToSet(a \o b) /\ ToSet(b) \subseteq ToSet(a \o b)
  BY <1>2, <1>3, Zenon DEF ToSet
<1> QED BY <1>4, <1>5

\* The elements of a sequence with one more, and with one less.
LEMMA AppendSet ==
    ASSUME NEW S, NEW a \in Seq(S), NEW x
    PROVE  ToSet(Append(a, x)) = ToSet(a) \cup {x}
<1>1. /\ DOMAIN Append(a, x) = DOMAIN a \cup {Len(a) + 1}
      /\ Append(a, x)[Len(a) + 1] = x
      /\ \A i \in DOMAIN a : Append(a, x)[i] = a[i]
  OBVIOUS
<1> QED BY <1>1, Zenon DEF ToSet

\* A sequence that is not empty holds its head and what its tail holds.
LEMMA HeadTailSet ==
    ASSUME NEW S, NEW a \in Seq(S), a # <<>>
    PROVE  /\ Head(a) \in ToSet(a)
           /\ ToSet(a) = {Head(a)} \cup ToSet(Tail(a))
           /\ ToSet(Tail(a)) \subseteq ToSet(a)
<1>1. /\ 1 \in DOMAIN a /\ a[1] = Head(a)
      /\ \A i \in DOMAIN Tail(a) : i + 1 \in DOMAIN a /\ Tail(a)[i] = a[i + 1]
  OBVIOUS
<1>2. \A i \in DOMAIN a : i = 1 \/ (i - 1 \in DOMAIN Tail(a) /\ Tail(a)[i - 1] = a[i])
  OBVIOUS
<1>3. {Head(a)} \cup ToSet(Tail(a)) \subseteq ToSet(a)
  BY <1>1, Zenon DEF ToSet
<1>4. ToSet(a) \subseteq {Head(a)} \cup ToSet(Tail(a))
  <2>1. ASSUME NEW i \in DOMAIN a PROVE a[i] \in {Head(a)} \cup ToSet(Tail(a))
    <3>1. CASE i = 1
      BY <1>1, <3>1
    <3>2. CASE i - 1 \in DOMAIN Tail(a) /\ Tail(a)[i - 1] = a[i]
      BY <3>2 DEF ToSet
    <3> QED BY <1>2, <3>1, <3>2
  <2> QED BY <2>1, Zenon DEF ToSet
<1> QED BY <1>3, <1>4, Zenon

\* A concatenation of sequences with no element in common repeats none.
LEMMA ConcatNoRepeat ==
    ASSUME NEW S, NEW a \in Seq(S), NEW b \in Seq(S),
           IsInjective(a), IsInjective(b), ToSet(a) \cap ToSet(b) = {}
    PROVE  IsInjective(a \o b)
<1> SUFFICES ASSUME NEW i \in DOMAIN (a \o b), NEW j \in DOMAIN (a \o b),
                    (a \o b)[i] = (a \o b)[j]
             PROVE  i = j
  BY DEF IsInjective
<1>1. \A k \in DOMAIN a, l \in DOMAIN b : a[k] # b[l]
  BY DEF ToSet
<1>2. \A k \in DOMAIN (a \o b) :
          \/ k \in DOMAIN a /\ (a \o b)[k] = a[k]
          \/ k - Len(a) \in DOMAIN b /\ (a \o b)[k] = b[k - Len(a)]
  OBVIOUS
<1>3. i \in Int /\ j \in Int /\ Len(a) \in Int
  OBVIOUS
<1>4. CASE i \in DOMAIN a /\ j \in DOMAIN a /\ a[i] = a[j]
  BY <1>4 DEF IsInjective
<1>5. CASE /\ i - Len(a) \in DOMAIN b /\ j - Len(a) \in DOMAIN b
           /\ b[i - Len(a)] = b[j - Len(a)]
  <2>1. i - Len(a) = j - Len(a)
    BY <1>5 DEF IsInjective
  <2> QED BY <1>3, <2>1
<1> QED BY <1>1, <1>2, <1>4, <1>5, Zenon

\* The elements of the growing concatenations.
GrowsIn(S, s, F) ==
    /\ Grows(s, F)
    /\ \A n \in 1..Len(s) : /\ F[n] \in Seq(S)
                            /\ ToSet(F[n]) = UNION {ToSet(s[i]) : i \in 1..n}

\* They are sequences of the elements of s.
LEMMA FlattenPrefixes ==
    ASSUME NEW S, NEW s \in Seq(Seq(S)), s # <<>>
    PROVE  \E F : GrowsIn(S, s, F)
<1>1. Len(s) \in Nat \ {0} /\ DOMAIN s = 1..Len(s)
  OBVIOUS
<1>2. PICK F : Grows(s, F)
  BY <1>1, FlattenSteps
<1> DEFINE Good(n) == F[n] \in Seq(S) /\ ToSet(F[n]) = UNION {ToSet(s[i]) : i \in 1..n}
           G == {n \in Nat : n <= Len(s) => Good(n)}
<1>3. 1 \in G
  <2>1. ToSet(s[1]) = UNION {ToSet(s[i]) : i \in 1..1}
    OBVIOUS
  <2> QED BY <1>1, <1>2, <2>1 DEF Grows
<1>4. ASSUME NEW n \in Nat \ {0}, n \in G PROVE n + 1 \in G
  <2> SUFFICES ASSUME n + 1 <= Len(s) PROVE Good(n + 1)
    OBVIOUS
  <2>1. Good(n)
    BY <1>1, <1>4
  <2>2. n \in 1..(Len(s) - 1) /\ n + 1 \in DOMAIN s
    BY <1>1
  <2>3. F[n + 1] = F[n] \o s[n + 1]
    BY <1>2, <2>2, Zenon DEF Grows
  <2>4. s[n + 1] \in Seq(S)
    BY <2>2
  <2>5. F[n + 1] \in Seq(S)
    BY <2>1, <2>3, <2>4
  <2>6. ToSet(F[n + 1]) = ToSet(F[n]) \cup ToSet(s[n + 1])
    BY <2>1, <2>3, <2>4, ConcatSet
  <2>7. 1..(n + 1) = 1..n \cup {n + 1}
    OBVIOUS
  <2>8. UNION {ToSet(s[i]) : i \in 1..(n + 1)}
          = (UNION {ToSet(s[i]) : i \in 1..n}) \cup ToSet(s[n + 1])
    BY <2>7, Zenon
  <2> QED BY <2>1, <2>5, <2>6, <2>8, Zenon
<1>5. \A n \in 1..Len(s) : Good(n)
  <2> HIDE DEF Good
  <2>1. \A n \in Nat \ {0} : n \in G
    <3> HIDE DEF G
    <3> QED BY <1>3, <1>4, Induction
  <2> QED BY <1>1, <2>1
<1> QED BY <1>2, <1>5, Zenon DEF GrowsIn

\* FlattenSeq loses and invents no element.
LEMMA FlattenContents ==
    ASSUME NEW S, NEW s \in Seq(Seq(S))
    PROVE  /\ FlattenSeq(s) \in Seq(S)
           /\ ToSet(FlattenSeq(s)) = UNION {ToSet(s[i]) : i \in DOMAIN s}
<1>1. CASE s = <<>>
  <2>1. FlattenSeq(s) = <<>>
    BY <1>1 DEF FlattenSeq
  <2>2. ToSet(<<>>) = {}
    BY DEF ToSet
  <2>3. DOMAIN s = {}
    BY <1>1
  <2> QED BY <2>1, <2>2, <2>3
<1>2. CASE s # <<>>
  <2>1. Len(s) \in 1..Len(s) /\ DOMAIN s = 1..Len(s)
    BY <1>2
  <2>2. PICK F : GrowsIn(S, s, F)
    BY <1>2, FlattenPrefixes
  <2> QED BY <2>1, <2>2, Zenon DEF GrowsIn, Grows
<1> QED BY <1>1, <1>2

\* Nor does it repeat one, if no element occurs twice in its argument.
LEMMA FlattenNoRepeat ==
    ASSUME NEW S, NEW s \in Seq(Seq(S)),
           \A i \in DOMAIN s : IsInjective(s[i]),
           \A i, j \in DOMAIN s : i # j => ToSet(s[i]) \cap ToSet(s[j]) = {}
    PROVE  IsInjective(FlattenSeq(s))
<1>1. CASE s = <<>>
  <2>1. FlattenSeq(s) = <<>>
    BY <1>1 DEF FlattenSeq
  <2> QED BY <2>1 DEF IsInjective
<1>2. CASE s # <<>>
  <2>1. PICK F : GrowsIn(S, s, F)
    BY <1>2, FlattenPrefixes
  <2>2. Len(s) \in Nat \ {0} /\ DOMAIN s = 1..Len(s)
    BY <1>2
  <2> DEFINE G == {n \in Nat : n <= Len(s) => IsInjective(F[n])}
  <2>3. 1 \in G
    <3>1. IsInjective(s[1])
      BY <2>2
    <3> QED BY <2>1, <3>1, Zenon DEF GrowsIn, Grows
  <2>4. ASSUME NEW n \in Nat \ {0}, n \in G PROVE n + 1 \in G
    <3> SUFFICES ASSUME n + 1 <= Len(s) PROVE IsInjective(F[n + 1])
      OBVIOUS
    <3>1. IsInjective(F[n])
      BY <2>2, <2>4
    <3>2. n \in 1..(Len(s) - 1) /\ n \in DOMAIN s /\ n + 1 \in DOMAIN s
      BY <2>2
    <3>3. F[n + 1] = F[n] \o s[n + 1]
      BY <2>1, <3>2, Zenon DEF GrowsIn, Grows
    <3>4. F[n] \in Seq(S) /\ s[n + 1] \in Seq(S) /\ IsInjective(s[n + 1])
      <4>1. n \in 1..Len(s)
        BY <2>2, <3>2
      <4>2. F[n] \in Seq(S)
        BY <2>1, <4>1, Zenon DEF GrowsIn, Grows
      <4> QED BY <3>2, <4>2
    <3>5. ToSet(F[n]) \cap ToSet(s[n + 1]) = {}
      <4>1. ToSet(F[n]) = UNION {ToSet(s[i]) : i \in 1..n}
        BY <2>1, <2>2, <3>2, Zenon DEF GrowsIn, Grows
      <4>2. \A i \in 1..n : i \in DOMAIN s /\ i # n + 1
        BY <2>2
      <4>3. \A i \in 1..n : ToSet(s[i]) \cap ToSet(s[n + 1]) = {}
        BY <3>2, <4>2, Zenon
      <4> QED BY <4>1, <4>3, Zenon
    <3> QED BY <3>1, <3>3, <3>4, <3>5, ConcatNoRepeat
  <2>5. Len(s) \in G
    <3> HIDE DEF G
    <3> QED BY <2>2, <2>3, <2>4, Induction, Zenon
  <2> QED BY <2>1, <2>2, <2>5 DEF GrowsIn, Grows
<1> QED BY <1>1, <1>2

\* Flattening a sequence of one element returns that element.
LEMMA FlattenOne ==
    ASSUME NEW y
    PROVE  FlattenSeq(<<y>>) = y
<1>1. Len(<<y>>) = 1 /\ <<y>>[1] = y
  OBVIOUS
<1>2. PICK F : Grows(<<y>>, F)
  BY <1>1, FlattenSteps
<1> QED BY <1>1, <1>2, Zenon DEF Grows
-----------------------------------------------------------------------------
(***************************************************************************)
(* Splitting a batch.                                                      *)
(***************************************************************************)

\* The item of a batch that has one, and the batches that have.
theItem(b) == Head(itemsOf(b))
Single == {b \in Batch : Len(itemsOf(b)) = 1}

\* The items of a batch are those of its groups.
LEMMA ItemsOfBatch ==
    ASSUME NEW ld \in Batch
    PROVE  /\ itemsOf(ld) \in Seq(Items)
           /\ \A x : x \in ToSet(itemsOf(ld)) <=>
                \E i \in DOMAIN ld : \E j \in DOMAIN ld[i].groups : x \in ToSet(ld[i].groups[j])
<1> DEFINE s == [i \in DOMAIN ld |-> FlattenSeq(ld[i].groups)]
<1>1. \A i \in DOMAIN ld : ld[i].groups \in Seq(Seq(Items))
  <2>1. \A i \in DOMAIN ld : ld[i] \in Resource
    BY DEF Batch
  <2> QED BY <2>1 DEF Resource
<1>2. \A i \in DOMAIN ld :
        /\ FlattenSeq(ld[i].groups) \in Seq(Items)
        /\ ToSet(FlattenSeq(ld[i].groups))
             = UNION {ToSet(ld[i].groups[j]) : j \in DOMAIN ld[i].groups}
  BY <1>1, FlattenContents
<1>3. s \in Seq(Seq(Items)) /\ DOMAIN s = DOMAIN ld
  <2>1. DOMAIN ld = 1..Len(ld) /\ Len(ld) \in Nat
    BY DEF Batch
  <2> QED BY <1>2, <2>1
<1>4. /\ FlattenSeq(s) \in Seq(Items)
      /\ ToSet(FlattenSeq(s)) = UNION {ToSet(s[i]) : i \in DOMAIN s}
  <2> HIDE DEF s
  <2> QED BY <1>3, FlattenContents
<1>5. itemsOf(ld) = FlattenSeq(s)
  BY DEF itemsOf
<1>6. ASSUME NEW x
      PROVE  x \in ToSet(FlattenSeq(s)) <=> \E i \in DOMAIN ld : x \in ToSet(FlattenSeq(ld[i].groups))
  BY <1>3, <1>4, Zenon
<1>7. ASSUME NEW x, NEW i \in DOMAIN ld
      PROVE  x \in ToSet(FlattenSeq(ld[i].groups)) <=>
               \E j \in DOMAIN ld[i].groups : x \in ToSet(ld[i].groups[j])
  <2>1. ToSet(FlattenSeq(ld[i].groups))
          = UNION {ToSet(ld[i].groups[j]) : j \in DOMAIN ld[i].groups}
    BY <1>2, Zenon
  <2> DEFINE g == ld[i].groups
  <2> HIDE DEF g
  <2>2. x \in UNION {ToSet(g[j]) : j \in DOMAIN g} <=> \E j \in DOMAIN g : x \in ToSet(g[j])
    OBVIOUS
  <2> QED BY <2>1, <2>2, Zenon DEF g
<1>8. ASSUME NEW x
      PROVE  x \in ToSet(itemsOf(ld)) <=>
               \E i \in DOMAIN ld : \E j \in DOMAIN ld[i].groups : x \in ToSet(ld[i].groups[j])
  BY <1>5, <1>6, <1>7, Zenon
<1> QED BY <1>4, <1>5, <1>8, Zenon

\* The item of a batch of one item.
LEMMA ItemOfSingle ==
    ASSUME NEW b \in Single
    PROVE  theItem(b) \in Items /\ ToSet(itemsOf(b)) = {theItem(b)}
<1>1. itemsOf(b) \in Seq(Items) /\ Len(itemsOf(b)) = 1
  BY ItemsOfBatch DEF Single
<1> DEFINE s == itemsOf(b)
<1> HIDE DEF s
<1>2. s \in Seq(Items) /\ Len(s) = 1
  BY <1>1 DEF s
<1>3. Head(s) \in Items /\ ToSet(s) = {Head(s)}
  BY <1>2 DEF ToSet
<1> QED BY <1>3 DEF s, theItem

\* newMetricContainer returns a batch of one item.
LEMMA Container ==
    ASSUME NEW resource \in Resource, NEW x \in Items
    PROVE  /\ itemsOf(newMetricContainer(resource, x)) = <<x>>
           /\ newMetricContainer(resource, x) \in Single
           /\ theItem(newMetricContainer(resource, x)) = x
<1> DEFINE c == newMetricContainer(resource, x)
<1>1. c \in Batch
  BY DEF newMetricContainer, Batch, Resource
<1>2. [i \in DOMAIN c |-> FlattenSeq(c[i].groups)] = <<FlattenSeq(<<<<x>>>>)>>
  BY DEF newMetricContainer
<1>3. itemsOf(c) = <<x>>
  BY <1>2, FlattenOne, Zenon DEF itemsOf
<1>4. Len(<<x>>) = 1 /\ Head(<<x>>) = x
  OBVIOUS
<1> QED BY <1>1, <1>3, <1>4, Zenon DEF Single, theItem

\* The batches that splitLogs returns for a batch of several items.
exploded(ld) ==
    FlattenSeq([i \in DOMAIN ld |->
        FlattenSeq([j \in DOMAIN ld[i].groups |-> explodeMetric(ld[i], ld[i].groups[j])])])

\* The batches of one item made from a group.
containers(resource, group) == {newMetricContainer(resource, x) : x \in ToSet(group)}

\* explodeMetric returns them, each once if the group holds no item twice.
LEMMA ExplodedMetric ==
    ASSUME NEW resource \in Resource, NEW group \in Seq(Items)
    PROVE  /\ explodeMetric(resource, group) \in Seq(Single)
           /\ ToSet(explodeMetric(resource, group)) = containers(resource, group)
           /\ IsInjective(group) => IsInjective(explodeMetric(resource, group))
<1>1. DOMAIN group = 1..Len(group) /\ Len(group) \in Nat /\ \A k \in DOMAIN group : group[k] \in Items
  OBVIOUS
<1> DEFINE e == explodeMetric(resource, group)
<1>2. DOMAIN e = DOMAIN group /\ \A k \in DOMAIN e : e[k] = newMetricContainer(resource, group[k])
  BY DEF explodeMetric
<1>3. e = [k \in 1..Len(group) |-> newMetricContainer(resource, group[k])]
  BY <1>1, Zenon DEF explodeMetric
<1>4. \A k \in DOMAIN group :
        /\ newMetricContainer(resource, group[k]) \in Single
        /\ theItem(newMetricContainer(resource, group[k])) = group[k]
  BY <1>1, Container
<1>5. e \in Seq(Single)
  <2>1. \A k \in 1..Len(group) : newMetricContainer(resource, group[k]) \in Single
    BY <1>1, <1>4
  <2> QED BY <1>1, <1>3, <2>1
<1> HIDE DEF e
<1>6. ToSet(e) = containers(resource, group)
  BY <1>2, Zenon DEF ToSet, containers
<1>7. ASSUME IsInjective(group) PROVE IsInjective(e)
  <2> SUFFICES ASSUME NEW k \in DOMAIN e, NEW l \in DOMAIN e, e[k] = e[l] PROVE k = l
    BY Zenon DEF IsInjective
  <2>1. group[k] = group[l]
    BY <1>2, <1>4, Zenon
  <2> QED BY <1>2, <1>7, <2>1, Zenon DEF IsInjective
<1> QED BY <1>5, <1>6, <1>7, Zenon DEF e

\* Groups of a batch with distinct items repeat none and share none.
LEMMA DistinctGroups ==
    ASSUME NEW ld \in Batch, Distinct(ld)
    PROVE  /\ \A i \in DOMAIN ld : \A j \in DOMAIN ld[i].groups : IsInjective(ld[i].groups[j])
           /\ \A i1, i2 \in DOMAIN ld :
                \A j1 \in DOMAIN ld[i1].groups, j2 \in DOMAIN ld[i2].groups : \A x :
                   x \in ToSet(ld[i1].groups[j1]) /\ x \in ToSet(ld[i2].groups[j2])
                     => i1 = i2 /\ j1 = j2
<1>1. ASSUME NEW i \in DOMAIN ld, NEW j \in DOMAIN ld[i].groups
      PROVE  IsInjective(ld[i].groups[j])
  BY DEF Distinct, IsInjective
<1>2. ASSUME NEW i1 \in DOMAIN ld, NEW i2 \in DOMAIN ld,
             NEW j1 \in DOMAIN ld[i1].groups, NEW j2 \in DOMAIN ld[i2].groups, NEW x,
             x \in ToSet(ld[i1].groups[j1]), x \in ToSet(ld[i2].groups[j2])
      PROVE  i1 = i2 /\ j1 = j2
  <2>1. PICK k1 \in DOMAIN ld[i1].groups[j1] : x = ld[i1].groups[j1][k1]
    BY <1>2, Zenon DEF ToSet
  <2>2. PICK k2 \in DOMAIN ld[i2].groups[j2] : x = ld[i2].groups[j2][k2]
    BY <1>2, Zenon DEF ToSet
  <2>3. ld[i1].groups[j1][k1] = ld[i2].groups[j2][k2]
    BY <2>1, <2>2
  <2> QED BY <2>3 DEF Distinct
<1> QED BY <1>1, <1>2, Zenon

\* Two batches made from groups of a batch with distinct items differ.
LEMMA DistinctContainers ==
    ASSUME NEW ld \in Batch, Distinct(ld),
           NEW i1 \in DOMAIN ld, NEW j1 \in DOMAIN ld[i1].groups,
           NEW i2 \in DOMAIN ld, NEW j2 \in DOMAIN ld[i2].groups,
           i1 # i2 \/ j1 # j2
    PROVE  containers(ld[i1], ld[i1].groups[j1]) \cap containers(ld[i2], ld[i2].groups[j2]) = {}
<1> SUFFICES ASSUME NEW x1 \in ToSet(ld[i1].groups[j1]), NEW x2 \in ToSet(ld[i2].groups[j2]),
                    newMetricContainer(ld[i1], x1) = newMetricContainer(ld[i2], x2)
             PROVE  FALSE
  BY Zenon DEF containers
<1>1. ld[i1] \in Resource /\ ld[i2] \in Resource
  BY DEF Batch
<1>2. ld[i1].groups[j1] \in Seq(Items) /\ ld[i2].groups[j2] \in Seq(Items)
  BY <1>1 DEF Resource
<1>3. x1 \in Items /\ x2 \in Items
  BY <1>2 DEF ToSet
<1>4. x1 = x2
  BY <1>1, <1>3, Container, Zenon
<1> QED BY <1>4, DistinctGroups, Zenon

\* exploded returns the batches made from the groups.
LEMMA ExplodedBatch ==
    ASSUME NEW ld \in Batch
    PROVE  /\ exploded(ld) \in Seq(Single)
           /\ \A c : c \in ToSet(exploded(ld)) <=>
                \E i \in DOMAIN ld : \E j \in DOMAIN ld[i].groups :
                   c \in containers(ld[i], ld[i].groups[j])
           /\ Distinct(ld) => IsInjective(exploded(ld))
<1> DEFINE ex(i) == [j \in DOMAIN ld[i].groups |-> explodeMetric(ld[i], ld[i].groups[j])]
           s == [i \in DOMAIN ld |-> FlattenSeq(ex(i))]
<1>1. \A i \in DOMAIN ld : /\ ld[i] \in Resource
                           /\ ld[i].groups \in Seq(Seq(Items))
                           /\ \A j \in DOMAIN ld[i].groups : ld[i].groups[j] \in Seq(Items)
  <2>1. \A i \in DOMAIN ld : ld[i] \in Resource
    BY DEF Batch
  <2> QED BY <2>1 DEF Resource
<1>2. ASSUME NEW i \in DOMAIN ld, NEW j \in DOMAIN ld[i].groups
      PROVE  /\ explodeMetric(ld[i], ld[i].groups[j]) \in Seq(Single)
             /\ ToSet(explodeMetric(ld[i], ld[i].groups[j])) = containers(ld[i], ld[i].groups[j])
             /\ IsInjective(ld[i].groups[j]) => IsInjective(explodeMetric(ld[i], ld[i].groups[j]))
  BY <1>1, ExplodedMetric, Zenon
<1>3. \A i \in DOMAIN ld : /\ DOMAIN ex(i) = DOMAIN ld[i].groups
                           /\ \A j \in DOMAIN ex(i) : ex(i)[j] = explodeMetric(ld[i], ld[i].groups[j])
  OBVIOUS
<1>4. \A i \in DOMAIN ld : ex(i) \in Seq(Seq(Single))
  <2> SUFFICES ASSUME NEW i \in DOMAIN ld PROVE ex(i) \in Seq(Seq(Single))
    OBVIOUS
  <2> DEFINE g == ld[i].groups
             op(j) == explodeMetric(ld[i], g[j])
  <2>1. DOMAIN g = 1..Len(g) /\ Len(g) \in Nat /\ \A j \in DOMAIN g : op(j) \in Seq(Single)
    BY <1>1, <1>2
  <2>2. ex(i) = [j \in DOMAIN g |-> op(j)]
    OBVIOUS
  <2> HIDE DEF g, op
  <2>3. [j \in DOMAIN g |-> op(j)] \in Seq(Seq(Single))
    BY <2>1
  <2> QED BY <2>2, <2>3
<1> HIDE DEF ex
<1>5. \A i \in DOMAIN ld :
        /\ FlattenSeq(ex(i)) \in Seq(Single)
        /\ ToSet(FlattenSeq(ex(i))) = UNION {ToSet(ex(i)[j]) : j \in DOMAIN ex(i)}
  BY <1>4, FlattenContents
<1>6. DOMAIN s = DOMAIN ld /\ \A i \in DOMAIN ld : s[i] = FlattenSeq(ex(i))
  OBVIOUS
<1>7. s \in Seq(Seq(Single))
  <2>1. DOMAIN ld = 1..Len(ld) /\ Len(ld) \in Nat
    BY DEF Batch
  <2> QED BY <1>5, <2>1
<1>8. exploded(ld) = FlattenSeq(s)
  BY Zenon DEF exploded, ex
<1> HIDE DEF s
<1>9. /\ FlattenSeq(s) \in Seq(Single)
      /\ ToSet(FlattenSeq(s)) = UNION {ToSet(s[i]) : i \in DOMAIN s}
  BY <1>7, FlattenContents
<1>10. ASSUME NEW i \in DOMAIN ld, NEW j \in DOMAIN ld[i].groups
       PROVE  ToSet(ex(i)[j]) = containers(ld[i], ld[i].groups[j])
  BY <1>2, <1>3, Zenon
<1>11. ASSUME NEW i \in DOMAIN ld, NEW c
       PROVE  c \in ToSet(s[i]) <=>
                \E j \in DOMAIN ld[i].groups : c \in containers(ld[i], ld[i].groups[j])
  <2> DEFINE f == ex(i)
  <2>1. ToSet(s[i]) = UNION {ToSet(f[j]) : j \in DOMAIN f}
    BY <1>5, <1>6
  <2>2. DOMAIN f = DOMAIN ld[i].groups
    BY <1>3
  <2> HIDE DEF f
  <2>3. c \in UNION {ToSet(f[j]) : j \in DOMAIN f} <=> \E j \in DOMAIN f : c \in ToSet(f[j])
    OBVIOUS
  <2>4. \A j \in DOMAIN ld[i].groups : ToSet(f[j]) = containers(ld[i], ld[i].groups[j])
    BY <1>10 DEF f
  <2> QED BY <2>1, <2>2, <2>3, <2>4, Zenon
<1>12. ASSUME NEW c
       PROVE  c \in ToSet(exploded(ld)) <=>
                \E i \in DOMAIN ld : \E j \in DOMAIN ld[i].groups :
                   c \in containers(ld[i], ld[i].groups[j])
  <2>1. c \in ToSet(exploded(ld)) <=> \E i \in DOMAIN ld : c \in ToSet(s[i])
    BY <1>6, <1>8, <1>9, Zenon
  <2> QED BY <1>11, <2>1, Zenon
<1>13. ASSUME Distinct(ld) PROVE IsInjective(exploded(ld))
  <2>1. \A i \in DOMAIN ld : \A j \in DOMAIN ld[i].groups : IsInjective(ld[i].groups[j])
    BY <1>13, DistinctGroups
  <2>2. \A i \in DOMAIN ld : IsInjective(s[i])
    <3> SUFFICES ASSUME NEW i \in DOMAIN ld PROVE IsInjective(FlattenSeq(ex(i)))
      BY <1>6
    <3>1. \A j \in DOMAIN ex(i) : IsInjective(ex(i)[j])
      BY <1>2, <1>3, <2>1, Zenon
    <3>2. ASSUME NEW j1 \in DOMAIN ex(i), NEW j2 \in DOMAIN ex(i), j1 # j2
          PROVE  ToSet(ex(i)[j1]) \cap ToSet(ex(i)[j2]) = {}
      <4>1. j1 \in DOMAIN ld[i].groups /\ j2 \in DOMAIN ld[i].groups
        BY <1>3
      <4>2. containers(ld[i], ld[i].groups[j1]) \cap containers(ld[i], ld[i].groups[j2]) = {}
        BY <1>13, <3>2, <4>1, DistinctContainers, Zenon
      <4> QED BY <1>10, <4>1, <4>2, Zenon
    <3> QED BY <1>4, <3>1, <3>2, FlattenNoRepeat
  <2>3. ASSUME NEW i1 \in DOMAIN s, NEW i2 \in DOMAIN s, i1 # i2
        PROVE  ToSet(s[i1]) \cap ToSet(s[i2]) = {}
    <3>1. i1 \in DOMAIN ld /\ i2 \in DOMAIN ld
      BY <1>6
    <3>2. SUFFICES ASSUME NEW c, c \in ToSet(s[i1]), c \in ToSet(s[i2]) PROVE FALSE
      BY Zenon
    <3>3. PICK j1 \in DOMAIN ld[i1].groups : c \in containers(ld[i1], ld[i1].groups[j1])
      BY <1>11, <3>1, <3>2, Zenon
    <3>4. PICK j2 \in DOMAIN ld[i2].groups : c \in containers(ld[i2], ld[i2].groups[j2])
      BY <1>11, <3>1, <3>2, Zenon
    <3>5. containers(ld[i1], ld[i1].groups[j1]) \cap containers(ld[i2], ld[i2].groups[j2]) = {}
      BY <1>13, <2>3, <3>1, DistinctContainers, Zenon
    <3> QED BY <3>3, <3>4, <3>5, Zenon
  <2>4. IsInjective(FlattenSeq(s))
    BY <1>6, <1>7, <2>2, <2>3, FlattenNoRepeat
  <2> QED BY <1>8, <2>4
<1> QED BY <1>8, <1>9, <1>12, <1>13, Zenon

\* The items of a sequence of batches of one item.
LEMMA ItemsInSingles ==
    ASSUME NEW s \in Seq(Single)
    PROVE  \A x : x \in itemsIn(s) <=> \E a \in DOMAIN s : x = theItem(s[a])
<1>1. \A a \in DOMAIN s : ToSet(itemsOf(s[a])) = {theItem(s[a])}
  <2>1. \A a \in DOMAIN s : s[a] \in Single
    OBVIOUS
  <2> QED BY <2>1, ItemOfSingle
<1> QED BY <1>1, Zenon DEF itemsIn

\* splitLogs, splitTraces and splitMetrics return batches of one item, lose and
\* invent no item of the batch, and return none of its items twice.
THEOREM SplitIsExact ==
    ASSUME NEW ld \in Batch
    PROVE  /\ splitLogs(ld) \in Seq(Single)
           /\ itemsIn(splitLogs(ld)) = ToSet(itemsOf(ld))
           /\ Distinct(ld) => \A a, b \in DOMAIN splitLogs(ld) :
                                 theItem(splitLogs(ld)[a]) = theItem(splitLogs(ld)[b]) => a = b
<1>1. itemsOf(ld) \in Seq(Items) /\ Len(itemsOf(ld)) \in Nat
  BY ItemsOfBatch
<1>2. CASE Len(itemsOf(ld)) = 0
  <2>1. splitLogs(ld) = <<>>
    BY <1>2 DEF splitLogs
  <2>2. ToSet(itemsOf(ld)) = {}
    BY <1>1, <1>2 DEF ToSet
  <2>3. itemsIn(<<>>) = {}
    BY DEF itemsIn
  <2> QED BY <2>1, <2>2, <2>3
<1>3. CASE Len(itemsOf(ld)) = 1
  <2>1. splitLogs(ld) = <<ld>>
    BY <1>3 DEF splitLogs
  <2>2. ld \in Single
    BY <1>3 DEF Single
  <2>3. itemsIn(<<ld>>) = ToSet(itemsOf(ld))
    BY DEF itemsIn
  <2>4. \A a, b \in DOMAIN <<ld>> : a = b
    OBVIOUS
  <2>5. <<ld>> \in Seq(Single)
    BY <2>2
  <2> QED BY <2>1, <2>3, <2>4, <2>5, Zenon
<1>4. CASE Len(itemsOf(ld)) \notin {0, 1}
  <2> DEFINE e == exploded(ld)
  <2>1. splitLogs(ld) = e
    BY <1>4 DEF splitLogs, exploded
  <2>2. /\ e \in Seq(Single)
        /\ \A c : c \in ToSet(e) <=>
             \E i \in DOMAIN ld : \E j \in DOMAIN ld[i].groups :
                c \in containers(ld[i], ld[i].groups[j])
        /\ Distinct(ld) => IsInjective(e)
    BY ExplodedBatch
  <2> HIDE DEF e
  <2>3. ASSUME NEW i \in DOMAIN ld, NEW j \in DOMAIN ld[i].groups, NEW x \in ToSet(ld[i].groups[j])
        PROVE  theItem(newMetricContainer(ld[i], x)) = x
    <3>1. ld[i] \in Resource
      BY DEF Batch
    <3>2. ld[i].groups[j] \in Seq(Items)
      BY <3>1 DEF Resource
    <3>3. x \in Items
      BY <3>2 DEF ToSet
    <3> QED BY <3>1, <3>3, Container
  <2>4. ASSUME NEW a \in DOMAIN e
        PROVE  \E i \in DOMAIN ld : \E j \in DOMAIN ld[i].groups :
                 /\ theItem(e[a]) \in ToSet(ld[i].groups[j])
                 /\ e[a] = newMetricContainer(ld[i], theItem(e[a]))
    <3>1. e[a] \in ToSet(e)
      BY Zenon DEF ToSet
    <3>2. PICK i \in DOMAIN ld : \E j \in DOMAIN ld[i].groups : e[a] \in containers(ld[i], ld[i].groups[j])
      BY <2>2, <3>1, Zenon
    <3>3. PICK j \in DOMAIN ld[i].groups : e[a] \in containers(ld[i], ld[i].groups[j])
      BY <3>2
    <3>4. PICK x \in ToSet(ld[i].groups[j]) : e[a] = newMetricContainer(ld[i], x)
      BY <3>3, Zenon DEF containers
    <3> QED BY <2>3, <3>4, Zenon
  <2>5. ASSUME NEW x PROVE x \in ToSet(itemsOf(ld)) <=> \E a \in DOMAIN e : x = theItem(e[a])
    <3>1. x \in ToSet(itemsOf(ld)) <=>
            \E i \in DOMAIN ld : \E j \in DOMAIN ld[i].groups : x \in ToSet(ld[i].groups[j])
      BY ItemsOfBatch, Zenon
    <3>2. ASSUME NEW i \in DOMAIN ld, NEW j \in DOMAIN ld[i].groups, x \in ToSet(ld[i].groups[j])
          PROVE  \E a \in DOMAIN e : x = theItem(e[a])
      <4>1. newMetricContainer(ld[i], x) \in containers(ld[i], ld[i].groups[j])
        BY <3>2, Zenon DEF containers
      <4>2. newMetricContainer(ld[i], x) \in ToSet(e)
        BY <2>2, <4>1, Zenon
      <4>3. PICK a \in DOMAIN e : e[a] = newMetricContainer(ld[i], x)
        BY <4>2, Zenon DEF ToSet
      <4> QED BY <2>3, <3>2, <4>3, Zenon
    <3> QED BY <2>4, <3>1, <3>2, Zenon
  <2>6. itemsIn(e) = ToSet(itemsOf(ld))
    BY <2>2, <2>5, ItemsInSingles, Zenon
  <2>7. ASSUME Distinct(ld), NEW a \in DOMAIN e, NEW b \in DOMAIN e, theItem(e[a]) = theItem(e[b])
        PROVE  a = b
    <3>1. PICK i1 \in DOMAIN ld : \E j \in DOMAIN ld[i1].groups :
                 /\ theItem(e[a]) \in ToSet(ld[i1].groups[j])
                 /\ e[a] = newMetricContainer(ld[i1], theItem(e[a]))
      BY <2>4
    <3>2. PICK i2 \in DOMAIN ld : \E j \in DOMAIN ld[i2].groups :
                 /\ theItem(e[b]) \in ToSet(ld[i2].groups[j])
                 /\ e[b] = newMetricContainer(ld[i2], theItem(e[b]))
      BY <2>4
    <3>3. i1 = i2
      BY <2>7, <3>1, <3>2, DistinctGroups, Zenon
    <3>4. e[a] = e[b]
      BY <2>7, <3>1, <3>2, <3>3, Zenon
    <3>5. IsInjective(e)
      BY <2>2, <2>7
    <3> QED BY <3>4, <3>5, Zenon DEF IsInjective
  <2> QED BY <2>1, <2>2, <2>6, <2>7, Zenon
<1> QED BY <1>2, <1>3, <1>4
-----------------------------------------------------------------------------
(***************************************************************************)
(* The inductive invariants.                                               *)
(***************************************************************************)

\* The messages that no handler can deliver.
Unfit == {i \in DOMAIN stream : payloadOf(i) \in Malformed}

Calls == [id : DOMAIN stream, step : {"deliver", "ack", "nak"}]

\* Every batch in the exporter has one item.
ExporterShape ==
    /\ given \subseteq Items
    /\ ahead \in Seq(Single)
    /\ queue \in Seq(Single)
    /\ sending \in [Workers -> Single \cup {NoBatch}]

\* Every index points into the stream.  Without a durable consumer nothing is
\* pending and there is nothing to answer.
ReceiverShape ==
    /\ receiverMode \in Modes
    /\ stream \in Seq(Message)
    /\ pending \subseteq DOMAIN stream
    /\ inflight \subseteq pending
    /\ buffer \in Seq(DOMAIN stream)
    /\ handling \in {NoCall} \cup Calls
    /\ unheard \subseteq DOMAIN stream
    /\ accepted \subseteq DOMAIN stream
    /\ receiverMode = "core" => pending = {} /\ handling.step \in {"none", "deliver"}
    /\ copies \in [Items -> Nat]

\* What is acknowledged next has reached the sink, or never will.
AckIsSafe ==
    handling.step = "ack" => payloadOf(handling.id) \in Malformed \cup memory \cup table \cup dropped

\* A message in the receiver's hands that the consumer has not accepted is not
\* retired, and the one it is about to ack is accepted or unfit.
HeldIsWaiting ==
    receiverMode = "jetstream" =>
        /\ ToSet(buffer) \subseteq pending \cup accepted \cup Unfit
        /\ handling.step = "deliver" => handling.id \in pending \cup accepted \cup Unfit
        /\ handling.step = "ack" => handling.id \in accepted \cup Unfit

\* The items that the workers send, and those published.
Busy == {w \in Workers : sending[w] # NoBatch}
Sent == {theItem(sending[w]) : w \in Busy}
Published == {payloadOf(i) : i \in DOMAIN stream}

\* No two batches of a sequence hold the same item.
ItemsDiffer(s) == \A a, b \in DOMAIN s : theItem(s[a]) = theItem(s[b]) => a = b

\* Every item is in one place of the exporter at most, or in one message.
OnePlace ==
    /\ ItemsDiffer(ahead)
    /\ ItemsDiffer(queue)
    /\ \A v, w \in Busy : theItem(sending[v]) = theItem(sending[w]) => v = w
    /\ \A i, j \in DOMAIN stream : payloadOf(i) = payloadOf(j) => i = j
    /\ itemsIn(ahead) \cap (itemsIn(queue) \cup Sent \cup Published) = {}
    /\ itemsIn(queue) \cap (Sent \cup Published) = {}
    /\ Sent \cap Published = {}
    /\ itemsIn(ahead) \cup itemsIn(queue) \cup Sent \subseteq given
    /\ Published \subseteq given \cup Malformed

\* The messages in the receiver's hands.
Held == ToSet(buffer) \cup (IF handling = NoCall THEN {} ELSE {handling.id})

\* Every message is in the receiver's hands once at most, and is delivered once.
HeldOnce ==
    /\ IsInjective(buffer)
    /\ handling # NoCall => handling.id \notin ToSet(buffer)
    /\ ToSet(buffer) \cap accepted = {}
    /\ handling.step = "deliver" => handling.id \notin accepted
    /\ handling.step # "nak"
    /\ receiverMode = "jetstream" => inflight = Held /\ (pending \ inflight) \cap accepted = {}
    /\ \A x \in Items : copies[x] <= 1 /\ (copies[x] = 1 => \E i \in accepted : payloadOf(i) = x)

\* While nothing fails.
Orderly == faults = 0 => OnePlace /\ HeldOnce

\* The inductive invariant.
IInv == /\ ExporterShape /\ ReceiverShape /\ faults \in Nat
        /\ NothingVanishes /\ AckIsSafe /\ HeldIsWaiting /\ Orderly
-----------------------------------------------------------------------------
(***************************************************************************)
(* The shape of the state.                                                 *)
(***************************************************************************)

\* What a worker publishes is a message with the batch's item.
LEMMA MessageOfSingle ==
    ASSUME NEW b \in Single
    PROVE  messageOf(b) \in Message /\ messageOf(b).payload = theItem(b)
<1>1. b \in Batch /\ theItem(b) \in Items /\ theItem(b) \in ToSet(itemsOf(b))
  BY ItemOfSingle DEF Single
<1>2. \E i \in DOMAIN b : TRUE
  BY <1>1, ItemsOfBatch
<1>3. b[1] \in Resource
  BY <1>1, <1>2 DEF Batch
<1>4. subjectFor(b) \in Subjects
  BY <1>3, ExporterAssumption DEF subjectFor, Resource
<1>5. messageOf(b) = [payload |-> theItem(b), subject |-> subjectFor(b)]
  BY DEF messageOf, theItem
<1> QED BY <1>1, <1>4, <1>5 DEF Message

\* A step of the exporter leaves the server alone or stores a message.
LEMMA ExporterStores ==
    ASSUME ExporterShape, ExporterNext
    PROVE  UNCHANGED serverVars \/ \E msg \in Message : Store(msg)
<1>1. \A w \in Workers : sending[w] # NoBatch => messageOf(sending[w]) \in Message
  BY MessageOfSingle DEF ExporterShape
<1>2. \A x \in Malformed : [payload |-> x, subject |-> DefaultSubject] \in Message
  BY ExporterAssumption DEF Message
<1>3. ASSUME NEW ld \in Batches, Consume(ld) PROVE UNCHANGED serverVars
  BY <1>3 DEF Consume
<1>4. ASSUME HandOn PROVE UNCHANGED serverVars
  BY <1>4 DEF HandOn
<1>5. ASSUME NEW w \in Workers, TakeBatch(w) PROVE UNCHANGED serverVars
  BY <1>5 DEF TakeBatch
<1>6. ASSUME NEW w \in Workers, Publish(w) PROVE \E msg \in Message : Store(msg)
  BY <1>1, <1>6, Zenon DEF Publish
<1>7. ASSUME NEW w \in Workers, PublishFails(w)
      PROVE  UNCHANGED serverVars \/ \E msg \in Message : Store(msg)
  BY <1>1, <1>7, Zenon DEF PublishFails
<1>8. ASSUME NEW w \in Workers, PublishVanishes(w) \/ GiveUp(w) PROVE UNCHANGED serverVars
  BY <1>8 DEF PublishVanishes, GiveUp
<1>9. ASSUME CrashExporter PROVE UNCHANGED serverVars
  BY <1>9 DEF CrashExporter
<1>10. ASSUME NEW x \in Malformed, PublishMalformed(x) PROVE \E msg \in Message : Store(msg)
  BY <1>2, <1>10, Zenon DEF PublishMalformed
<1> QED BY <1>3, <1>4, <1>5, <1>6, <1>7, <1>8, <1>9, <1>10, Zenon DEF ExporterNext, ExporterStep

\* Every step keeps the batches in the exporter single.
LEMMA ExporterShapeStep ==
    ASSUME ExporterShape, [Next]_vars
    PROVE  ExporterShape'
<1> USE DEF ExporterShape
<1>1. ASSUME NEW ld \in Batches, Consume(ld) PROVE ExporterShape'
  <2>1. ld \in Batch
    BY ExporterAssumption
  <2>2. splitLogs(ld) \in Seq(Single)
    BY <2>1, SplitIsExact
  <2>3. ToSet(itemsOf(ld)) \subseteq Items
    BY <2>1, ItemsOfBatch DEF ToSet
  <2> QED BY <1>1, <2>2, <2>3 DEF Consume
<1>2. ASSUME HandOn PROVE ExporterShape'
  <2>1. ahead # <<>> /\ UNCHANGED <<given, sending>>
    BY <1>2 DEF HandOn
  <2>2. Head(ahead) \in Single /\ Tail(ahead) \in Seq(Single)
    BY <2>1
  <2>3. Append(queue, Head(ahead)) \in Seq(Single)
    BY <2>2
  <2>4. (ahead' = Tail(ahead) \/ ahead' = <<>>) /\ queue' \in {queue, Append(queue, Head(ahead))}
    BY <1>2 DEF HandOn
  <2>5. ahead' \in Seq(Single)
    <3>1. <<>> \in Seq(Single)
      OBVIOUS
    <3> QED BY <2>2, <2>4, <3>1, Zenon
  <2>6. queue' \in Seq(Single)
    BY <2>3, <2>4
  <2> QED BY <2>1, <2>5, <2>6
<1>3. ASSUME NEW w \in Workers, TakeBatch(w) PROVE ExporterShape'
  BY <1>3 DEF TakeBatch
<1>4. ASSUME NEW w \in Workers, Publish(w) \/ PublishVanishes(w) \/ GiveUp(w) PROVE ExporterShape'
  BY <1>4 DEF Publish, PublishVanishes, GiveUp
<1>5. ASSUME NEW w \in Workers, PublishFails(w) PROVE ExporterShape'
  BY <1>5 DEF PublishFails, exporterVars
<1>6. ASSUME CrashExporter PROVE ExporterShape'
  BY <1>6 DEF CrashExporter
<1>7. ASSUME NEW x \in Malformed, PublishMalformed(x) PROVE ExporterShape'
  BY <1>7 DEF PublishMalformed, exporterVars
<1>8. ASSUME UNCHANGED exporterVars PROVE ExporterShape'
  BY <1>8 DEF exporterVars
<1> HIDE DEF ExporterShape
<1>9. CASE ExporterNext
  BY <1>1, <1>2, <1>3, <1>4, <1>5, <1>6, <1>7, <1>9, Zenon DEF ExporterNext, ExporterStep
<1>10. [Next]_vars => ExporterNext \/ UNCHANGED exporterVars
  BY DEF Next, vars
<1> QED BY <1>8, <1>9, <1>10

\* Storing a message leaves those stored before as they are.
LEMMA StoreAppends ==
    ASSUME ReceiverShape, NEW msg \in Message, Store(msg)
    PROVE  /\ Len(stream) + 1 \notin DOMAIN stream
           /\ stream' \in Seq(Message)
           /\ DOMAIN stream' = DOMAIN stream \cup {Len(stream) + 1}
           /\ \A i \in DOMAIN stream : payloadOf(i)' = payloadOf(i)
           /\ stream'[Len(stream) + 1].payload = msg.payload
<1>1. stream \in Seq(Message) /\ stream' = Append(stream, msg)
  BY DEF ReceiverShape, Store
<1>2. /\ Len(stream) + 1 \notin DOMAIN stream
      /\ stream' \in Seq(Message)
      /\ DOMAIN stream' = DOMAIN stream \cup {Len(stream) + 1}
      /\ \A i \in DOMAIN stream : stream'[i] = stream[i]
      /\ stream'[Len(stream) + 1] = msg
  BY <1>1
<1> QED BY <1>2 DEF payloadOf

\* Every step keeps the server's and the receiver's indices in the stream.
LEMMA ReceiverShapeStep ==
    ASSUME ExporterShape, ReceiverShape, [Next]_vars
    PROVE  ReceiverShape'
<1>1. ASSUME NEW msg \in Message, Store(msg), UNCHANGED receiverVars PROVE ReceiverShape'
  <2>1. /\ stream' \in Seq(Message)
        /\ DOMAIN stream' = DOMAIN stream \cup {Len(stream) + 1}
    BY <1>1, StoreAppends, Zenon
  <2>2. /\ pending' = IF receiverMode = "jetstream" THEN pending \cup {Len(stream) + 1} ELSE pending
        /\ buffer' \in {buffer, Append(buffer, Len(stream) + 1)}
        /\ unheard' \subseteq unheard \cup {Len(stream) + 1}
        /\ UNCHANGED <<receiverMode, inflight>>
    BY <1>1 DEF Store
  <2>3. buffer' \in Seq(DOMAIN stream')
    <3>1. buffer \in Seq(DOMAIN stream')
      BY <2>1 DEF ReceiverShape
    <3> QED BY <2>1, <2>2, <3>1
  <2>4. handling' \in {NoCall} \cup Calls'
    BY <1>1, <2>1 DEF ReceiverShape, Calls, receiverVars
  <2> QED BY <1>1, <2>1, <2>2, <2>3, <2>4 DEF ReceiverShape, receiverVars
<1>2. ASSUME UNCHANGED <<serverVars, receiverVars>> PROVE ReceiverShape'
  BY <1>2 DEF ReceiverShape, Calls, serverVars, receiverVars
<1>3. ASSUME Start PROVE ReceiverShape'
  BY <1>3 DEF Start, ReceiverShape, Calls, receiverVars
<1>4. ASSUME NEW i \in pending, SendMessage(i), UNCHANGED receiverVars PROVE ReceiverShape'
  <2>1. Append(buffer, i) \in Seq(DOMAIN stream)
    BY <1>4 DEF ReceiverShape
  <2> QED BY <1>4, <2>1 DEF SendMessage, ReceiverShape, Calls, receiverVars
<1>5. ASSUME CallHandler PROVE ReceiverShape'
  <2>1. Head(buffer) \in DOMAIN stream /\ Tail(buffer) \in Seq(DOMAIN stream)
    BY <1>5 DEF ReceiverShape, CallHandler
  <2>2. handling' \in Calls /\ handling'.step = "deliver"
    BY <1>5, <2>1 DEF CallHandler, Calls
  <2> QED BY <1>5, <2>1, <2>2 DEF CallHandler, ReceiverShape, Calls
<1>6. ASSUME NEW reply \in {"ack", "nak"}, handling.step = "deliver", AnswerWith(reply)
      PROVE  handling' \in {NoCall} \cup Calls /\ (receiverMode = "core" => handling' = NoCall)
  <2>1. handling \in Calls
    BY <1>6 DEF ReceiverShape, NoCall
  <2>2. [handling EXCEPT !.step = reply] \in Calls
    BY <2>1 DEF Calls
  <2> QED BY <1>6, <2>2 DEF AnswerWith, ReceiverShape
<1>7. NoCall.step = "none"
  BY DEF NoCall
<1>8. ASSUME DeliverMalformed PROVE ReceiverShape'
  <2>1. handling' \in {NoCall} \cup Calls /\ (receiverMode = "core" => handling' = NoCall)
    BY <1>6, <1>8 DEF DeliverMalformed
  <2> QED BY <1>7, <1>8, <2>1 DEF DeliverMalformed, ReceiverShape, Calls, serverVars
<1>9. ASSUME DeliverAccepted PROVE ReceiverShape'
  <2>1. handling' \in {NoCall} \cup Calls /\ (receiverMode = "core" => handling' = NoCall)
    BY <1>6, <1>9 DEF DeliverAccepted
  <2>2. handling.id \in DOMAIN stream
    BY <1>9 DEF DeliverAccepted, ReceiverShape, Calls, NoCall
  <2>3. copies' \in [Items -> Nat]
    BY <1>9 DEF DeliverAccepted, ReceiverShape
  <2> QED BY <1>7, <1>9, <2>1, <2>2, <2>3 DEF DeliverAccepted, ReceiverShape, Calls, serverVars
<1>10. ASSUME DeliverRefused PROVE ReceiverShape'
  <2>1. handling' \in {NoCall} \cup Calls /\ (receiverMode = "core" => handling' = NoCall)
    BY <1>6, <1>10 DEF DeliverRefused
  <2> QED BY <1>7, <1>10, <2>1 DEF DeliverRefused, ReceiverShape, Calls, serverVars
<1>11. ASSUME Answer PROVE ReceiverShape'
  BY <1>7, <1>11 DEF Answer, Acknowledge, GiveBack, ReceiverShape, Calls
<1>12. ASSUME AnswerLost PROVE ReceiverShape'
  BY <1>7, <1>12 DEF AnswerLost, ReceiverShape, Calls, serverVars
<1>13. ASSUME NEW i \in inflight, AckWait(i) PROVE ReceiverShape'
  BY <1>13 DEF AckWait, GiveBack, ReceiverShape, Calls, receiverVars
<1>14. ASSUME Shutdown PROVE ReceiverShape'
  BY <1>14 DEF Shutdown, Disconnect, ReceiverShape, Calls
<1>15. ASSUME CrashReceiver PROVE ReceiverShape'
  BY <1>7, <1>15 DEF CrashReceiver, Disconnect, ReceiverShape, Calls
<1>16. ASSUME Insert \/ InsertGivesUp PROVE ReceiverShape'
  BY <1>16 DEF Insert, InsertGivesUp, ReceiverShape, Calls, serverVars
<1>17. CASE ExporterNext /\ UNCHANGED receiverVars
  BY <1>1, <1>2, <1>17, ExporterStores, Zenon
<1>18. CASE ReceiverNext
  BY <1>3, <1>4, <1>5, <1>8, <1>9, <1>10, <1>11, <1>12, <1>13, <1>14, <1>15, <1>16, <1>18, Zenon
     DEF ReceiverNext, ReceiverStep
<1>19. CASE UNCHANGED vars
  BY <1>2, <1>19 DEF vars
<1> QED BY <1>17, <1>18, <1>19 DEF Next
-----------------------------------------------------------------------------
(***************************************************************************)
(* The receiver implements AtLeastOnce.                                    *)
(***************************************************************************)

\* The unfit messages stay what they are, and a stored message may add one.
LEMMA UnfitGrows ==
    ASSUME ReceiverShape, NEW msg \in Message, Store(msg)
    PROVE  /\ Unfit \subseteq Unfit'
           /\ Unfit' \in {Unfit, Unfit \cup {Len(stream) + 1}}
<1>1. /\ DOMAIN stream' = DOMAIN stream \cup {Len(stream) + 1}
      /\ \A i \in DOMAIN stream : payloadOf(i)' = payloadOf(i)
  BY StoreAppends, Zenon
<1>2. \A i \in DOMAIN stream : i \in Unfit' <=> i \in Unfit
  BY <1>1 DEF Unfit
<1>3. Unfit \subseteq DOMAIN stream /\ Unfit' \subseteq DOMAIN stream \cup {Len(stream) + 1}
  BY <1>1 DEF Unfit
<1>4. Unfit \subseteq Unfit' /\ Unfit' \subseteq Unfit \cup {Len(stream) + 1}
  BY <1>2, <1>3, Zenon
<1> QED BY <1>4, Zenon

\* Every other step leaves the stream alone.
LEMMA UnfitStays ==
    ASSUME UNCHANGED stream
    PROVE  Unfit' = Unfit
BY DEF Unfit, payloadOf

\* What the receiver holds stays unretired or settled.
LEMMA HeldStep ==
    ASSUME ExporterShape, ReceiverShape, HeldIsWaiting, [Next]_vars
    PROVE  HeldIsWaiting'
<1>1. ASSUME NEW msg \in Message, Store(msg), UNCHANGED receiverVars PROVE HeldIsWaiting'
  <2>1. Unfit \subseteq Unfit'
    BY <1>1, UnfitGrows
  <2> QED BY <1>1, <2>1 DEF Store, HeldIsWaiting, receiverVars
<1>2. ASSUME UNCHANGED <<serverVars, receiverVars>> PROVE HeldIsWaiting'
  BY <1>2, UnfitStays DEF HeldIsWaiting, serverVars, receiverVars
<1>3. ASSUME Start PROVE HeldIsWaiting'
  BY <1>3, UnfitStays DEF Start, HeldIsWaiting, receiverVars
<1>4. ASSUME NEW i \in pending, SendMessage(i), UNCHANGED receiverVars PROVE HeldIsWaiting'
  <2>1. ToSet(Append(buffer, i)) = ToSet(buffer) \cup {i}
    BY AppendSet DEF ReceiverShape
  <2> QED BY <1>4, <2>1, UnfitStays DEF SendMessage, HeldIsWaiting, receiverVars
<1>5. ASSUME CallHandler PROVE HeldIsWaiting'
  <2>1. Head(buffer) \in ToSet(buffer) /\ ToSet(Tail(buffer)) \subseteq ToSet(buffer)
    BY <1>5, HeadTailSet DEF CallHandler, ReceiverShape
  <2> QED BY <1>5, <2>1, UnfitStays DEF CallHandler, HeldIsWaiting
<1>6. NoCall.step = "none"
  BY DEF NoCall
<1>7. ASSUME NEW reply, handling.step = "deliver", AnswerWith(reply), receiverMode = "jetstream"
      PROVE  handling'.id = handling.id /\ handling'.step = reply /\ handling.id \in DOMAIN stream
  <2>1. handling \in Calls
    BY <1>6, <1>7 DEF ReceiverShape
  <2> QED BY <1>7, <2>1 DEF AnswerWith, Calls
<1>8. ASSUME DeliverMalformed PROVE HeldIsWaiting'
  <2> SUFFICES ASSUME receiverMode' = "jetstream" PROVE HeldIsWaiting'
    BY DEF HeldIsWaiting
  <2>1. receiverMode = "jetstream"
    BY <1>8 DEF DeliverMalformed, serverVars
  <2>2. handling'.id = handling.id /\ handling'.step = "ack" /\ handling.id \in Unfit
    BY <1>7, <1>8, <2>1 DEF DeliverMalformed, Unfit
  <2> QED BY <1>8, <2>1, <2>2, UnfitStays DEF DeliverMalformed, HeldIsWaiting, serverVars
<1>9. ASSUME DeliverAccepted PROVE HeldIsWaiting'
  <2> SUFFICES ASSUME receiverMode' = "jetstream" PROVE HeldIsWaiting'
    BY DEF HeldIsWaiting
  <2>1. receiverMode = "jetstream"
    BY <1>9 DEF DeliverAccepted, serverVars
  <2>2. handling'.id = handling.id /\ handling'.step = "ack" /\ accepted' = accepted \cup {handling.id}
    BY <1>7, <1>9, <2>1 DEF DeliverAccepted
  <2> QED BY <1>9, <2>1, <2>2, UnfitStays DEF DeliverAccepted, HeldIsWaiting, serverVars
<1>10. ASSUME DeliverRefused PROVE HeldIsWaiting'
  <2> SUFFICES ASSUME receiverMode' = "jetstream" PROVE HeldIsWaiting'
    BY DEF HeldIsWaiting
  <2>1. receiverMode = "jetstream"
    BY <1>10 DEF DeliverRefused, serverVars
  <2>2. handling'.step = "nak"
    BY <1>7, <1>10, <2>1 DEF DeliverRefused
  <2> QED BY <1>10, <2>1, <2>2, UnfitStays DEF DeliverRefused, HeldIsWaiting, serverVars
<1>11. ASSUME Answer PROVE HeldIsWaiting'
  <2>1. /\ UNCHANGED <<receiverMode, stream, buffer, accepted>>
        /\ handling' = NoCall
        /\ \/ handling.step = "ack" /\ pending' = pending \ {handling.id}
           \/ pending' = pending
    BY <1>11 DEF Answer, Acknowledge, GiveBack
  <2>2. receiverMode = "jetstream" => pending \subseteq pending' \cup accepted \cup Unfit
    BY <2>1 DEF HeldIsWaiting
  <2> QED BY <1>6, <2>1, <2>2, UnfitStays DEF HeldIsWaiting
<1>12. ASSUME AnswerLost PROVE HeldIsWaiting'
  BY <1>6, <1>12, UnfitStays DEF AnswerLost, HeldIsWaiting, serverVars
<1>13. ASSUME NEW i \in inflight, AckWait(i) PROVE HeldIsWaiting'
  BY <1>13, UnfitStays DEF AckWait, GiveBack, HeldIsWaiting, receiverVars
<1>14. ToSet(<<>>) = {}
  BY DEF ToSet
<1>15. ASSUME Shutdown PROVE HeldIsWaiting'
  BY <1>14, <1>15, UnfitStays DEF Shutdown, Disconnect, HeldIsWaiting
<1>16. ASSUME CrashReceiver PROVE HeldIsWaiting'
  BY <1>6, <1>14, <1>16, UnfitStays DEF CrashReceiver, Disconnect, HeldIsWaiting
<1>17. ASSUME Insert \/ InsertGivesUp PROVE HeldIsWaiting'
  BY <1>17, UnfitStays DEF Insert, InsertGivesUp, HeldIsWaiting, serverVars
<1>18. CASE ExporterNext /\ UNCHANGED receiverVars
  BY <1>1, <1>2, <1>18, ExporterStores, Zenon
<1>19. CASE ReceiverNext
  BY <1>3, <1>4, <1>5, <1>8, <1>9, <1>10, <1>11, <1>12, <1>13, <1>15, <1>16, <1>17, <1>19, Zenon
     DEF ReceiverNext, ReceiverStep
<1>20. CASE UNCHANGED vars
  BY <1>2, <1>20 DEF vars
<1> QED BY <1>18, <1>19, <1>20 DEF Next

\* With a durable consumer a step puts, gets or retires a message, or leaves
\* all three sets alone.
Mapped ==
    \/ UNCHANGED <<pending, accepted, Unfit>>
    \/ \E i : /\ i \notin pending \cup accepted \cup Unfit
              /\ pending' = pending \cup {i}
              /\ Unfit' \in {Unfit, Unfit \cup {i}}
              /\ UNCHANGED accepted
    \/ \E i \in pending : /\ i \notin Unfit
                          /\ accepted' = accepted \cup {i}
                          /\ UNCHANGED <<pending, Unfit>>
    \/ \E i \in pending : /\ i \in accepted \cup Unfit
                          /\ pending' = pending \ {i}
                          /\ UNCHANGED <<accepted, Unfit>>

\* With a durable consumer every step is mapped.
LEMMA DurableStep ==
    ASSUME ExporterShape, ReceiverShape, HeldIsWaiting, [Next]_vars, receiverMode = "jetstream"
    PROVE  Mapped
<1> USE DEF Mapped
<1>1. ASSUME NEW msg \in Message, Store(msg), UNCHANGED receiverVars PROVE Mapped
  <2> DEFINE n == Len(stream) + 1
  <2>1. n \notin DOMAIN stream /\ Unfit' \in {Unfit, Unfit \cup {n}}
    BY <1>1, StoreAppends, UnfitGrows
  <2>2. n \notin pending \cup accepted \cup Unfit
    BY <2>1 DEF ReceiverShape, Unfit
  <2>3. pending' = pending \cup {n} /\ UNCHANGED accepted
    BY <1>1 DEF Store, receiverVars
  <2> HIDE DEF n
  <2> QED BY <2>1, <2>2, <2>3, Zenon
<1>2. ASSUME UNCHANGED <<stream, pending, accepted>> PROVE Mapped
  BY <1>2, UnfitStays
<1>3. ASSUME DeliverAccepted PROVE Mapped
  <2>1. /\ UNCHANGED <<stream, pending>>
        /\ accepted' = accepted \cup {handling.id}
        /\ handling.id \in pending \cup accepted \cup Unfit
    BY <1>3 DEF DeliverAccepted, HeldIsWaiting, serverVars
  <2>2. handling.id \notin Unfit
    BY <1>3, ServerAssumption DEF DeliverAccepted, Unfit
  <2>3. CASE handling.id \in accepted
    <3>1. accepted' = accepted
      BY <2>1, <2>3
    <3> QED BY <1>2, <2>1, <3>1
  <2>4. CASE handling.id \in pending
    BY <2>1, <2>2, <2>4, UnfitStays
  <2> QED BY <2>1, <2>2, <2>3, <2>4
<1>4. ASSUME Answer PROVE Mapped
  <2>1. CASE handling.step = "ack" /\ Acknowledge(handling.id) /\ handling.id \in pending
    <3>1. handling.id \in accepted \cup Unfit /\ pending' = pending \ {handling.id}
      BY <2>1 DEF HeldIsWaiting, Acknowledge
    <3>2. UNCHANGED <<stream, accepted>>
      BY <1>4 DEF Answer, Acknowledge, GiveBack
    <3> QED BY <2>1, <3>1, <3>2, UnfitStays
  <2>2. CASE handling.step = "ack" /\ Acknowledge(handling.id) /\ handling.id \notin pending
    <3>1. UNCHANGED <<stream, pending, accepted>>
      BY <1>4, <2>2 DEF Answer, Acknowledge
    <3> QED BY <1>2, <3>1
  <2>3. CASE GiveBack(handling.id)
    <3>1. UNCHANGED <<stream, pending, accepted>>
      BY <1>4, <2>3 DEF Answer, GiveBack
    <3> QED BY <1>2, <3>1
  <2> QED BY <1>4, <2>1, <2>2, <2>3 DEF Answer
<1> HIDE DEF Mapped
<1>5. ASSUME \/ Start
             \/ \E i \in pending : SendMessage(i) /\ UNCHANGED <<faults, receiverVars>>
             \/ CallHandler \/ DeliverMalformed \/ DeliverRefused \/ AnswerLost
             \/ \E i \in inflight : AckWait(i)
             \/ Shutdown \/ CrashReceiver \/ Insert \/ InsertGivesUp
      PROVE  UNCHANGED <<stream, pending, accepted>>
  BY <1>5 DEF Start, SendMessage, CallHandler, DeliverMalformed, DeliverRefused, AnswerLost, AckWait,
              GiveBack, Shutdown, CrashReceiver, Disconnect, Insert, InsertGivesUp,
              serverVars, receiverVars
<1>6. CASE ExporterNext /\ UNCHANGED receiverVars
  <2>1. ASSUME UNCHANGED serverVars PROVE UNCHANGED <<stream, pending, accepted>>
    BY <1>6, <2>1 DEF serverVars, receiverVars
  <2> QED BY <1>1, <1>2, <1>6, <2>1, ExporterStores, Zenon
<1>7. CASE ReceiverNext
  BY <1>2, <1>3, <1>4, <1>5, <1>7, Zenon DEF ReceiverNext, ReceiverStep
<1>8. CASE UNCHANGED vars
  BY <1>2, <1>8 DEF vars, serverVars, receiverVars
<1> QED BY <1>6, <1>7, <1>8 DEF Next

\* A step of the pipeline is a step of AtLeastOnce or leaves its variables alone.
LEMMA QueueStep ==
    ASSUME ExporterShape, ReceiverShape, HeldIsWaiting, [Next]_vars
    PROVE  [Queue!Next]_(Queue!vars)
<1>1. UNCHANGED receiverMode
  <2>1. \A msg : Store(msg) => UNCHANGED receiverMode
    BY DEF Store
  <2>2. CASE ExporterNext
    BY <2>1, <2>2, ExporterStores DEF serverVars
  <2>3. CASE ReceiverNext
    BY <2>3 DEF ReceiverNext, ReceiverStep, Start, SendMessage, CallHandler, DeliverMalformed,
                DeliverAccepted, DeliverRefused, Answer, Acknowledge, AnswerLost, AckWait, GiveBack,
                Shutdown, CrashReceiver, Disconnect, Insert, InsertGivesUp, serverVars
  <2>4. CASE UNCHANGED vars
    BY <2>4 DEF vars, serverVars
  <2> QED BY <2>2, <2>3, <2>4 DEF Next
<1>2. CASE receiverMode = "jetstream"
  <2>1. Mapped
    BY <1>2, DurableStep
  <2>2. CASE UNCHANGED <<pending, accepted, Unfit>>
    BY <1>1, <1>2, <2>2 DEF Queue!vars, Unfit
  <2>3. CASE \E i : /\ i \notin pending \cup accepted \cup Unfit
                    /\ pending' = pending \cup {i}
                    /\ Unfit' \in {Unfit, Unfit \cup {i}}
                    /\ UNCHANGED accepted
    BY <1>1, <1>2, <2>3 DEF Queue!Next, Queue!Put, Unfit
  <2>4. CASE \E i \in pending : /\ i \notin Unfit
                                /\ accepted' = accepted \cup {i}
                                /\ UNCHANGED <<pending, Unfit>>
    BY <1>1, <1>2, <2>4 DEF Queue!Next, Queue!Get, Unfit
  <2>5. CASE \E i \in pending : /\ i \in accepted \cup Unfit
                                /\ pending' = pending \ {i}
                                /\ UNCHANGED <<accepted, Unfit>>
    BY <1>1, <1>2, <2>5 DEF Queue!Next, Queue!Retire, Unfit
  <2> QED BY <2>1, <2>2, <2>3, <2>4, <2>5 DEF Mapped
<1>3. CASE receiverMode = "core"
  <2>1. ReceiverShape'
    BY ReceiverShapeStep
  <2>2. pending = {} /\ pending' = {}
    BY <1>1, <1>3, <2>1 DEF ReceiverShape
  <2> QED BY <1>1, <1>3, <2>2 DEF Queue!vars
<1> QED BY <1>2, <1>3, ServerAssumption DEF ReceiverShape
-----------------------------------------------------------------------------
(***************************************************************************)
(* No item vanishes.                                                       *)
(***************************************************************************)

\* The items with the exporter, in messages that still wait, and anywhere.  A
\* core message waits that nobody heard or that the receiver holds.
Upstream == itemsIn(ahead) \cup itemsIn(queue) \cup Sent
Unretired == IF receiverMode = "core" THEN unheard \cup Held ELSE pending
Waiting == {payloadOf(i) : i \in Unretired}
Everywhere == Upstream \cup Waiting \cup memory \cup table \cup lost \cup dropped

\* What the receiver holds are messages of the stream.
LEMMA HeldInStream ==
    ASSUME ReceiverShape
    PROVE  /\ Held \subseteq DOMAIN stream
           /\ \A i \in DOMAIN stream : Holds(i) <=> i \in Held
<1>1. handling # NoCall => handling \in Calls /\ handling.id \in DOMAIN stream
  BY DEF ReceiverShape, Calls
<1>2. 0 \notin DOMAIN stream /\ NoCall.id = 0
  BY DEF ReceiverShape, NoCall
<1>3. ToSet(buffer) \subseteq DOMAIN stream
  BY DEF ReceiverShape, ToSet
<1>4. ASSUME NEW i \in DOMAIN stream PROVE Holds(i) <=> i \in Held
  BY <1>2, Zenon DEF Holds, Held, ToSet
<1> QED BY <1>1, <1>3, <1>4, Zenon DEF Held

\* An item is accounted for when it is anywhere.
LEMMA EverywhereIsAccounted ==
    ExporterShape /\ ReceiverShape => (NothingVanishes <=> given \subseteq Everywhere)
<1> SUFFICES ASSUME ExporterShape, ReceiverShape
             PROVE  \A x : Accounted(x) <=> x \in Everywhere
  BY Zenon DEF NothingVanishes
<1>1. \A w \in Workers : sending[w] # NoBatch => ToSet(itemsOf(sending[w])) = {theItem(sending[w])}
  <2>1. \A w \in Workers : sending[w] # NoBatch => sending[w] \in Single
    BY DEF ExporterShape
  <2> QED BY <2>1, ItemOfSingle
<1>2. ASSUME NEW x
      PROVE  (\E w \in Workers : sending[w] # NoBatch /\ x \in ToSet(itemsOf(sending[w]))) <=> x \in Sent
  BY <1>1, Zenon DEF Sent, Busy
<1>3. ASSUME NEW x
      PROVE  x \in Waiting <=>
                 \/ \E i \in pending : payloadOf(i) = x
                 \/ receiverMode = "core" /\ \E i \in DOMAIN stream :
                       payloadOf(i) = x /\ (i \in unheard \/ Holds(i))
  <2>1. CASE receiverMode = "core"
    <3>1. pending = {} /\ unheard \subseteq DOMAIN stream
      BY <2>1 DEF ReceiverShape
    <3>2. Held \subseteq DOMAIN stream /\ \A i \in DOMAIN stream : Holds(i) <=> i \in Held
      BY HeldInStream
    <3>3. Unretired = unheard \cup Held
      BY <2>1 DEF Unretired
    <3> QED BY <2>1, <3>1, <3>2, <3>3, Zenon DEF Waiting
  <2>2. CASE receiverMode # "core"
    BY <2>2, Zenon DEF Waiting, Unretired
  <2> QED BY <2>1, <2>2
<1> QED BY <1>2, <1>3, Zenon DEF Accounted, Everywhere, Upstream

\* The items of a sequence of batches with one more, and with one less.
LEMMA ItemsInAppend ==
    ASSUME NEW s \in Seq(Single), NEW b \in Single
    PROVE  itemsIn(Append(s, b)) = itemsIn(s) \cup {theItem(b)}
<1>1. Append(s, b) \in Seq(Single)
  OBVIOUS
<1>2. /\ DOMAIN Append(s, b) = DOMAIN s \cup {Len(s) + 1}
      /\ Append(s, b)[Len(s) + 1] = b
      /\ \A i \in DOMAIN s : Append(s, b)[i] = s[i]
  OBVIOUS
<1>3. \A x : x \in itemsIn(Append(s, b)) <=> \E a \in DOMAIN Append(s, b) : x = theItem(Append(s, b)[a])
  BY <1>1, ItemsInSingles, Zenon
<1>4. \A x : x \in itemsIn(s) <=> \E a \in DOMAIN s : x = theItem(s[a])
  BY ItemsInSingles
<1>5. ASSUME NEW x, NEW a \in DOMAIN Append(s, b), x = theItem(Append(s, b)[a])
      PROVE  x \in itemsIn(s) \cup {theItem(b)}
  <2>1. CASE a = Len(s) + 1
    BY <1>2, <1>5, <2>1, Zenon
  <2>2. CASE a \in DOMAIN s
    BY <1>2, <1>4, <1>5, <2>2, Zenon
  <2> QED BY <1>2, <2>1, <2>2, Zenon
<1>6. ASSUME NEW x, x \in itemsIn(s) \cup {theItem(b)} PROVE x \in itemsIn(Append(s, b))
  <2>1. CASE x = theItem(b)
    BY <1>2, <1>3, <2>1, Zenon
  <2>2. CASE x \in itemsIn(s)
    BY <1>2, <1>3, <1>4, <2>2, Zenon
  <2> QED BY <1>6, <2>1, <2>2
<1> QED BY <1>3, <1>5, <1>6, Zenon

\* The batches of a tail, and the head, hold the items of the sequence.
LEMMA ItemsInTail ==
    ASSUME NEW s \in Seq(Single), s # <<>>
    PROVE  /\ Head(s) \in Single
           /\ itemsIn(s) = {theItem(Head(s))} \cup itemsIn(Tail(s))
<1>1. Tail(s) \in Seq(Single) /\ Head(s) \in Single
  OBVIOUS
<1>2. /\ 1 \in DOMAIN s /\ s[1] = Head(s)
      /\ \A i \in DOMAIN Tail(s) : i + 1 \in DOMAIN s /\ Tail(s)[i] = s[i + 1]
  OBVIOUS
<1>3. \A i \in DOMAIN s : i = 1 \/ (i - 1 \in DOMAIN Tail(s) /\ Tail(s)[i - 1] = s[i])
  OBVIOUS
<1>4. \A x : x \in itemsIn(Tail(s)) <=> \E a \in DOMAIN Tail(s) : x = theItem(Tail(s)[a])
  BY <1>1, ItemsInSingles, Zenon
<1>5. \A x : x \in itemsIn(s) <=> \E a \in DOMAIN s : x = theItem(s[a])
  BY ItemsInSingles
<1>6. ASSUME NEW x, x \in itemsIn(s) PROVE x \in {theItem(Head(s))} \cup itemsIn(Tail(s))
  <2>1. PICK a \in DOMAIN s : x = theItem(s[a])
    BY <1>5, <1>6
  <2>2. CASE a = 1
    BY <1>2, <2>1, <2>2
  <2>3. CASE a - 1 \in DOMAIN Tail(s) /\ Tail(s)[a - 1] = s[a]
    BY <1>4, <2>1, <2>3
  <2> QED BY <1>3, <2>2, <2>3
<1>7. ASSUME NEW x, x \in {theItem(Head(s))} \cup itemsIn(Tail(s)) PROVE x \in itemsIn(s)
  BY <1>2, <1>4, <1>5, <1>7, Zenon
<1> QED BY <1>1, <1>6, <1>7, Zenon

\* A worker that takes a batch holds its item; one that is done gives only that up.
LEMMA SentStarts ==
    ASSUME ExporterShape, NEW w \in Workers, NEW b \in Single, sending[w] = NoBatch,
           sending' = [sending EXCEPT ![w] = b]
    PROVE  Sent' = Sent \cup {theItem(b)} /\ Busy' = Busy \cup {w}
<1>1. b # NoBatch
  BY ExporterAssumption DEF Single
<1>2. Busy' = Busy \cup {w}
  BY <1>1 DEF Busy, ExporterShape
<1>3. w \notin Busy /\ \A v \in Busy : sending'[v] = sending[v]
  BY DEF Busy, ExporterShape
<1>4. sending'[w] = b
  BY DEF ExporterShape
<1>5. Sent' = {theItem(sending'[v]) : v \in Busy'}
  BY DEF Sent
<1> QED BY <1>2, <1>3, <1>4, <1>5, Zenon DEF Sent

\* A worker that is done sends one item less.
LEMMA SentEnds ==
    ASSUME ExporterShape, NEW w \in Workers, sending[w] # NoBatch,
           sending' = [sending EXCEPT ![w] = NoBatch]
    PROVE  /\ Busy' = Busy \ {w}
           /\ Sent = Sent' \cup {theItem(sending[w])}
           /\ \A v \in Busy' : sending'[v] = sending[v]
<1>1. Busy' = Busy \ {w} /\ w \in Busy
  BY DEF Busy, ExporterShape
<1>2. \A v \in Busy \ {w} : sending'[v] = sending[v]
  BY DEF Busy, ExporterShape
<1>3. Sent' = {theItem(sending'[v]) : v \in Busy'}
  BY DEF Sent
<1> QED BY <1>1, <1>2, <1>3, Zenon DEF Sent

\* One more message adds its payload to the payloads of the others.
LEMMA PayloadsGrow ==
    ASSUME NEW f, NEW g, NEW S, NEW n, \A i \in S : g[i].payload = f[i].payload
    PROVE  {g[i].payload : i \in S \cup {n}} = {f[i].payload : i \in S} \cup {g[n].payload}
OBVIOUS

\* A stored message waits, and the others go on waiting.
LEMMA WaitingGrows ==
    ASSUME ReceiverShape, NEW msg \in Message, Store(msg), UNCHANGED receiverVars
    PROVE  Waiting' = Waiting \cup {msg.payload}
<1> DEFINE n == Len(stream) + 1
<1>1. /\ \A i \in DOMAIN stream : payloadOf(i)' = payloadOf(i)
      /\ stream'[n].payload = msg.payload
  BY StoreAppends, Zenon
<1>2. Unretired' = Unretired \cup {n}
  <2>1. CASE receiverMode = "core" /\ connected
    <3>1. /\ buffer' = Append(buffer, n)
          /\ UNCHANGED <<receiverMode, unheard, handling>>
      BY <2>1 DEF Store, receiverVars
    <3>2. ToSet(Append(buffer, n)) = ToSet(buffer) \cup {n}
      BY AppendSet DEF ReceiverShape
    <3> QED BY <2>1, <3>1, <3>2 DEF Unretired, Held
  <2>2. CASE receiverMode = "core" /\ ~connected
    BY <2>2 DEF Store, receiverVars, Unretired, Held
  <2>3. CASE receiverMode = "jetstream"
    BY <2>3 DEF Store, Unretired
  <2> QED BY <2>1, <2>2, <2>3, ServerAssumption DEF ReceiverShape
<1>3. Unretired \subseteq DOMAIN stream
  BY HeldInStream DEF Unretired, ReceiverShape
<1>4. \A i \in Unretired : stream'[i].payload = stream[i].payload
  BY <1>1, <1>3 DEF payloadOf
<1>5. /\ Waiting = {stream[i].payload : i \in Unretired}
      /\ Waiting' = {stream'[i].payload : i \in Unretired'}
  BY DEF Waiting, payloadOf
<1> QED BY <1>1, <1>2, <1>4, <1>5, PayloadsGrow

\* A step of the exporter keeps every item somewhere.
LEMMA ExporterKeeps ==
    ASSUME ExporterShape, ReceiverShape, given \subseteq Everywhere,
           ExporterNext, UNCHANGED receiverVars
    PROVE  (given \subseteq Everywhere)'
<1>1. UNCHANGED <<memory, table, dropped>>
  BY DEF receiverVars
<1>2. itemsIn(<<>>) = {}
  BY DEF itemsIn
<1>3. ASSUME UNCHANGED serverVars PROVE Waiting' = Waiting
  BY <1>3 DEF serverVars, receiverVars, Waiting, Unretired, Held, payloadOf
<1>4. ASSUME UNCHANGED sending PROVE Sent' = Sent
  BY <1>4 DEF Sent, Busy
<1>5. \A w \in Workers : sending[w] # NoBatch =>
          /\ messageOf(sending[w]) \in Message
          /\ messageOf(sending[w]).payload = theItem(sending[w])
          /\ ToSet(itemsOf(sending[w])) = {theItem(sending[w])}
  <2>1. \A w \in Workers : sending[w] # NoBatch => sending[w] \in Single
    BY DEF ExporterShape
  <2> QED BY <2>1, MessageOfSingle, ItemOfSingle
<1> USE DEF Everywhere, Upstream
<1>6. ASSUME NEW ld \in Batches, Consume(ld) PROVE (given \subseteq Everywhere)'
  <2>1. itemsIn(splitLogs(ld)) = ToSet(itemsOf(ld))
    BY ExporterAssumption, SplitIsExact
  <2> QED BY <1>1, <1>2, <1>3, <1>4, <1>6, <2>1 DEF Consume
<1>7. ASSUME HandOn PROVE (given \subseteq Everywhere)'
  <2>1. ahead # <<>> /\ UNCHANGED <<given, sending>> /\ UNCHANGED serverVars
    BY <1>7 DEF HandOn
  <2>2. Head(ahead) \in Single /\ itemsIn(ahead) = {theItem(Head(ahead))} \cup itemsIn(Tail(ahead))
    BY <2>1, ItemsInTail DEF ExporterShape
  <2>3. itemsIn(Append(queue, Head(ahead))) = itemsIn(queue) \cup {theItem(Head(ahead))}
    BY <2>2, ItemsInAppend DEF ExporterShape
  <2>4. itemsIn(ahead) \cup itemsIn(queue) \cup lost \subseteq itemsIn(ahead') \cup itemsIn(queue') \cup lost'
    <3>1. CASE queue' = Append(queue, Head(ahead)) /\ ahead' = Tail(ahead) /\ UNCHANGED lost
      BY <2>2, <2>3, <3>1
    <3>2. CASE lost' = lost \cup itemsIn(ahead) /\ UNCHANGED queue
      BY <3>2
    <3> QED BY <1>7, <3>1, <3>2 DEF HandOn
  <2>5. itemsIn(ahead)' = itemsIn(ahead') /\ itemsIn(queue)' = itemsIn(queue')
    BY DEF itemsIn, itemsOf
  <2> QED BY <1>1, <1>3, <1>4, <2>1, <2>4, <2>5
<1>8. ASSUME NEW w \in Workers, TakeBatch(w) PROVE (given \subseteq Everywhere)'
  <2>1. /\ queue # <<>> /\ sending[w] = NoBatch
        /\ queue' = Tail(queue) /\ sending' = [sending EXCEPT ![w] = Head(queue)]
        /\ UNCHANGED <<given, ahead, lost>> /\ UNCHANGED serverVars
    BY <1>8 DEF TakeBatch
  <2>2. Head(queue) \in Single /\ itemsIn(queue) = {theItem(Head(queue))} \cup itemsIn(Tail(queue))
    BY <2>1, ItemsInTail DEF ExporterShape
  <2>3. Sent' = Sent \cup {theItem(Head(queue))}
    BY <2>1, <2>2, SentStarts, Zenon
  <2> QED BY <1>1, <1>3, <2>1, <2>2, <2>3
<1>9. ASSUME NEW w \in Workers, Publish(w) PROVE (given \subseteq Everywhere)'
  <2>1. /\ sending[w] # NoBatch /\ sending' = [sending EXCEPT ![w] = NoBatch]
        /\ Store(messageOf(sending[w]))
        /\ UNCHANGED <<given, ahead, queue, lost>>
    BY <1>9 DEF Publish
  <2>2. Sent = Sent' \cup {theItem(sending[w])}
    BY <2>1, SentEnds, Zenon
  <2>3. Waiting' = Waiting \cup {theItem(sending[w])}
    BY <1>5, <2>1, WaitingGrows
  <2> QED BY <1>1, <2>1, <2>2, <2>3
<1>10. ASSUME NEW w \in Workers, PublishFails(w) PROVE (given \subseteq Everywhere)'
  <2>1. UNCHANGED <<given, ahead, queue, sending, lost>> /\ sending[w] # NoBatch
    BY <1>10 DEF PublishFails, exporterVars
  <2>2. Waiting \subseteq Waiting'
    BY <1>3, <1>5, <1>10, WaitingGrows DEF PublishFails
  <2> QED BY <1>1, <1>4, <2>1, <2>2
<1>11. ASSUME NEW w \in Workers, PublishVanishes(w) \/ GiveUp(w) PROVE (given \subseteq Everywhere)'
  <2>1. /\ sending[w] # NoBatch /\ sending' = [sending EXCEPT ![w] = NoBatch]
        /\ lost' = lost \cup ToSet(itemsOf(sending[w]))
        /\ UNCHANGED <<given, ahead, queue>> /\ UNCHANGED serverVars
    BY <1>11 DEF PublishVanishes, GiveUp
  <2>2. Sent = Sent' \cup {theItem(sending[w])}
    BY <2>1, SentEnds, Zenon
  <2> QED BY <1>1, <1>3, <1>5, <2>1, <2>2
<1>12. ASSUME CrashExporter PROVE (given \subseteq Everywhere)'
  <2>1. Sent \subseteq UNION {ToSet(itemsOf(sending[w])) : w \in {v \in Workers : sending[v] # NoBatch}}
    BY <1>5, Zenon DEF Sent, Busy
  <2> QED BY <1>1, <1>3, <1>12, <2>1 DEF CrashExporter
<1>13. ASSUME NEW x \in Malformed, PublishMalformed(x) PROVE (given \subseteq Everywhere)'
  <2>1. [payload |-> x, subject |-> DefaultSubject] \in Message
    BY ExporterAssumption DEF Message
  <2>2. Waiting \subseteq Waiting'
    BY <1>13, <2>1, WaitingGrows DEF PublishMalformed
  <2> QED BY <1>1, <1>4, <1>13, <2>2 DEF PublishMalformed, exporterVars
<1> HIDE DEF Everywhere, Upstream
<1> QED BY <1>6, <1>7, <1>8, <1>9, <1>10, <1>11, <1>12, <1>13, Zenon DEF ExporterNext, ExporterStep

\* A step of the receiver keeps every item somewhere: an acknowledged one is
\* with the sink or was lost there.
LEMMA ReceiverKeeps ==
    ASSUME ReceiverShape, AckIsSafe, given \subseteq Items, given \subseteq Everywhere,
           ReceiverNext, UNCHANGED exporterVars
    PROVE  (given \subseteq Everywhere)'
<1>1. UNCHANGED <<given, lost>> /\ Upstream' = Upstream
  BY DEF exporterVars, Upstream, Sent, Busy
<1> DEFINE Safe == memory \cup table \cup dropped
<1>2. ASSUME UNCHANGED stream, Safe \subseteq Safe', NEW gone, Unretired \subseteq Unretired' \cup gone,
             \A i \in gone : payloadOf(i) \in Items => payloadOf(i) \in Safe'
      PROVE  (given \subseteq Everywhere)'
  <2>1. Waiting' = {payloadOf(i) : i \in Unretired'}
    BY <1>2 DEF Waiting, payloadOf
  <2>2. \A x \in Waiting : x \in Items => x \in Waiting' \cup Safe'
    BY <1>2, <2>1, Zenon DEF Waiting
  <2> QED BY <1>1, <1>2, <2>2 DEF Everywhere
<1>3. ASSUME UNCHANGED <<stream, Unretired>>, Safe \subseteq Safe' PROVE (given \subseteq Everywhere)'
  <2> DEFINE gone == {}
  <2>1. Unretired \subseteq Unretired' \cup gone /\ \A i \in gone : payloadOf(i) \in Safe'
    BY <1>3
  <2> HIDE DEF gone
  <2> QED BY <1>2, <1>3, <2>1
<1>4. ASSUME UNCHANGED stream, Safe \subseteq Safe', NEW k, Unretired \subseteq Unretired' \cup {k},
             payloadOf(k) \in Items => payloadOf(k) \in Safe'
      PROVE  (given \subseteq Everywhere)'
  <2> DEFINE gone == {k}
  <2>1. /\ Unretired \subseteq Unretired' \cup gone
        /\ \A i \in gone : payloadOf(i) \in Items => payloadOf(i) \in Safe'
    BY <1>4
  <2> HIDE DEF gone
  <2> QED BY <1>2, <1>4, <2>1
<1>5. ASSUME Start PROVE (given \subseteq Everywhere)'
  BY <1>3, <1>5 DEF Start, receiverVars, Unretired, Held
<1>6. ASSUME NEW i \in pending, SendMessage(i), UNCHANGED receiverVars PROVE (given \subseteq Everywhere)'
  BY <1>3, <1>6 DEF SendMessage, receiverVars, Unretired
<1>7. ASSUME CallHandler PROVE (given \subseteq Everywhere)'
  <2>1. ToSet(buffer) = {Head(buffer)} \cup ToSet(Tail(buffer))
    BY <1>7, HeadTailSet DEF CallHandler, ReceiverShape
  <2>2. handling' # NoCall /\ handling'.id = Head(buffer)
    BY <1>7 DEF CallHandler, NoCall
  <2>3. Held' = Held
    BY <1>7, <2>1, <2>2 DEF CallHandler, Held
  <2> QED BY <1>3, <1>7, <2>3 DEF CallHandler, Unretired
<1>8. ASSUME handling.step = "deliver", UNCHANGED serverVars
      PROVE  Unretired \subseteq Unretired' \cup {handling.id}
  BY <1>8 DEF serverVars, Unretired, Held
<1>9. ASSUME DeliverMalformed PROVE (given \subseteq Everywhere)'
  <2>1. UNCHANGED <<stream, memory, table, dropped>> /\ Unretired \subseteq Unretired' \cup {handling.id}
    BY <1>8, <1>9 DEF DeliverMalformed, serverVars
  <2>2. payloadOf(handling.id) \notin Items
    BY <1>9, ServerAssumption DEF DeliverMalformed
  <2> QED BY <1>4, <2>1, <2>2
<1>10. ASSUME DeliverAccepted PROVE (given \subseteq Everywhere)'
  <2>1. UNCHANGED <<stream, table, dropped>> /\ Unretired \subseteq Unretired' \cup {handling.id}
    BY <1>8, <1>10 DEF DeliverAccepted, serverVars
  <2>2. memory' = memory \cup {payloadOf(handling.id)}
    BY <1>10 DEF DeliverAccepted
  <2> QED BY <1>4, <2>1, <2>2
<1>11. ASSUME DeliverRefused PROVE (given \subseteq Everywhere)'
  <2>1. UNCHANGED <<receiverMode, stream, pending, memory, table>>
    BY <1>11 DEF DeliverRefused, serverVars
  <2>2. CASE receiverMode = "core"
    <3>1. Unretired \subseteq Unretired' \cup {handling.id}
      BY <1>8, <1>11 DEF DeliverRefused
    <3>2. dropped' = dropped \cup {payloadOf(handling.id)}
      BY <1>11, <2>2 DEF DeliverRefused
    <3> QED BY <1>4, <2>1, <3>1, <3>2
  <2>3. CASE receiverMode # "core"
    BY <1>3, <1>11, <2>1, <2>3 DEF DeliverRefused, Unretired
  <2> QED BY <2>2, <2>3
<1>12. ASSUME NEW i \in inflight, AckWait(i) PROVE (given \subseteq Everywhere)'
  BY <1>3, <1>12 DEF AckWait, GiveBack, receiverVars, Unretired, Held
<1>13. ASSUME receiverMode = "core" PROVE \A i \in ToSet(buffer) : payloadOf(i) \in Items => payloadOf(i) \in Unanswered
  BY <1>13, Zenon DEF Unanswered, ToSet
<1>14. ASSUME Shutdown PROVE (given \subseteq Everywhere)'
  <2>1. /\ UNCHANGED <<receiverMode, stream, pending, unheard, handling, memory, table>>
        /\ dropped' = dropped \cup Unanswered
    BY <1>14 DEF Shutdown, Disconnect
  <2>2. CASE receiverMode = "core"
    <3>1. Unretired \subseteq Unretired' \cup ToSet(buffer)
      BY <2>1, <2>2 DEF Unretired, Held
    <3> QED BY <1>2, <1>13, <2>1, <2>2, <3>1
  <2>3. CASE receiverMode # "core"
    BY <1>3, <2>1, <2>3 DEF Unretired
  <2> QED BY <2>2, <2>3
<1>15. ASSUME CrashReceiver PROVE (given \subseteq Everywhere)'
  <2>1. /\ UNCHANGED <<receiverMode, stream, pending, unheard, table>>
        /\ memory \subseteq dropped' /\ dropped \subseteq dropped' /\ Unanswered \subseteq dropped'
    BY <1>15 DEF CrashReceiver, Disconnect
  <2>2. CASE receiverMode = "core"
    <3>1. Unretired \subseteq Unretired' \cup Held
      BY <2>1, <2>2 DEF Unretired
    <3>2. handling # NoCall /\ payloadOf(handling.id) \in Items => payloadOf(handling.id) \in dropped'
      BY <1>15, <2>2 DEF CrashReceiver
    <3>3. ASSUME NEW i \in Held, payloadOf(i) \in Items PROVE payloadOf(i) \in dropped'
      BY <1>13, <2>1, <2>2, <3>2, <3>3, Zenon DEF Held
    <3> QED BY <1>2, <2>1, <3>1, <3>3
  <2>3. CASE receiverMode # "core"
    BY <1>3, <2>1, <2>3 DEF Unretired
  <2> QED BY <2>2, <2>3
<1>16. ASSUME Insert \/ InsertGivesUp PROVE (given \subseteq Everywhere)'
  <2>1. UNCHANGED serverVars /\ UNCHANGED handling /\ Safe \subseteq Safe'
    BY <1>16 DEF Insert, InsertGivesUp
  <2> QED BY <1>3, <2>1 DEF serverVars, Unretired, Held
<1>17. ASSUME AnswerLost PROVE (given \subseteq Everywhere)'
  <2>1. UNCHANGED <<receiverMode, stream, pending, memory, table, dropped>> /\ receiverMode # "core"
    BY <1>17 DEF AnswerLost, serverVars, ReceiverShape
  <2> QED BY <1>3, <2>1 DEF Unretired
<1>18. ASSUME Answer PROVE (given \subseteq Everywhere)'
  <2>1. UNCHANGED <<receiverMode, stream, memory, table, dropped>> /\ receiverMode # "core"
    BY <1>18 DEF Answer, Acknowledge, GiveBack, ReceiverShape
  <2>2. CASE GiveBack(handling.id)
    BY <1>3, <2>1, <2>2 DEF GiveBack, Unretired
  <2>3. CASE handling.step = "ack" /\ Acknowledge(handling.id)
    <3>1. Unretired \subseteq Unretired' \cup {handling.id}
      BY <2>1, <2>3 DEF Acknowledge, Unretired
    <3>2. payloadOf(handling.id) \in Malformed \cup Safe
      BY <2>3 DEF AckIsSafe
    <3> QED BY <1>4, <2>1, <3>1, <3>2, ServerAssumption
  <2> QED BY <1>18, <2>2, <2>3 DEF Answer
<1> HIDE DEF Safe
<1> QED BY <1>5, <1>6, <1>7, <1>9, <1>10, <1>11, <1>12, <1>14, <1>15, <1>16, <1>17, <1>18, Zenon
        DEF ReceiverNext, ReceiverStep

\* What is about to be acknowledged stays safe until the ack is sent.
LEMMA AckStep ==
    ASSUME ExporterShape, ReceiverShape, AckIsSafe, [Next]_vars
    PROVE  AckIsSafe'
<1> DEFINE Safe == Malformed \cup memory \cup table \cup dropped
<1>1. handling.step = "ack" => handling.id \in DOMAIN stream
  BY DEF ReceiverShape, Calls, NoCall
<1>2. NoCall.step = "none"
  BY DEF NoCall
<1>3. ASSUME NEW msg \in Message, Store(msg), UNCHANGED receiverVars PROVE AckIsSafe'
  <2>1. \A i \in DOMAIN stream : payloadOf(i)' = payloadOf(i)
    BY <1>3, StoreAppends
  <2> QED BY <1>1, <1>3, <2>1 DEF AckIsSafe, receiverVars
<1>4. ASSUME UNCHANGED <<stream, handling>>, Safe \subseteq Safe' PROVE AckIsSafe'
  BY <1>4 DEF AckIsSafe, payloadOf
<1>5. ASSUME handling'.step # "ack" PROVE AckIsSafe'
  BY <1>5 DEF AckIsSafe
<1>6. ASSUME Start PROVE AckIsSafe'
  BY <1>4, <1>6 DEF Start, receiverVars
<1>7. ASSUME NEW i \in pending, SendMessage(i), UNCHANGED receiverVars PROVE AckIsSafe'
  BY <1>4, <1>7 DEF SendMessage, receiverVars
<1>8. ASSUME CallHandler PROVE AckIsSafe'
  BY <1>5, <1>8 DEF CallHandler
<1>9. ASSUME DeliverMalformed PROVE AckIsSafe'
  <2>1. handling'.step = "ack" => handling'.id = handling.id
    BY <1>2, <1>9 DEF DeliverMalformed, AnswerWith, ReceiverShape, Calls
  <2> QED BY <1>9, <2>1 DEF DeliverMalformed, AckIsSafe, payloadOf, serverVars
<1>10. ASSUME DeliverAccepted PROVE AckIsSafe'
  <2>1. handling'.step = "ack" => handling'.id = handling.id
    BY <1>2, <1>10 DEF DeliverAccepted, AnswerWith, ReceiverShape, Calls
  <2> QED BY <1>10, <2>1 DEF DeliverAccepted, AckIsSafe, payloadOf, serverVars
<1>11. ASSUME DeliverRefused PROVE AckIsSafe'
  <2>1. handling'.step # "ack"
    BY <1>2, <1>11 DEF DeliverRefused, AnswerWith, ReceiverShape, Calls
  <2> QED BY <1>5, <2>1
<1>12. ASSUME Answer \/ AnswerLost \/ CrashReceiver PROVE AckIsSafe'
  BY <1>2, <1>5, <1>12 DEF Answer, AnswerLost, CrashReceiver
<1>13. ASSUME NEW i \in inflight, AckWait(i) PROVE AckIsSafe'
  BY <1>4, <1>13 DEF AckWait, GiveBack, receiverVars
<1>14. ASSUME Shutdown PROVE AckIsSafe'
  BY <1>4, <1>14 DEF Shutdown, Disconnect
<1>15. ASSUME Insert \/ InsertGivesUp PROVE AckIsSafe'
  BY <1>4, <1>15 DEF Insert, InsertGivesUp, serverVars
<1>16. CASE ExporterNext /\ UNCHANGED receiverVars
  <2>1. UNCHANGED serverVars => AckIsSafe'
    BY <1>4, <1>16 DEF serverVars, receiverVars
  <2> QED BY <1>3, <1>16, <2>1, ExporterStores, Zenon
<1>17. CASE ReceiverNext
  BY <1>6, <1>7, <1>8, <1>9, <1>10, <1>11, <1>12, <1>13, <1>14, <1>15, <1>17, Zenon
     DEF ReceiverNext, ReceiverStep
<1>18. CASE UNCHANGED vars
  BY <1>4, <1>18 DEF vars, serverVars, receiverVars
<1> QED BY <1>16, <1>17, <1>18 DEF Next
-----------------------------------------------------------------------------
(***************************************************************************)
(* Nothing is accepted twice while nothing fails.                          *)
(***************************************************************************)

\* A tail repeats no item and does not hold the one of the head.
LEMMA DifferInTail ==
    ASSUME NEW s \in Seq(Single), s # <<>>, ItemsDiffer(s)
    PROVE  ItemsDiffer(Tail(s)) /\ theItem(Head(s)) \notin itemsIn(Tail(s))
<1>1. Tail(s) \in Seq(Single)
  OBVIOUS
<1>2. /\ 1 \in DOMAIN s /\ s[1] = Head(s)
      /\ \A i \in DOMAIN Tail(s) : i \in Nat \ {0} /\ i + 1 \in DOMAIN s /\ Tail(s)[i] = s[i + 1]
  OBVIOUS
<1>3. ASSUME NEW a \in DOMAIN Tail(s), NEW b \in DOMAIN Tail(s), theItem(Tail(s)[a]) = theItem(Tail(s)[b])
      PROVE  a = b
  <2>1. a + 1 = b + 1
    BY <1>2, <1>3, Zenon DEF ItemsDiffer
  <2> QED BY <1>2, <2>1
<1>4. ASSUME NEW a \in DOMAIN Tail(s), theItem(Head(s)) = theItem(Tail(s)[a]) PROVE FALSE
  <2>1. 1 = a + 1
    BY <1>2, <1>4, Zenon DEF ItemsDiffer
  <2> QED BY <1>2, <2>1
<1> QED BY <1>1, <1>3, <1>4, ItemsInSingles, Zenon DEF ItemsDiffer

\* A new item at the end repeats none.
LEMMA DifferInAppend ==
    ASSUME NEW s \in Seq(Single), NEW b \in Single, ItemsDiffer(s), theItem(b) \notin itemsIn(s)
    PROVE  ItemsDiffer(Append(s, b))
<1>1. /\ DOMAIN Append(s, b) = DOMAIN s \cup {Len(s) + 1}
      /\ Append(s, b)[Len(s) + 1] = b
      /\ \A i \in DOMAIN s : Append(s, b)[i] = s[i]
  OBVIOUS
<1>2. \A a \in DOMAIN s : theItem(s[a]) # theItem(b)
  BY ItemsInSingles, Zenon
<1> SUFFICES ASSUME NEW c \in DOMAIN Append(s, b), NEW d \in DOMAIN Append(s, b),
                    theItem(Append(s, b)[c]) = theItem(Append(s, b)[d])
             PROVE  c = d
  BY Zenon DEF ItemsDiffer
<1>3. CASE c \in DOMAIN s /\ d \in DOMAIN s
  BY <1>1, <1>3, Zenon DEF ItemsDiffer
<1>4. CASE c \in DOMAIN s /\ d = Len(s) + 1
  BY <1>1, <1>2, <1>4, Zenon
<1>5. CASE c = Len(s) + 1 /\ d \in DOMAIN s
  BY <1>1, <1>2, <1>5, Zenon
<1> QED BY <1>1, <1>3, <1>4, <1>5, Zenon

\* Failures are only counted up, and a step that is no failure does not count.
LEMMA FaultsCount ==
    ASSUME faults \in Nat, [Next]_vars
    PROVE  faults' \in Nat /\ (faults' = 0 => faults = 0 /\ ~Fault)
<1>1. Fault \/ UNCHANGED faults
  <2>1. CASE ExporterNext
    BY <2>1, Zenon DEF ExporterNext, ExporterStep, Consume, HandOn, TakeBatch, Publish, PublishFails,
                PublishVanishes, GiveUp, CrashExporter, PublishMalformed
  <2>2. CASE ReceiverNext
    BY <2>2 DEF ReceiverNext, ReceiverStep, Start, CallHandler, DeliverMalformed, DeliverAccepted,
                DeliverRefused, Answer, AnswerLost, AckWait, Shutdown, CrashReceiver, Insert,
                InsertGivesUp
  <2>3. CASE UNCHANGED vars
    BY <2>3 DEF vars
  <2> QED BY <2>1, <2>2, <2>3 DEF Next
<1> QED BY <1>1 DEF Fault

\* The published payloads, after a message is stored and otherwise.
LEMMA PublishedGrows ==
    ASSUME ReceiverShape, NEW msg \in Message, Store(msg), msg.payload \notin Published,
           \A i, j \in DOMAIN stream : payloadOf(i) = payloadOf(j) => i = j
    PROVE  /\ Published' = Published \cup {msg.payload}
           /\ (\A i, j \in DOMAIN stream : payloadOf(i) = payloadOf(j) => i = j)'
<1> DEFINE n == Len(stream) + 1
<1>1. /\ DOMAIN stream' = DOMAIN stream \cup {n}
      /\ \A i \in DOMAIN stream : payloadOf(i)' = payloadOf(i)
      /\ stream'[n].payload = msg.payload
  BY StoreAppends, Zenon
<1>2. \A i \in DOMAIN stream : stream'[i].payload = stream[i].payload
  BY <1>1 DEF payloadOf
<1>3. Published = {stream[i].payload : i \in DOMAIN stream}
  BY DEF Published, payloadOf
<1>4. Published' = {stream'[i].payload : i \in DOMAIN stream \cup {n}}
  BY <1>1 DEF Published, payloadOf
<1> HIDE DEF n
<1>5. Published' = Published \cup {msg.payload}
  <2>1. stream'[n].payload = msg.payload
    BY <1>1
  <2> QED BY <1>2, <1>3, <1>4, <2>1, Zenon
<1>6. \A i \in DOMAIN stream : stream[i].payload # msg.payload
  BY <1>3, Zenon
<1>7. \A i, j \in DOMAIN stream : stream[i].payload = stream[j].payload => i = j
  BY DEF payloadOf
<1>8. ASSUME NEW i \in DOMAIN stream', NEW j \in DOMAIN stream', stream'[i].payload = stream'[j].payload
      PROVE  i = j
  <2>1. CASE i \in DOMAIN stream /\ j \in DOMAIN stream
    BY <1>2, <1>7, <1>8, <2>1, Zenon
  <2>2. CASE i \in DOMAIN stream /\ j = n
    BY <1>1, <1>2, <1>6, <1>8, <2>2, Zenon
  <2>3. CASE i = n /\ j \in DOMAIN stream
    BY <1>1, <1>2, <1>6, <1>8, <2>3, Zenon
  <2> QED BY <1>1, <2>1, <2>2, <2>3, Zenon
<1> QED BY <1>5, <1>8 DEF payloadOf

\* A step that is no failure keeps every item in one place.
LEMMA OnePlaceStep ==
    ASSUME ExporterShape, ReceiverShape, faults \in Nat, OnePlace, [Next]_vars, faults' = 0
    PROVE  OnePlace'
<1>0. /\ itemsIn(ahead) \cap (itemsIn(queue) \cup Sent \cup Published) = {}
      /\ itemsIn(queue) \cap (Sent \cup Published) = {}
      /\ Sent \cap Published = {}
      /\ itemsIn(ahead) \cup itemsIn(queue) \cup Sent \subseteq given
      /\ Published \subseteq given \cup Malformed
  BY DEF OnePlace
<1>1. ~Fault
  BY FaultsCount
<1>2. ASSUME UNCHANGED stream
      PROVE  /\ Published' = Published
             /\ (\A i, j \in DOMAIN stream : payloadOf(i) = payloadOf(j) => i = j)'
  BY <1>2 DEF OnePlace, Published, payloadOf
<1>3. ASSUME UNCHANGED sending
      PROVE  /\ Sent' = Sent
             /\ (\A v, w \in Busy : theItem(sending[v]) = theItem(sending[w]) => v = w)'
  <2>1. Busy' = Busy
    BY <1>3 DEF Busy
  <2> QED BY <1>3, <2>1 DEF OnePlace, Sent
<1>4. itemsIn(<<>>) = {} /\ ItemsDiffer(<<>>)
  BY DEF itemsIn, ItemsDiffer
<1>5. ASSUME NEW ld \in Batches, Consume(ld) PROVE OnePlace'
  <2>1. ld \in Batch /\ Distinct(ld)
    BY ExporterAssumption
  <2>2. itemsIn(splitLogs(ld)) = ToSet(itemsOf(ld)) /\ ItemsDiffer(splitLogs(ld))
    BY <2>1, SplitIsExact DEF ItemsDiffer
  <2>3. ToSet(itemsOf(ld)) \subseteq Items
    BY <2>1, ItemsOfBatch DEF ToSet
  <2>4. /\ given \cap ToSet(itemsOf(ld)) = {}
        /\ given' = given \cup ToSet(itemsOf(ld)) /\ ahead' = splitLogs(ld)
        /\ UNCHANGED <<queue, sending, stream>>
    BY <1>5 DEF Consume, serverVars
  <2>5. ToSet(itemsOf(ld)) \cap (itemsIn(queue) \cup Sent \cup Published) = {}
    BY <2>3, <2>4, ServerAssumption DEF OnePlace
  <2> QED BY <1>2, <1>3, <2>2, <2>4, <2>5 DEF OnePlace
<1>6. ASSUME HandOn PROVE OnePlace'
  <2>1. ahead # <<>> /\ UNCHANGED <<given, sending, stream>>
    BY <1>6 DEF HandOn, serverVars
  <2>2. /\ Head(ahead) \in Single
        /\ itemsIn(ahead) = {theItem(Head(ahead))} \cup itemsIn(Tail(ahead))
        /\ ItemsDiffer(Tail(ahead)) /\ theItem(Head(ahead)) \notin itemsIn(Tail(ahead))
    BY <2>1, ItemsInTail, DifferInTail DEF ExporterShape, OnePlace
  <2>3. theItem(Head(ahead)) \notin itemsIn(queue) \cup Sent \cup Published
    BY <2>2 DEF OnePlace
  <2>4. CASE queue' = Append(queue, Head(ahead)) /\ ahead' = Tail(ahead)
    <3>1. /\ itemsIn(Append(queue, Head(ahead))) = itemsIn(queue) \cup {theItem(Head(ahead))}
          /\ ItemsDiffer(Append(queue, Head(ahead)))
      BY <2>2, <2>3, ItemsInAppend, DifferInAppend DEF ExporterShape, OnePlace
    <3>2. /\ itemsIn(ahead') = itemsIn(Tail(ahead)) /\ ItemsDiffer(ahead')
          /\ itemsIn(queue') = itemsIn(queue) \cup {theItem(Head(ahead))} /\ ItemsDiffer(queue')
      BY <2>2, <2>4, <3>1
    <3>3. Sent' = Sent /\ Published' = Published /\ given' = given
      BY <1>2, <1>3, <2>1
    <3>4. itemsIn(ahead') \cap (itemsIn(queue') \cup Sent' \cup Published') = {}
      BY <1>0, <2>2, <3>2, <3>3
    <3>5. itemsIn(queue') \cap (Sent' \cup Published') = {} /\ Sent' \cap Published' = {}
      BY <1>0, <2>3, <3>2, <3>3
    <3>6. /\ itemsIn(ahead') \cup itemsIn(queue') \cup Sent' \subseteq given'
          /\ Published' \subseteq given' \cup Malformed
      BY <1>0, <2>2, <3>2, <3>3
    <3> QED BY <1>2, <1>3, <2>1, <3>2, <3>4, <3>5, <3>6 DEF OnePlace
  <2>5. CASE UNCHANGED queue /\ ahead' = <<>>
    BY <1>2, <1>3, <1>4, <2>1, <2>5 DEF OnePlace
  <2> QED BY <1>6, <2>4, <2>5 DEF HandOn
<1>7. ASSUME NEW w \in Workers, TakeBatch(w) PROVE OnePlace'
  <2>1. /\ queue # <<>> /\ sending[w] = NoBatch
        /\ queue' = Tail(queue) /\ sending' = [sending EXCEPT ![w] = Head(queue)]
        /\ UNCHANGED <<given, ahead, stream>>
    BY <1>7 DEF TakeBatch, serverVars
  <2>2. /\ Head(queue) \in Single
        /\ itemsIn(queue) = {theItem(Head(queue))} \cup itemsIn(Tail(queue))
        /\ ItemsDiffer(Tail(queue)) /\ theItem(Head(queue)) \notin itemsIn(Tail(queue))
    BY <2>1, ItemsInTail, DifferInTail DEF ExporterShape, OnePlace
  <2>3. Sent' = Sent \cup {theItem(Head(queue))} /\ Busy' = Busy \cup {w}
    BY <2>1, <2>2, SentStarts, Zenon
  <2>4. theItem(Head(queue)) \notin Sent \cup Published \cup itemsIn(ahead)
    BY <2>2 DEF OnePlace
  <2>5. (\A u, v \in Busy : theItem(sending[u]) = theItem(sending[v]) => u = v)'
    <3>1. sending'[w] = Head(queue) /\ \A v \in Busy : v # w /\ sending'[v] = sending[v]
      BY <2>1 DEF Busy, ExporterShape
    <3>2. \A v \in Busy : theItem(sending[v]) # theItem(Head(queue))
      BY <2>4, Zenon DEF Sent
    <3>3. \A u, v \in Busy : theItem(sending[u]) = theItem(sending[v]) => u = v
      BY DEF OnePlace
    <3>4. ASSUME NEW u \in Busy \cup {w}, NEW v \in Busy \cup {w},
                 theItem(sending'[u]) = theItem(sending'[v])
          PROVE  u = v
      BY <3>1, <3>2, <3>3, <3>4, Zenon
    <3> QED BY <2>3, <3>4, Zenon
  <2>6. /\ itemsIn(ahead) \cap (itemsIn(Tail(queue)) \cup Sent' \cup Published) = {}
        /\ itemsIn(Tail(queue)) \cap (Sent' \cup Published) = {}
        /\ Sent' \cap Published = {}
        /\ itemsIn(ahead) \cup itemsIn(Tail(queue)) \cup Sent' \subseteq given
    BY <2>2, <2>3, <2>4 DEF OnePlace
  <2>7. /\ ahead' = ahead /\ queue' = Tail(queue) /\ given' = given /\ Published' = Published
        /\ (\A i, j \in DOMAIN stream : payloadOf(i) = payloadOf(j) => i = j)'
    BY <1>2, <2>1
  <2>8. ItemsDiffer(ahead) /\ Published \subseteq given \cup Malformed
    BY DEF OnePlace
  <2> QED BY <2>2, <2>5, <2>6, <2>7, <2>8, Zenon DEF OnePlace
<1>8. ASSUME NEW w \in Workers, Publish(w) PROVE OnePlace'
  <2>1. /\ sending[w] # NoBatch /\ sending' = [sending EXCEPT ![w] = NoBatch]
        /\ Store(messageOf(sending[w])) /\ UNCHANGED <<given, ahead, queue>>
    BY <1>8 DEF Publish
  <2>2. messageOf(sending[w]) \in Message /\ messageOf(sending[w]).payload = theItem(sending[w])
    BY <2>1, MessageOfSingle DEF ExporterShape
  <2>3. /\ Busy' = Busy \ {w} /\ Sent = Sent' \cup {theItem(sending[w])}
        /\ \A v \in Busy' : sending'[v] = sending[v]
    BY <2>1, SentEnds, Zenon
  <2>4. theItem(sending[w]) \in Sent
    BY <2>3
  <2>5. theItem(sending[w]) \notin Published \cup itemsIn(ahead) \cup itemsIn(queue)
    BY <2>4 DEF OnePlace
  <2>6. /\ Published' = Published \cup {theItem(sending[w])}
        /\ (\A i, j \in DOMAIN stream : payloadOf(i) = payloadOf(j) => i = j)'
    BY <2>1, <2>2, <2>5, PublishedGrows DEF OnePlace
  <2>7. \A u, v \in Busy : theItem(sending[u]) = theItem(sending[v]) => u = v
    BY DEF OnePlace
  <2>8. theItem(sending[w]) \notin Sent'
    <3>1. w \in Busy
      BY <2>1 DEF Busy
    <3>2. Sent' = {theItem(sending'[v]) : v \in Busy'}
      BY DEF Sent
    <3> QED BY <2>3, <2>7, <3>1, <3>2, Zenon
  <2>9. (\A u, v \in Busy : theItem(sending[u]) = theItem(sending[v]) => u = v)'
    <3>1. ASSUME NEW u \in Busy', NEW v \in Busy', theItem(sending'[u]) = theItem(sending'[v])
          PROVE  u = v
      BY <2>3, <2>7, <3>1, Zenon
    <3> QED BY <3>1, Zenon
  <2>10. /\ itemsIn(ahead) \cap (itemsIn(queue) \cup Sent' \cup Published') = {}
         /\ itemsIn(queue) \cap (Sent' \cup Published') = {}
         /\ Sent' \cap Published' = {}
         /\ itemsIn(ahead) \cup itemsIn(queue) \cup Sent' \subseteq given
         /\ Published' \subseteq given \cup Malformed
    <3>1. Sent' \subseteq Sent /\ Published' = Published \cup {theItem(sending[w])}
      BY <2>3, <2>6
    <3>2. itemsIn(ahead) \cap (itemsIn(queue) \cup Sent' \cup Published') = {}
      BY <1>0, <2>5, <3>1
    <3>3. itemsIn(queue) \cap (Sent' \cup Published') = {}
      BY <1>0, <2>5, <3>1
    <3>4. Sent' \cap Published' = {}
      BY <1>0, <2>8, <3>1
    <3>5. /\ itemsIn(ahead) \cup itemsIn(queue) \cup Sent' \subseteq given
          /\ Published' \subseteq given \cup Malformed
      BY <1>0, <2>4, <3>1
    <3> QED BY <3>2, <3>3, <3>4, <3>5
  <2>11. ItemsDiffer(ahead) /\ ItemsDiffer(queue)
    BY DEF OnePlace
  <2>12. ahead' = ahead /\ queue' = queue /\ given' = given
    BY <2>1
  <2> QED BY <2>6, <2>9, <2>10, <2>11, <2>12, Zenon DEF OnePlace
<1>9. ASSUME NEW x \in Malformed, PublishMalformed(x) PROVE OnePlace'
  <2>1. [payload |-> x, subject |-> DefaultSubject] \in Message
    BY ExporterAssumption DEF Message
  <2>2. x \notin Published
    BY <1>9, Zenon DEF PublishMalformed, Published, payloadOf
  <2>3. /\ Published' = Published \cup {x}
        /\ (\A i, j \in DOMAIN stream : payloadOf(i) = payloadOf(j) => i = j)'
    BY <1>9, <2>1, <2>2, PublishedGrows, Zenon DEF PublishMalformed, OnePlace
  <2>4. x \notin itemsIn(ahead) \cup itemsIn(queue) \cup Sent
    BY ServerAssumption DEF OnePlace, ExporterShape
  <2>5. UNCHANGED <<given, ahead, queue, sending>>
    BY <1>9 DEF PublishMalformed, exporterVars
  <2> QED BY <1>3, <2>3, <2>4, <2>5 DEF OnePlace
<1>10. ASSUME UNCHANGED <<given, ahead, queue, sending, stream>> PROVE OnePlace'
  BY <1>2, <1>3, <1>10 DEF OnePlace
<1>11. CASE ExporterNext
  <2>1. ASSUME NEW w \in Workers, PublishFails(w) \/ PublishVanishes(w) \/ GiveUp(w) PROVE FALSE
    BY <1>1, <2>1 DEF PublishFails, PublishVanishes, GiveUp
  <2>2. ~CrashExporter
    BY <1>1 DEF CrashExporter
  <2> QED BY <1>5, <1>6, <1>7, <1>8, <1>9, <1>11, <2>1, <2>2, Zenon DEF ExporterNext, ExporterStep
<1>12. CASE ReceiverNext /\ UNCHANGED exporterVars
  <2>1. UNCHANGED stream
    BY <1>12 DEF ReceiverNext, ReceiverStep, Start, SendMessage, CallHandler, DeliverMalformed,
                 DeliverAccepted, DeliverRefused, Answer, Acknowledge, AnswerLost, AckWait, GiveBack,
                 Shutdown, CrashReceiver, Disconnect, Insert, InsertGivesUp, serverVars
  <2> QED BY <1>10, <1>12, <2>1 DEF exporterVars
<1>13. CASE UNCHANGED vars
  BY <1>10, <1>13 DEF vars, exporterVars, serverVars
<1> QED BY <1>11, <1>12, <1>13 DEF Next

\* Sequences without repetitions, with one element more and with one less.
LEMMA AppendNoRepeat ==
    ASSUME NEW S, NEW a \in Seq(S), NEW x, IsInjective(a), x \notin ToSet(a)
    PROVE  IsInjective(Append(a, x))
<1>1. /\ DOMAIN Append(a, x) = DOMAIN a \cup {Len(a) + 1}
      /\ Append(a, x)[Len(a) + 1] = x
      /\ \A i \in DOMAIN a : Append(a, x)[i] = a[i]
  OBVIOUS
<1>2. \A i \in DOMAIN a : a[i] # x
  BY Zenon DEF ToSet
<1>3. \A i, j \in DOMAIN a : a[i] = a[j] => i = j
  BY Zenon DEF IsInjective
<1> SUFFICES ASSUME NEW c \in DOMAIN Append(a, x), NEW d \in DOMAIN Append(a, x),
                    Append(a, x)[c] = Append(a, x)[d]
             PROVE  c = d
  BY Zenon DEF IsInjective
<1>4. CASE c \in DOMAIN a /\ d \in DOMAIN a
  BY <1>1, <1>3, <1>4, Zenon
<1>5. CASE c \in DOMAIN a /\ d = Len(a) + 1
  BY <1>1, <1>2, <1>5, Zenon
<1>6. CASE c = Len(a) + 1 /\ d \in DOMAIN a
  BY <1>1, <1>2, <1>6, Zenon
<1>7. CASE c = Len(a) + 1 /\ d = Len(a) + 1
  BY <1>7
<1>8. (c \in DOMAIN a \/ c = Len(a) + 1) /\ (d \in DOMAIN a \/ d = Len(a) + 1)
  BY <1>1, Zenon
<1> QED BY <1>4, <1>5, <1>6, <1>7, <1>8, Zenon

\* A tail repeats nothing and does not hold the head.
LEMMA TailNoRepeat ==
    ASSUME NEW S, NEW a \in Seq(S), a # <<>>, IsInjective(a)
    PROVE  IsInjective(Tail(a)) /\ Head(a) \notin ToSet(Tail(a))
<1>1. /\ 1 \in DOMAIN a /\ a[1] = Head(a)
      /\ \A i \in DOMAIN Tail(a) : i \in Nat \ {0} /\ i + 1 \in DOMAIN a /\ Tail(a)[i] = a[i + 1]
  OBVIOUS
<1>2. ASSUME NEW i \in DOMAIN Tail(a), NEW j \in DOMAIN Tail(a), Tail(a)[i] = Tail(a)[j] PROVE i = j
  <2>1. i + 1 = j + 1
    BY <1>1, <1>2, Zenon DEF IsInjective
  <2> QED BY <1>1, <2>1
<1>3. ASSUME NEW i \in DOMAIN Tail(a), Head(a) = Tail(a)[i] PROVE FALSE
  <2>1. 1 = i + 1
    BY <1>1, <1>3, Zenon DEF IsInjective
  <2> QED BY <1>1, <2>1
<1> QED BY <1>2, <1>3, Zenon DEF IsInjective, ToSet

\* A step that is no failure hands out and delivers nothing twice.
LEMMA HeldOnceStep ==
    ASSUME ExporterShape, ReceiverShape, faults \in Nat, OnePlace, HeldOnce, [Next]_vars, faults' = 0
    PROVE  HeldOnce'
<1> DEFINE Copied == \A x \in Items : copies[x] <= 1 /\ (copies[x] = 1 => \E i \in accepted : payloadOf(i) = x)
<1>1. ~Fault
  BY FaultsCount
<1>2. NoCall.step = "none" /\ NoCall.id = 0
  BY DEF NoCall
<1>3. handling # NoCall => handling.id \in DOMAIN stream /\ handling.step \in {"deliver", "ack"}
  BY DEF ReceiverShape, Calls, HeldOnce
<1>4. ASSUME UNCHANGED <<stream, accepted, copies>> PROVE Copied'
  BY <1>4, Zenon DEF HeldOnce, payloadOf
<1>5. ASSUME UNCHANGED <<handling, buffer>> PROVE Held' = Held
  BY <1>5 DEF Held
<1>6. ASSUME NEW msg \in Message, Store(msg), UNCHANGED receiverVars PROVE HeldOnce'
  <2> DEFINE n == Len(stream) + 1
  <2>1. n \notin DOMAIN stream /\ \A i \in DOMAIN stream : payloadOf(i)' = payloadOf(i)
    BY <1>6, StoreAppends
  <2>2. Copied'
    <3>1. \A i \in accepted : payloadOf(i)' = payloadOf(i)
      BY <2>1 DEF ReceiverShape
    <3> QED BY <1>6, <3>1 DEF HeldOnce, receiverVars
  <2>3. UNCHANGED <<receiverMode, inflight, handling, accepted>>
    BY <1>6 DEF Store, receiverVars
  <2> HIDE DEF n, Copied
  <2>4. CASE receiverMode = "jetstream"
    <3>1. buffer' = buffer /\ pending' = pending \cup {n}
      BY <1>6, <2>4 DEF Store, n
    <3>2. n \notin accepted
      BY <2>1 DEF ReceiverShape
    <3> QED BY <1>5, <2>2, <2>3, <3>1, <3>2 DEF HeldOnce, Copied
  <2>5. CASE receiverMode # "jetstream" /\ buffer' = buffer
    BY <2>2, <2>3, <2>5 DEF HeldOnce, Copied
  <2>6. CASE receiverMode # "jetstream" /\ buffer' = Append(buffer, n)
    <3>1. buffer \in Seq(DOMAIN stream)
      BY DEF ReceiverShape
    <3>2. n \notin ToSet(buffer)
      BY <2>1, <3>1 DEF ToSet
    <3>3. ToSet(buffer') = ToSet(buffer) \cup {n}
      BY <2>6, <3>1, AppendSet
    <3>4. IsInjective(buffer')
      <4>1. IsInjective(buffer)
        BY DEF HeldOnce
      <4>2. IsInjective(Append(buffer, n))
        BY <3>1, <3>2, <4>1, AppendNoRepeat
      <4> QED BY <2>6, <4>2, Zenon
    <3>5. n \notin accepted /\ (handling # NoCall => handling.id # n)
      BY <1>3, <2>1 DEF ReceiverShape
    <3> QED BY <2>2, <2>3, <2>6, <3>3, <3>4, <3>5 DEF HeldOnce, Copied
  <2> QED BY <1>6, <2>4, <2>5, <2>6 DEF Store, n
<1>7. ASSUME UNCHANGED <<receiverMode, stream, pending, inflight, buffer, handling, accepted, copies>>
      PROVE  HeldOnce'
  BY <1>4, <1>5, <1>7 DEF HeldOnce
<1>8. ASSUME NEW i \in pending, SendMessage(i), UNCHANGED receiverVars PROVE HeldOnce'
  <2>1. /\ receiverMode = "jetstream" /\ i \in pending \ inflight
        /\ inflight' = inflight \cup {i} /\ buffer' = Append(buffer, i)
        /\ UNCHANGED <<receiverMode, stream, pending, handling, accepted, copies>>
    BY <1>8 DEF SendMessage, receiverVars
  <2>2. i \notin ToSet(buffer) /\ i \notin accepted /\ (handling # NoCall => handling.id # i)
    BY <2>1 DEF HeldOnce, Held
  <2>3. buffer \in Seq(DOMAIN stream)
    BY DEF ReceiverShape
  <2>4. ToSet(buffer') = ToSet(buffer) \cup {i}
    BY <2>1, <2>3, AppendSet
  <2>5. IsInjective(buffer')
    <3>1. IsInjective(buffer)
      BY DEF HeldOnce
    <3>2. IsInjective(Append(buffer, i))
      BY <2>2, <2>3, <3>1, AppendNoRepeat
    <3> QED BY <2>1, <3>2, Zenon
  <2>6. Held' = Held \cup {i}
    BY <2>1, <2>4 DEF Held
  <2> QED BY <1>4, <2>1, <2>2, <2>4, <2>5, <2>6 DEF HeldOnce
<1>9. ASSUME CallHandler PROVE HeldOnce'
  <2>1. /\ handling = NoCall /\ buffer # <<>>
        /\ handling' = [id |-> Head(buffer), step |-> "deliver"] /\ buffer' = Tail(buffer)
        /\ UNCHANGED <<receiverMode, stream, pending, inflight, accepted, copies>>
    BY <1>9 DEF CallHandler
  <2>2. buffer \in Seq(DOMAIN stream)
    BY DEF ReceiverShape
  <2>3. ToSet(buffer) = {Head(buffer)} \cup ToSet(Tail(buffer))
    BY <2>1, <2>2, HeadTailSet
  <2>4. IsInjective(Tail(buffer)) /\ Head(buffer) \notin ToSet(Tail(buffer))
    BY <2>1, <2>2, TailNoRepeat DEF HeldOnce
  <2>5. handling'.step = "deliver" /\ handling'.id = Head(buffer) /\ handling' # NoCall
    BY <1>2, <2>1
  <2>6. Held' = Held
    BY <2>1, <2>3, <2>5 DEF Held
  <2> QED BY <1>4, <2>1, <2>3, <2>4, <2>5, <2>6 DEF HeldOnce
<1>10. ASSUME handling.step = "deliver", AnswerWith("ack")
       PROVE  /\ handling # NoCall
              /\ receiverMode = "jetstream" => /\ handling' # NoCall
                                               /\ handling'.id = handling.id /\ handling'.step = "ack"
              /\ receiverMode # "jetstream" => handling' = NoCall
              /\ handling'.step \notin {"deliver", "nak"}
              /\ handling' # NoCall => handling'.id = handling.id
  <2>1. handling \in Calls /\ handling # NoCall
    BY <1>2, <1>10 DEF ReceiverShape
  <2>2. CASE receiverMode = "jetstream"
    BY <1>2, <1>10, <2>1, <2>2 DEF AnswerWith, Calls
  <2>3. CASE receiverMode # "jetstream"
    BY <1>2, <1>10, <2>1, <2>3 DEF AnswerWith
  <2> QED BY <2>1, <2>2, <2>3
<1>11. ASSUME DeliverMalformed PROVE HeldOnce'
  <2>1. /\ handling.step = "deliver" /\ AnswerWith("ack")
        /\ UNCHANGED <<receiverMode, stream, pending, inflight, buffer, accepted, copies>>
    BY <1>11 DEF DeliverMalformed, serverVars
  <2>2. receiverMode = "jetstream" => Held' = Held
    BY <1>10, <2>1 DEF Held
  <2> QED BY <1>4, <1>10, <2>1, <2>2 DEF HeldOnce
<1>12. ASSUME DeliverAccepted PROVE HeldOnce'
  <2> DEFINE y == payloadOf(handling.id)
  <2>1. /\ handling.step = "deliver" /\ AnswerWith("ack") /\ y \in Items
        /\ accepted' = accepted \cup {handling.id} /\ copies' = [copies EXCEPT ![y] = @ + 1]
        /\ UNCHANGED <<receiverMode, stream, pending, inflight, buffer>>
    BY <1>12 DEF DeliverAccepted, serverVars
  <2>2. handling # NoCall /\ handling.id \in DOMAIN stream /\ handling.id \notin accepted
    BY <1>3, <1>10, <2>1, Zenon DEF HeldOnce
  <2>3. \A i \in accepted : payloadOf(i) # y
    BY <2>2, Zenon DEF OnePlace, ReceiverShape
  <2> HIDE DEF y
  <2>4. copies[y] = 0
    <3>1. copies[y] \in Nat /\ copies[y] <= 1
      BY <2>1, Zenon DEF ReceiverShape, HeldOnce
    <3>2. copies[y] # 1
      BY <2>1, <2>3 DEF HeldOnce
    <3> QED BY <3>1, <3>2
  <2>5. copies'[y] = 1 /\ \A x \in Items \ {y} : copies'[x] = copies[x]
    BY <2>1, <2>4 DEF ReceiverShape
  <2>6. \A i \in accepted \cup {handling.id} : payloadOf(i)' = stream[i].payload
    BY <2>1 DEF payloadOf
  <2>7. Copied'
    <3>1. \E i \in accepted' : stream'[i].payload = y
      BY <2>1 DEF y, payloadOf
    <3>2. ASSUME NEW x \in Items \ {y}
          PROVE  copies'[x] <= 1 /\ (copies'[x] = 1 => \E i \in accepted' : stream'[i].payload = x)
      BY <2>1, <2>5 DEF HeldOnce, payloadOf
    <3> QED BY <2>5, <3>1, <3>2 DEF payloadOf
  <2>8. receiverMode = "jetstream" => Held' = Held
    BY <1>10, <2>1 DEF Held
  <2>9. receiverMode = "jetstream" => handling.id \in inflight
    BY <2>2 DEF HeldOnce, Held
  <2>10. handling.id \notin ToSet(buffer)
    BY <2>2 DEF HeldOnce
  <2> HIDE DEF Copied
  <2> QED BY <1>10, <2>1, <2>2, <2>7, <2>8, <2>9, <2>10 DEF HeldOnce, Copied
<1>13. ASSUME Answer PROVE HeldOnce'
  <2>1. /\ handling.step = "ack" /\ handling' = NoCall
        /\ pending' = pending \ {handling.id} /\ inflight' = inflight \ {handling.id}
        /\ UNCHANGED <<receiverMode, stream, buffer, accepted, copies>>
    BY <1>13 DEF Answer, Acknowledge, HeldOnce
  <2>2. handling # NoCall /\ handling.id \notin ToSet(buffer)
    BY <1>2, <2>1 DEF HeldOnce
  <2>3. Held = ToSet(buffer) \cup {handling.id} /\ Held' = ToSet(buffer)
    BY <2>1, <2>2 DEF Held
  <2> QED BY <1>2, <1>4, <2>1, <2>2, <2>3 DEF HeldOnce
<1>14. ASSUME NEW i \in inflight, AckWait(i) PROVE FALSE
  <2>1. ~Holds(i)
    BY <1>1, <1>14 DEF AckWait
  <2>2. receiverMode = "jetstream"
    BY <1>14, ServerAssumption DEF ReceiverShape
  <2>3. i \in Held
    BY <2>2 DEF HeldOnce
  <2> QED BY <2>1, <2>3 DEF Held, Holds, ToSet
<1>15. ASSUME Start PROVE HeldOnce'
  BY <1>7, <1>15 DEF Start, receiverVars
<1>16. ASSUME Insert PROVE HeldOnce'
  BY <1>7, <1>16 DEF Insert, serverVars
<1>17. ~(DeliverRefused \/ AnswerLost \/ Shutdown \/ CrashReceiver \/ InsertGivesUp)
  BY <1>1 DEF DeliverRefused, AnswerLost, Shutdown, CrashReceiver, InsertGivesUp
<1>18. CASE ExporterNext /\ UNCHANGED receiverVars
  <2>1. UNCHANGED serverVars => HeldOnce'
    BY <1>7, <1>18 DEF serverVars, receiverVars
  <2> QED BY <1>6, <1>18, <2>1, ExporterStores, Zenon
<1>19. CASE ReceiverNext
  BY <1>8, <1>9, <1>11, <1>12, <1>13, <1>14, <1>15, <1>16, <1>17, <1>19, Zenon
     DEF ReceiverNext, ReceiverStep
<1>20. CASE UNCHANGED vars
  BY <1>7, <1>20 DEF vars, serverVars, receiverVars
<1> QED BY <1>18, <1>19, <1>20 DEF Next
-----------------------------------------------------------------------------
(***************************************************************************)
(* The theorems.                                                           *)
(***************************************************************************)

\* The invariant holds when the pipeline starts.
LEMMA InitIsInvariant == Init => IInv
<1> SUFFICES ASSUME Init PROVE IInv
  OBVIOUS
<1> USE DEF Init, ServerInit, ExporterInit, ReceiverInit
<1>1. stream = <<>> /\ buffer = <<>> /\ ahead = <<>> /\ queue = <<>> /\ handling = NoCall
  OBVIOUS
<1>2. DOMAIN stream = {} /\ DOMAIN buffer = {} /\ DOMAIN ahead = {} /\ DOMAIN queue = {}
  BY <1>1
<1>3. NoCall.step = "none" /\ NoCall.id = 0
  BY DEF NoCall
<1>4. Busy = {} /\ Sent = {} /\ Published = {}
  BY <1>2, Zenon DEF Busy, Sent, Published
<1>5. itemsIn(ahead) = {} /\ itemsIn(queue) = {}
  BY <1>1 DEF itemsIn
<1>6. ExporterShape
  BY DEF ExporterShape
<1>7. ReceiverShape
  BY <1>3 DEF ReceiverShape
<1>8. NothingVanishes
  BY DEF NothingVanishes
<1>9. AckIsSafe
  BY <1>3 DEF AckIsSafe
<1>10. ToSet(buffer) = {}
  BY <1>2, Zenon DEF ToSet
<1>11. HeldIsWaiting
  BY <1>3, <1>10 DEF HeldIsWaiting
<1>12. OnePlace
  BY <1>2, <1>4, <1>5 DEF OnePlace, ItemsDiffer
<1>13. HeldOnce
  <2>1. IsInjective(buffer)
    BY <1>2, Zenon DEF IsInjective
  <2>2. Held = {}
    BY <1>10 DEF Held
  <2> QED BY <1>3, <1>10, <2>1, <2>2 DEF HeldOnce
<1> QED BY <1>6, <1>7, <1>8, <1>9, <1>11, <1>12, <1>13 DEF IInv, Orderly

\* What EverywhereIsAccounted says holds after a step too.
LEMMA EverywhereIsAccountedNext ==
    (ExporterShape /\ ReceiverShape => (NothingVanishes <=> given \subseteq Everywhere))'
BY EverywhereIsAccounted, PTL

\* No step of exporter, server or receiver breaks the invariant.
LEMMA StepKeepsInvariant == IInv /\ [Next]_vars => IInv'
<1> SUFFICES ASSUME IInv, [Next]_vars PROVE IInv'
  OBVIOUS
<1>1. ExporterShape /\ ReceiverShape /\ faults \in Nat /\ NothingVanishes /\ AckIsSafe /\ HeldIsWaiting
  BY DEF IInv
<1>2. ExporterShape'
  BY <1>1, ExporterShapeStep
<1>3. ReceiverShape'
  BY <1>1, ReceiverShapeStep
<1>4. AckIsSafe' /\ HeldIsWaiting'
  BY <1>1, AckStep, HeldStep
<1>5. faults' \in Nat /\ (faults' = 0 => faults = 0)
  BY <1>1, FaultsCount
<1>6. Orderly'
  <2>1. SUFFICES ASSUME faults' = 0 PROVE OnePlace' /\ HeldOnce'
    BY DEF Orderly
  <2>2. OnePlace /\ HeldOnce
    BY <1>5, <2>1 DEF IInv, Orderly
  <2> QED BY <1>1, <2>1, <2>2, OnePlaceStep, HeldOnceStep
<1>7. NothingVanishes'
  <2>1. given \subseteq Everywhere
    BY <1>1, EverywhereIsAccounted
  <2>2. given \subseteq Items
    BY <1>1 DEF ExporterShape
  <2>3. CASE ExporterNext /\ UNCHANGED receiverVars
    BY <1>1, <1>2, <1>3, <2>1, <2>3, ExporterKeeps, EverywhereIsAccountedNext
  <2>4. CASE ReceiverNext /\ UNCHANGED exporterVars
    BY <1>1, <1>2, <1>3, <2>1, <2>2, <2>4, ReceiverKeeps, EverywhereIsAccountedNext
  <2>5. CASE UNCHANGED vars
    BY <1>1, <2>5, Zenon DEF vars, serverVars, exporterVars, receiverVars, NothingVanishes, Accounted,
                      Holds, payloadOf
  <2> QED BY <2>3, <2>4, <2>5 DEF Next
<1> QED BY <1>2, <1>3, <1>4, <1>5, <1>6, <1>7 DEF IInv

\* The inductive invariant is an invariant.
LEMMA Invariance == Spec => []IInv
BY InitIsInvariant, StepKeepsInvariant, PTL DEF Spec

\* Whatever fails, an item that was given to the exporter is on its way, in
\* the table, or lost to a failure that the code accepts.
THEOREM ItemsAreAccounted == Spec => []NothingVanishes
<1>1. IInv => NothingVanishes
  BY DEF IInv
<1> QED BY <1>1, Invariance, PTL

\* While nothing fails the next consumer accepts no item twice.
THEOREM AcceptedOnce == Spec => []DuplicatesNeedFaults
<1>1. IInv => DuplicatesNeedFaults
  BY DEF IInv, Orderly, HeldOnce, DuplicatesNeedFaults
<1> QED BY <1>1, Invariance, PTL

\* The receiver with its durable consumer implements AtLeastOnce.
THEOREM AtLeastOnceDelivery == Spec => ReceiverIsAtLeastOnce
<1>1. Init => Queue!Init
  BY DEF Init, ServerInit, ReceiverInit, Queue!Init
<1>2. IInv /\ [Next]_vars => [Queue!Next]_(Queue!vars)
  BY QueueStep DEF IInv
<1> QED BY <1>1, <1>2, Invariance, PTL DEF Spec, ReceiverIsAtLeastOnce, Queue!Spec
=============================================================================
