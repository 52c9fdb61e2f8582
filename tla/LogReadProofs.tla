--------------------------- MODULE LogReadProofs ----------------------------
(***************************************************************************)
(* Proofs about reading logs.  Reading a window page by page (LogPages),   *)
(* for every set of lines, window, page size and tail, whatever arrives in *)
(* between: no line is passed on twice, none is skipped that the code does *)
(* not say it skips, and the API refuses only the one query that the code  *)
(* can make empty.  Following (LogFollow), for every number of lines, page *)
(* size, overlap and clock.                                                *)
(***************************************************************************)
EXTENDS LogPages, LogFollow, FiniteSetTheorems, SequenceTheorems, WellFoundedInduction, TLAPS

-----------------------------------------------------------------------------
(* Numbers.                                                                *)

\* The order of the naturals, as a relation.
Less == {ss \in Nat \X Nat : ss[1] < ss[2]}

\* A set of naturals that is not empty has a least element ...
LEMMA Least ==
    ASSUME NEW T \in SUBSET Nat, T # {}
    PROVE  \E x \in T : \A y \in T : x <= y
<1>1. IsWellFoundedOn(Less, Nat)
  BY NatLessThanWellFounded, Zenon DEF Less, OpToRel
<1>2. PICK x \in T : \A y \in T : ~(<<y, x>> \in Less)
  BY <1>1, WFMin, Zenon
<1>3. ASSUME NEW y \in T PROVE x <= y
  <2>1. x \in Nat /\ y \in Nat
    OBVIOUS
  <2>2. y < x => <<y, x>> \in Less
    BY <2>1 DEF Less
  <2>3. ~(y < x)
    BY <1>2, <2>2, Zenon
  <2> QED BY <2>1, <2>3
<1> QED BY <1>2, <1>3

\* ... and, if it is bounded, a greatest.
LEMMA Greatest ==
    ASSUME NEW T \in SUBSET Nat, T # {}, NEW b \in Nat, \A y \in T : y <= b
    PROVE  \E x \in T : \A y \in T : y <= x
<1> DEFINE U == {n \in Nat : b - n \in T}
<1>1. U # {}
  <2>1. PICK y \in T : TRUE
    BY Zenon
  <2>2. b - y \in Nat /\ b - (b - y) = y
    BY <2>1
  <2> QED BY <2>2, Zenon
<1>2. PICK x \in U : \A y \in U : x <= y
  BY <1>1, Least, Zenon
<1>3. ASSUME NEW y \in T PROVE y <= b - x
  <2>1. b - y \in Nat /\ b - (b - y) = y
    OBVIOUS
  <2>2. b - y \in U
    BY <2>1
  <2> QED BY <1>2, <2>2
<1> QED BY <1>2, <1>3

\* The instant at which a second begins.
StartOf(s) == s * Second

\* An instant lies between the beginnings of its second and of the next.
LEMMA SecondFacts ==
    ASSUME NEW t \in Nat
    PROVE  /\ Unix(t) \in Nat /\ Unix(t) <= t
           /\ StartOf(Unix(t)) <= t /\ t < StartOf(Unix(t) + 1)
BY EntriesAssumption DEF Unix, StartOf

\* Seconds begin in their order.
LEMMA SecondOrder ==
    ASSUME NEW a \in Nat, NEW b \in Nat
    PROVE  /\ StartOf(a) \in Nat
           /\ a <= b => StartOf(a) <= StartOf(b)
           /\ StartOf(a) < StartOf(b) => a < b
BY EntriesAssumption DEF StartOf

\* Comparing an instant with the beginning of a second compares the seconds.
LEMMA UnixBounds ==
    ASSUME NEW t \in Nat, NEW s \in Nat
    PROVE  /\ StartOf(s) <= t <=> s <= Unix(t)
           /\ t < StartOf(s) <=> Unix(t) < s
<1>1. /\ Unix(t) \in Nat /\ StartOf(Unix(t)) <= t /\ t < StartOf(Unix(t) + 1)
  BY SecondFacts
<1>2. /\ StartOf(s) \in Nat /\ StartOf(Unix(t)) \in Nat /\ StartOf(Unix(t) + 1) \in Nat
  BY <1>1, SecondOrder
<1>3. s <= Unix(t) => StartOf(s) <= StartOf(Unix(t))
  BY <1>1, SecondOrder
<1>4. StartOf(s) < StartOf(Unix(t) + 1) => s < Unix(t) + 1
  BY <1>1, SecondOrder
<1> QED
  BY <1>1, <1>2, <1>3, <1>4

\* Later instants are in later seconds, or in the same.
LEMMA UnixOrder ==
    ASSUME NEW t \in Nat, NEW u \in Nat, t <= u
    PROVE  Unix(t) <= Unix(u)
<1>1. Unix(t) \in Nat /\ StartOf(Unix(t)) <= t /\ StartOf(Unix(t)) \in Nat
  BY SecondFacts, SecondOrder
<1> QED
  BY <1>1, UnixBounds

-----------------------------------------------------------------------------
(* Sets of lines.                                                          *)

\* A set of lines has a size; a larger set has a larger one; the sizes of two
\* sets that have no line in common add up.
LEMMA Sizes ==
    ASSUME NEW S \in SUBSET Entries, NEW T \in SUBSET Entries
    PROVE  /\ IsFiniteSet(S) /\ Cardinality(S) \in Nat
           /\ S \subseteq T => Cardinality(S) <= Cardinality(T)
           /\ S \subseteq T /\ Cardinality(S) = Cardinality(T) => S = T
           /\ S \cap T = {} => Cardinality(S \cup T) = Cardinality(S) + Cardinality(T)
           /\ Cardinality(S) = 0 <=> S = {}
<1>1. IsFiniteSet(S) /\ IsFiniteSet(T)
  BY EntriesAssumption, FS_Subset
<1>2. Cardinality(S) \in Nat /\ Cardinality(T) \in Nat
  BY <1>1, FS_CardinalityType
<1>3. ASSUME S \subseteq T
      PROVE  Cardinality(S) <= Cardinality(T) /\ (Cardinality(S) = Cardinality(T) => S = T)
  BY <1>1, <1>3, FS_Subset
<1>4. ASSUME S \cap T = {} PROVE Cardinality(S \cup T) = Cardinality(S) + Cardinality(T)
  <2>1. Cardinality(S \cup T) = Cardinality(S) + Cardinality(T) - Cardinality(S \cap T)
    BY <1>1, FS_Union
  <2>2. Cardinality(S \cap T) = 0
    BY <1>4, FS_EmptySet
  <2> QED
    BY <1>2, <2>1, <2>2
<1>5. Cardinality(S) = 0 <=> S = {}
  BY <1>1, FS_EmptySet
<1> QED
  BY <1>1, <1>2, <1>3, <1>4, <1>5

\* The smaller of two numbers.
LEMMA MinOfTwo ==
    ASSUME NEW a \in Nat, NEW b \in Nat
    PROVE  Min({a, b}) = IF a <= b THEN a ELSE b
BY DEF Min

\* What cutting lines at a limit leaves.
LEMMA CutFacts ==
    ASSUME NEW lines \in SUBSET Entries, NEW limit \in Nat, NEW dir,
           NEW page \in Cuts(lines, limit, dir)
    PROVE  /\ page \subseteq lines
           /\ Cardinality(page) <= limit
           /\ Cardinality(page) < limit => page = lines
           /\ limit <= Cardinality(lines) => Cardinality(page) = limit
           /\ \A e \in page, f \in lines \ page : Before(e, f, dir)
<1>1. /\ page \subseteq lines
      /\ Cardinality(page) = Min({limit, Cardinality(lines)})
      /\ \A e \in page, f \in lines \ page : Before(e, f, dir)
  BY DEF Cuts, kSubset
<1>2. Cardinality(lines) \in Nat
  BY Sizes
<1>3. Cardinality(page) = IF limit <= Cardinality(lines) THEN limit ELSE Cardinality(lines)
  BY <1>1, <1>2, MinOfTwo
<1>4. Cardinality(page) < limit => page = lines
  <2>1. Cardinality(page) < limit => Cardinality(page) = Cardinality(lines)
    BY <1>2, <1>3
  <2> QED
    BY <1>1, <2>1, Sizes
<1> QED
  BY <1>1, <1>2, <1>3, <1>4

-----------------------------------------------------------------------------
(* Batches.                                                                *)

\* The lines of some batches.
LinesOf(batches) == UNION Range(batches)

\* No two batches have a key in common.
KeysDiffer(batches) ==
    \A i, j \in DOMAIN batches :
        i # j => {Key(e) : e \in batches[i]} \cap {Key(e) : e \in batches[j]} = {}

Batches == Seq(SUBSET Entries)

\* One more batch.
LEMMA AppendLines ==
    ASSUME NEW s \in Batches, NEW b \in SUBSET Entries
    PROVE  /\ LinesOf(s) \in SUBSET Entries
           /\ Append(s, b) \in Batches
           /\ LinesOf(Append(s, b)) = LinesOf(s) \cup b
<1> DEFINE t == Append(s, b)
<1>1. /\ DOMAIN s = 1..Len(s) /\ Len(s) \in Nat /\ DOMAIN t = 1..(Len(s) + 1)
      /\ t[Len(s) + 1] = b /\ \A i \in 1..Len(s) : t[i] = s[i]
      /\ t \in Batches
  BY DEF Batches
<1>2. \A i \in DOMAIN s : s[i] \in SUBSET Entries
  BY DEF Batches
<1>3. LinesOf(s) \in SUBSET Entries
  BY <1>2 DEF LinesOf, Range
<1> HIDE DEF t
<1>4. ASSUME NEW e \in LinesOf(t) PROVE e \in LinesOf(s) \cup b
  <2>1. PICK i \in 1..(Len(s) + 1) : e \in t[i]
    BY <1>1 DEF LinesOf, Range
  <2>2. i = Len(s) + 1 \/ i \in 1..Len(s)
    BY <1>1
  <2> QED
    BY <1>1, <2>1, <2>2 DEF LinesOf, Range
<1>5. ASSUME NEW e \in LinesOf(s) \cup b PROVE e \in LinesOf(t)
  <2>1. CASE e \in b
    <3>1. Len(s) + 1 \in DOMAIN t
      BY <1>1
    <3> QED
      BY <1>1, <2>1, <3>1 DEF LinesOf, Range
  <2>2. CASE e \in LinesOf(s)
    <3>1. PICK i \in 1..Len(s) : e \in s[i]
      BY <1>1, <2>2 DEF LinesOf, Range
    <3>2. i \in DOMAIN t /\ t[i] = s[i]
      BY <1>1
    <3> QED
      BY <3>1, <3>2 DEF LinesOf, Range
  <2> QED
    BY <2>1, <2>2
<1> QED
  BY <1>1, <1>3, <1>4, <1>5 DEF t

\* A batch of new keys repeats none.
LEMMA AppendKeysDiffer ==
    ASSUME NEW s \in Batches, NEW b \in SUBSET Entries, KeysDiffer(s),
           \A e \in LinesOf(s), f \in b : Key(e) # Key(f)
    PROVE  KeysDiffer(Append(s, b))
<1> DEFINE t == Append(s, b)
           n == Len(s) + 1
<1>1. /\ DOMAIN s = 1..Len(s) /\ DOMAIN t = DOMAIN s \cup {n}
      /\ t[n] = b /\ \A i \in DOMAIN s : t[i] = s[i]
  BY DEF Batches
<1> HIDE DEF t, n
<1>2. ASSUME NEW i \in DOMAIN s
      PROVE  {Key(e) : e \in t[i]} \cap {Key(e) : e \in t[n]} = {}
  <2>1. t[i] \subseteq LinesOf(s)
    BY <1>1 DEF LinesOf, Range
  <2> QED
    BY <1>1, <2>1, Zenon
<1>3. ASSUME NEW i \in DOMAIN t, NEW j \in DOMAIN t, i # j
      PROVE  {Key(e) : e \in t[i]} \cap {Key(e) : e \in t[j]} = {}
  <2>1. CASE i \in DOMAIN s /\ j \in DOMAIN s
    BY <1>1, <1>3, <2>1, Zenon DEF KeysDiffer
  <2>2. CASE i \in DOMAIN s /\ j = n
    BY <1>2, <2>2, Zenon
  <2>3. CASE i = n /\ j \in DOMAIN s
    <3>1. {Key(e) : e \in t[j]} \cap {Key(e) : e \in t[n]} = {}
      BY <1>2, <2>3, Zenon
    <3> QED
      BY <2>3, <3>1, Zenon
  <2> QED
    BY <1>1, <1>3, <2>1, <2>2, <2>3, Zenon
<1>4. KeysDiffer(t)
  BY <1>3, Zenon DEF KeysDiffer
<1> QED
  BY <1>4 DEF t

Tagged(batches) == UNION {{i} \X batches[i] : i \in DOMAIN batches}

\* The lines of a batch count as many as they are.
LEMMA CountAppend ==
    ASSUME NEW s \in Batches, NEW b \in SUBSET Entries
    PROVE  /\ Count(s) \in Nat
           /\ Count(Append(s, b)) = Count(s) + Cardinality(b)
<1> DEFINE t == Append(s, b)
           n == Len(s) + 1
<1>1. /\ DOMAIN s = 1..Len(s) /\ DOMAIN t = DOMAIN s \cup {n} /\ n \notin DOMAIN s
      /\ t[n] = b /\ \A i \in DOMAIN s : t[i] = s[i] /\ s[i] \in SUBSET Entries
      /\ Len(s) \in Nat
  BY DEF Batches
<1> HIDE DEF t, n
<1>2. Tagged(t) = Tagged(s) \cup ({n} \X b)
  <2>1. ASSUME NEW p PROVE p \in Tagged(t) <=> \E i \in DOMAIN s \cup {n} : p \in {i} \X t[i]
    BY <1>1, Zenon DEF Tagged
  <2>2. ASSUME NEW p PROVE p \in Tagged(s) <=> \E i \in DOMAIN s : p \in {i} \X t[i]
    <3>1. p \in Tagged(s) <=> \E i \in DOMAIN s : p \in {i} \X s[i]
      BY Zenon DEF Tagged
    <3> QED
      BY <1>1, <3>1, Zenon
  <2>3. ASSUME NEW p PROVE p \in Tagged(t) <=> p \in Tagged(s) \/ p \in {n} \X t[n]
    BY <2>1, <2>2, Zenon
  <2>4. {n} \X t[n] = {n} \X b
    BY <1>1, Zenon
  <2> QED
    BY <2>3, <2>4, Zenon
<1>3. Tagged(s) \cap ({n} \X b) = {}
  BY <1>1 DEF Tagged
<1>4. IsFiniteSet(Tagged(s))
  <2>1. IsFiniteSet(1..Len(s))
    BY <1>1, FS_Interval
  <2>2. IsFiniteSet((1..Len(s)) \X Entries)
    BY <2>1, EntriesAssumption, FS_Product
  <2>3. Tagged(s) \subseteq (1..Len(s)) \X Entries
    BY <1>1 DEF Tagged
  <2> QED
    BY <2>2, <2>3, FS_Subset
<1>5. IsFiniteSet({n} \X b) /\ Cardinality({n} \X b) = Cardinality(b)
  <2>1. IsFiniteSet({n}) /\ Cardinality({n}) = 1
    BY FS_Singleton, Zenon
  <2>2. IsFiniteSet(b) /\ Cardinality(b) \in Nat
    BY Sizes
  <2>3. IsFiniteSet({n} \X b) /\ Cardinality({n} \X b) = Cardinality({n}) * Cardinality(b)
    BY <2>1, <2>2, FS_Product
  <2> QED
    BY <2>1, <2>2, <2>3
<1>6. /\ Cardinality(Tagged(s)) \in Nat /\ Cardinality(b) \in Nat
      /\ Cardinality(Tagged(s) \cap ({n} \X b)) = 0
  BY <1>3, <1>4, FS_CardinalityType, FS_EmptySet, Sizes
<1>7. Cardinality(Tagged(t)) =
          Cardinality(Tagged(s)) + Cardinality({n} \X b) - Cardinality(Tagged(s) \cap ({n} \X b))
  BY <1>2, <1>4, <1>5, FS_Union
<1>8. Count(t) = Count(s) + Cardinality(b) /\ Count(s) \in Nat
  BY <1>5, <1>6, <1>7 DEF Count, Tagged
<1> QED
  BY <1>8 DEF t

\* Without its last batch, and with that batch replaced.
LEMMA LastBatch ==
    ASSUME NEW s \in Batches, NEW b \in SUBSET Entries, NEW c \in SUBSET Entries
    PROVE  /\ Append(s, b)[Len(Append(s, b))] = b
           /\ SubSeq(Append(s, b), 1, Len(Append(s, b)) - 1) = s
           /\ [Append(s, b) EXCEPT ![Len(Append(s, b))] = c] = Append(s, c)
<1>1. /\ s \in Seq(SUBSET Entries) /\ Len(s) \in Nat
      /\ Len(Append(s, b)) = Len(s) + 1
  BY DEF Batches
<1>2. SubSeq(Append(s, b), 1, Len(Append(s, b)) - 1) = s
  BY <1>1
<1>3. Append(s, b)[Len(s) + 1] = b
  BY <1>1
<1>4. [Append(s, b) EXCEPT ![Len(s) + 1] = c] = Append(s, c)
  <2> DEFINE f == [Append(s, b) EXCEPT ![Len(s) + 1] = c]
             g == Append(s, c)
  <2>1. /\ Append(s, b) \in [1..(Len(s) + 1) -> SUBSET Entries]
        /\ g \in [1..(Len(s) + 1) -> SUBSET Entries]
    <3>1. ASSUME NEW d \in SUBSET Entries
          PROVE  Append(s, d) \in [1..(Len(s) + 1) -> SUBSET Entries]
      BY <1>1, AppendProperties, LenProperties, Zenon
    <3> QED
      BY <3>1
  <2>2. ASSUME NEW i \in 1..(Len(s) + 1) PROVE f[i] = g[i]
    <3>1. CASE i = Len(s) + 1
      BY <1>1, <2>1, <3>1
    <3>2. CASE i # Len(s) + 1
      <4>1. i \in 1..Len(s)
        BY <1>1, <3>2
      <4>2. Append(s, b)[i] = s[i] /\ g[i] = s[i]
        BY <1>1, <4>1, AppendProperties
      <4>3. f[i] = Append(s, b)[i]
        BY <2>1, <3>2, Zenon
      <4> QED
        BY <4>2, <4>3
    <3> QED
      BY <3>1, <3>2
  <2>3. f \in [1..(Len(s) + 1) -> SUBSET Entries]
    BY <2>1
  <2> HIDE DEF f, g
  <2>4. f = g
    BY <2>1, <2>2, <2>3
  <2> QED
    BY <2>4 DEF f, g
<1> QED
  BY <1>1, <1>2, <1>3, <1>4

-----------------------------------------------------------------------------
(* The invariant.                                                          *)

\* The next query is past second s.
LeftBehind(s) ==
    IF Direction = "backward" THEN s * Second >= q.end ELSE (s + 1) * Second <= q.start

\* The next query asks for e's instant.
Ahead(e) == q.start <= e.time /\ e.time < q.end

\* The query resumes at the edge and keeps the window's other bound.
BoundsInv ==
    IF Direction = "backward"
    THEN q.start = window.start /\ (edge # -1 => q.end = (edge + 1) * Second)
    ELSE q.end = window.end /\ (edge # -1 => q.start = edge * Second)

\* A line passed on cannot be passed on again: the next query is past its
\* second, or its key is remembered.
PassedOnInv ==
    /\ \A e \in Emitted : \/ LeftBehind(Unix(e.time))
                          \/ Unix(e.time) = edge /\ Key(e) \in seen
    /\ seen \subseteq {Key(e) : e \in Emitted}

\* A tail that is not full yet asks for more.
CountInv ==
    /\ Count(out) = Cardinality(Emitted)
    /\ Limit = 0 => out = <<>>
    /\ Limit > 0 /\ caller.fn = "Tail" => Count(out) < caller.n

\* The second at the window's far end.
FarSecond == Unix(IF Direction = "backward" THEN window.start ELSE window.end - 1)

\* A line that was there from the start is passed on, or still to come and then
\* no newer than what a tail has, or in a second wider than a page.
FoundInv ==
    \A e \in first :
        window.start <= e.time /\ e.time < window.end =>
            \/ Cardinality(InSecond(Unix(e.time))) > Limit
            \/ \E f \in Emitted : Key(f) = Key(e)
            \/ /\ Ahead(e)
               /\ Direction = "backward" => \A f \in Emitted : f.time >= e.time

RefusedInv ==
    ~Accepted(q.start, q.end) => Cardinality(InSecond(FarSecond)) >= Limit

Reading == BoundsInv /\ PassedOnInv /\ CountInv /\ FoundInv /\ RefusedInv

IInv ==
    /\ TypeOK
    /\ NoRepeat
    /\ pc = "query" => Reading
    /\ NothingSkipped
    /\ RefusedAtWideEdgeOnly

\* The limit of a query; only a tail of no lines has none.
LEMMA LimitType ==
    ASSUME TypeOK
    PROVE  /\ Limit \in Nat
           /\ Direction \in {"backward", "forward"}
           /\ Direction = "backward" <=> caller.fn = "Tail"
           /\ caller.fn = "Tail" => caller.n \in Nat /\ (Limit = 0 => caller.n = 0)
           /\ caller.fn # "Tail" => Limit > 0
<1>1. MaxLimit \in Nat \ {0}
  BY PagesAssumption
<1>2. CASE caller.fn = "Tail"
  <2>1. caller.n \in Nat
    BY <1>2, PagesAssumption, Zenon DEF TypeOK, Callers
  <2>2. Limit = IF caller.n <= MaxLimit THEN caller.n ELSE MaxLimit
    BY <1>1, <1>2, <2>1, MinOfTwo DEF Limit
  <2> QED
    BY <1>1, <1>2, <2>1, <2>2 DEF Direction
<1>3. CASE caller.fn # "Tail"
  BY <1>1, <1>3 DEF Limit, Direction
<1> QED
  BY <1>2, <1>3

\* The bounds of a query, and the times of the stored lines.
LEMMA TimeTypes ==
    ASSUME TypeOK
    PROVE  /\ q.start \in Nat /\ q.end \in Nat /\ window.start \in Nat /\ window.end \in Nat
           /\ window.start < window.end
           /\ edge \in Nat \/ edge = -1
           /\ store \subseteq Entries /\ first \subseteq store
           /\ \A e \in Entries : e.time \in Nat /\ Unix(e.time) \in Nat
<1>1. \A e \in Entries : e.time \in Nat /\ Unix(e.time) \in Nat
  BY EntriesAssumption, SecondFacts
<1>2. window \in [start : Nat, end : Nat] /\ window.start < window.end
  BY PagesAssumption DEF TypeOK
<1> QED
  BY <1>1, <1>2 DEF TypeOK

\* The batches are of stored lines.
LEMMA OutType ==
    ASSUME TypeOK
    PROVE  /\ out \in Batches /\ Emitted = LinesOf(out)
           /\ Emitted \subseteq store /\ Emitted \in SUBSET Entries
<1>1. out \in Seq(SUBSET Entries)
  BY DEF TypeOK
<1>2. \A i \in DOMAIN out : out[i] \subseteq store
  BY DEF TypeOK
<1> QED
  BY <1>1, <1>2 DEF Batches, Emitted, LinesOf, Range, TypeOK

\* A page of stored lines that the query asked for.
IsPage(page) == page \in QueryRange(q.start, q.end, Limit, Direction)

\* What a page holds, and what it leaves out.
LEMMA PageFacts ==
    ASSUME TypeOK, NEW page, IsPage(page)
    PROVE  /\ page \subseteq store /\ page \in SUBSET Entries
           /\ Cardinality(page) \in Nat /\ Cardinality(page) <= Limit
           /\ \A e \in page : Ahead(e)
           /\ \A e \in page, f \in store \ page : Ahead(f) => Before(e, f, Direction)
           /\ Cardinality(page) < Limit => \A e \in store : Ahead(e) => e \in page
<1> DEFINE lines == projectRange(q.start, q.end)
<1>1. lines \in SUBSET Entries /\ lines = {e \in store : Ahead(e)}
  BY DEF projectRange, Ahead, TypeOK
<1>2. page \in Cuts(lines, Limit, Direction)
  BY DEF IsPage, QueryRange
<1> HIDE DEF lines
<1>3. /\ page \subseteq lines /\ Cardinality(page) <= Limit
      /\ Cardinality(page) < Limit => page = lines
      /\ \A e \in page, f \in lines \ page : Before(e, f, Direction)
  <2>1. Limit \in Nat /\ lines \in SUBSET Entries
    BY <1>1, LimitType
  <2>2. ASSUME NEW limit, limit = Limit, NEW dir, dir = Direction
        PROVE  /\ page \subseteq lines /\ Cardinality(page) <= limit
               /\ Cardinality(page) < limit => page = lines
               /\ \A e \in page, f \in lines \ page : Before(e, f, dir)
    BY <1>2, <2>1, <2>2, CutFacts
  <2> QED
    BY <2>2
<1>4. page \subseteq store /\ page \in SUBSET Entries
  BY <1>1, <1>3
<1>5. Cardinality(page) \in Nat
  BY <1>4, Sizes
<1> QED
  BY <1>1, <1>3, <1>4, <1>5, Zenon

\* The second in which a page ends is the last that it reaches.
LEMMA LastFacts ==
    ASSUME TypeOK, NEW page \in SUBSET Entries, page # {}, \A e \in page : Ahead(e)
    PROVE  /\ LastSecond(page) \in Nat
           /\ \E e \in page : Unix(e.time) = LastSecond(page)
           /\ \A e \in page : IF Direction = "backward" THEN LastSecond(page) <= Unix(e.time)
                                                        ELSE Unix(e.time) <= LastSecond(page)
<1> DEFINE seconds == {Unix(e.time) : e \in page}
<1>1. seconds \in SUBSET Nat /\ seconds # {}
  BY TimeTypes
<1>2. \A s \in seconds : s <= q.end
  <2>1. ASSUME NEW e \in page PROVE Unix(e.time) <= q.end
    <3>1. e.time \in Nat /\ q.end \in Nat /\ e.time < q.end
      BY TimeTypes DEF Ahead
    <3> QED
      BY <3>1, SecondFacts
  <2> QED
    BY <2>1
<1>3. \A e \in page : Unix(e.time) \in seconds
  OBVIOUS
<1>4. \A s \in seconds : \E e \in page : Unix(e.time) = s
  OBVIOUS
<1>5. LastSecond(page) = IF Direction = "backward" THEN Min(seconds) ELSE Max(seconds)
  BY DEF LastSecond
<1> HIDE DEF seconds
<1>6. CASE Direction = "backward"
  <2>1. \E x \in seconds : \A y \in seconds : x <= y
    BY <1>1, Least
  <2>2. Min(seconds) \in seconds /\ \A y \in seconds : Min(seconds) <= y
    BY <2>1, Zenon DEF Min
  <2> QED
    BY <1>1, <1>3, <1>4, <1>5, <1>6, <2>2, Zenon
<1>7. CASE Direction # "backward"
  <2>1. \E x \in seconds : \A y \in seconds : x >= y
    <3>1. PICK x \in seconds : \A y \in seconds : y <= x
      BY <1>1, <1>2, TimeTypes, Greatest, Zenon
    <3> QED
      BY <1>1, <3>1
  <2>2. Max(seconds) \in seconds /\ \A y \in seconds : Max(seconds) >= y
    BY <2>1, Zenon DEF Max
  <2> QED
    BY <1>1, <1>3, <1>4, <1>5, <1>7, <2>2, Zenon
<1> QED
  BY <1>6, <1>7

-----------------------------------------------------------------------------
(* The lines of a page.                                                    *)

\* A fresh line has a key that was not passed on (fetch.go: the filter).
LEMMA FreshIsNew ==
    ASSUME TypeOK, PassedOnInv, NEW page, IsPage(page)
    PROVE  \A e \in Emitted, f \in Fresh(page) : Key(e) # Key(f)
<1> SUFFICES ASSUME NEW e \in Emitted, NEW f \in Fresh(page), Key(e) = Key(f) PROVE FALSE
  OBVIOUS
<1>1. e.time = f.time
  BY DEF Key
<1>2. f \in page /\ ~(Unix(f.time) = edge /\ Key(f) \in seen)
  BY DEF Fresh
<1>3. LeftBehind(Unix(f.time))
  BY <1>1, <1>2 DEF PassedOnInv
<1>4. /\ q.start <= f.time /\ f.time < q.end /\ f.time \in Nat /\ q.start \in Nat /\ q.end \in Nat
  BY <1>2, PageFacts, TimeTypes DEF Ahead
<1>5. /\ StartOf(Unix(f.time)) <= f.time /\ f.time < StartOf(Unix(f.time) + 1)
      /\ StartOf(Unix(f.time)) \in Nat /\ StartOf(Unix(f.time) + 1) \in Nat
  BY <1>4, SecondFacts, SecondOrder
<1>6. IF Direction = "backward" THEN StartOf(Unix(f.time)) >= q.end
                                ELSE StartOf(Unix(f.time) + 1) <= q.start
  BY <1>3 DEF LeftBehind, StartOf
<1> QED
  BY <1>4, <1>5, <1>6

\* A line that is not fresh has a key that was passed on.
LEMMA StaleIsKnown ==
    ASSUME PassedOnInv, NEW page, NEW e \in page, e \notin Fresh(page)
    PROVE  Key(e) \in seen /\ Unix(e.time) = edge /\ \E f \in Emitted : Key(f) = Key(e)
<1>1. Key(e) \in seen /\ Unix(e.time) = edge
  BY DEF Fresh
<1>2. Key(e) \in {Key(f) : f \in Emitted}
  BY <1>1 DEF PassedOnInv
<1> QED
  BY <1>1, <1>2

\* Passing on fresh lines.
LEMMA AddBatch ==
    ASSUME TypeOK, NoRepeat, PassedOnInv, Count(out) = Cardinality(Emitted),
           NEW page, IsPage(page), NEW kept \in SUBSET Fresh(page), kept # {},
           out' = Append(out, kept), store' = store
    PROVE  /\ NoRepeat'
           /\ Emitted' = Emitted \cup kept
           /\ Count(out') = Count(out) + Cardinality(kept)
           /\ Cardinality(Emitted') = Count(out')
           /\ (out \in Seq((SUBSET store) \ {{}}))'
<1>1. kept \subseteq page /\ kept \subseteq store /\ kept \in SUBSET Entries
  BY PageFacts, TimeTypes DEF Fresh
<1>2. out \in Batches /\ Emitted = LinesOf(out) /\ Emitted \in SUBSET Entries
  BY OutType
<1>3. Emitted' = LinesOf(out')
  BY DEF Emitted, LinesOf
<1>4. Emitted' = Emitted \cup kept
  BY <1>1, <1>2, <1>3, AppendLines
<1>5. \A e \in LinesOf(out), f \in kept : Key(e) # Key(f)
  BY <1>2, FreshIsNew
<1>6. NoRepeat'
  <2>1. KeysDiffer(out)
    BY DEF NoRepeat, KeysDiffer
  <2>2. KeysDiffer(Append(out, kept))
    BY <1>1, <1>2, <1>5, <2>1, AppendKeysDiffer
  <2> QED
    BY <2>2 DEF NoRepeat, KeysDiffer
<1>7. Count(out') = Count(out) + Cardinality(kept)
  BY <1>1, <1>2, CountAppend
<1>8. Cardinality(Emitted \cup kept) = Cardinality(Emitted) + Cardinality(kept)
  <2>1. Emitted \cap kept = {}
    BY <1>2, <1>5
  <2> QED
    BY <1>1, <1>2, <2>1, Sizes
<1>9. (out \in Seq((SUBSET store) \ {{}}))'
  <2>1. out \in Seq((SUBSET store) \ {{}}) /\ kept \in (SUBSET store) \ {{}}
    BY <1>1 DEF TypeOK
  <2>2. Append(out, kept) \in Seq((SUBSET store) \ {{}})
    BY <2>1, AppendProperties
  <2> QED
    BY <2>2
<1> QED
  BY <1>4, <1>6, <1>7, <1>8, <1>9

\* What is kept of the last page when Pages returns: all that is fresh of a
\* page that is not full, or what a tail still needs, the newest.
LEMMA ReturnFacts ==
    ASSUME TypeOK, CountInv, Limit > 0, NEW page, IsPage(page), Return(page)
    PROVE  \E kept \in SUBSET Fresh(page) :
               /\ IF kept = {} THEN out' = out ELSE out' = Append(out, kept)
               /\ \/ kept = Fresh(page) /\ Cardinality(page) < Limit
                  \/ /\ caller.fn = "Tail" /\ kept # {}
                     /\ Count(out) + Cardinality(kept) = caller.n
                     /\ \A e \in kept, f \in Fresh(page) \ kept : e.time >= f.time
<1> DEFINE fresh == Fresh(page)
<1>1. fresh \subseteq page /\ fresh \in SUBSET Entries
  BY PageFacts DEF Fresh
<1>2. out \in Batches
  BY OutType
<1>3. CASE ~Satisfied(Deliver(page))
  <2>1. out' = Deliver(page) /\ Cardinality(page) < Limit
    BY <1>3 DEF Return, Trim
  <2> QED
    BY <2>1 DEF Deliver
<1>4. CASE Satisfied(Deliver(page))
  <2>1. caller.fn = "Tail" /\ Count(Deliver(page)) >= caller.n /\ Count(out) < caller.n
    BY <1>4 DEF Satisfied, CountInv
  <2>2. Count(out) \in Nat /\ caller.n \in Nat
    BY <1>1, <1>2, <2>1, CountAppend, LimitType
  <2>3. fresh # {} /\ Deliver(page) = Append(out, fresh)
    BY <2>1, <2>2 DEF Deliver
  <2>4. Count(Append(out, fresh)) = Count(out) + Cardinality(fresh) /\ Cardinality(fresh) \in Nat
    BY <1>1, <1>2, CountAppend, Sizes
  <2> DEFINE rest == caller.n - Count(out)
             batches == Append(out, fresh)
  <2>5. rest \in Nat /\ rest > 0 /\ rest <= Cardinality(fresh)
    BY <2>1, <2>2, <2>3, <2>4
  <2>6. out' \in Trim(batches) /\ Satisfied(batches)
    BY <1>4, <2>3 DEF Return
  <2>7. batches[Len(batches)] = fresh /\ SubSeq(batches, 1, Len(batches) - 1) = out
    BY <1>1, <1>2, LastBatch, Zenon
  <2>8. PICK kept \in Cuts(fresh, rest, "backward") :
            out' = [batches EXCEPT ![Len(batches)] = kept]
    <3> HIDE DEF batches, fresh
    <3>1. out' \in {[batches EXCEPT ![Len(batches)] = kept] :
                        kept \in Cuts(batches[Len(batches)],
                                      caller.n - Count(SubSeq(batches, 1, Len(batches) - 1)),
                                      "backward")}
      BY <2>6 DEF Trim
    <3> QED
      BY <2>7, <3>1, Zenon
  <2> HIDE DEF rest, fresh
  <2>9. /\ kept \subseteq fresh /\ Cardinality(kept) = rest
        /\ \A e \in kept, f \in fresh \ kept : Before(e, f, "backward")
    BY <1>1, <2>5, CutFacts
  <2>10. out' = Append(out, kept)
    BY <1>1, <1>2, <2>8, <2>9, LastBatch
  <2>11. kept # {}
    BY <1>1, <2>5, <2>9, Sizes
  <2>12. Count(out) + Cardinality(kept) = caller.n
    BY <2>2, <2>9 DEF rest
  <2>13. \A e \in kept, f \in fresh \ kept : e.time >= f.time
    BY <2>9 DEF Before
  <2> QED
    BY <2>1, <2>9, <2>10, <2>11, <2>12, <2>13, Zenon DEF fresh
<1> QED
  BY <1>3, <1>4, Zenon

-----------------------------------------------------------------------------
(* Pages returns.                                                          *)

\* What the steps of Pages leave alone.
Kept == UNCHANGED <<store, caller, window, first>>

\* So the limit, the direction and the widths of the seconds stay.
LEMMA KeptFacts ==
    ASSUME Kept
    PROVE  /\ Limit' = Limit /\ Direction' = Direction /\ FarSecond' = FarSecond
           /\ \A s : InSecond(s)' = InSecond(s)
BY DEF Kept, Limit, Direction, FarSecond, InSecond, Unix

\* At the end nothing is missing but what a full tail need not have.
LEMMA ReturnStep ==
    ASSUME IInv, pc = "query", Limit > 0, NEW page, IsPage(page), Return(page), Kept
    PROVE  IInv'
<1>1. TypeOK /\ NoRepeat /\ BoundsInv /\ PassedOnInv /\ CountInv /\ FoundInv
  BY DEF IInv, Reading
<1>2. pc' = "done" /\ UNCHANGED <<q, edge, seen, store, caller, window, first>>
  BY DEF Return, Kept
<1>3. PICK kept \in SUBSET Fresh(page) :
          /\ IF kept = {} THEN out' = out ELSE out' = Append(out, kept)
          /\ \/ kept = Fresh(page) /\ Cardinality(page) < Limit
             \/ /\ caller.fn = "Tail" /\ kept # {}
                /\ Count(out) + Cardinality(kept) = caller.n
                /\ \A e \in kept, f \in Fresh(page) \ kept : e.time >= f.time
  BY <1>1, ReturnFacts, Zenon
<1>4. /\ NoRepeat' /\ Emitted' = Emitted \cup kept
      /\ (out \in Seq((SUBSET store) \ {{}}))'
      /\ kept # {} => Cardinality(Emitted') = Count(out) + Cardinality(kept)
  <2>1. CASE kept = {}
    BY <1>1, <1>2, <1>3, <2>1 DEF NoRepeat, Emitted, TypeOK
  <2>2. CASE kept # {}
    BY <1>1, <1>2, <1>3, <2>2, AddBatch DEF CountInv
  <2> QED
    BY <2>1, <2>2
<1>5. TypeOK'
  BY <1>1, <1>2, <1>4 DEF TypeOK, Callers
<1>6. NothingSkipped'
  <2> SUFFICES ASSUME NEW e \in first, window.start <= e.time, e.time < window.end,
                      Cardinality(InSecond(Unix(e.time))) <= Limit,
                      ~\E f \in Emitted' : Key(f) = Key(e)
               PROVE  /\ caller.fn = "Tail" /\ Cardinality(Emitted') = caller.n
                      /\ \A f \in Emitted' : f.time >= e.time
    BY <1>2, KeptFacts, Zenon DEF NothingSkipped, Unix
  <2>1. e \in store /\ IsFiniteSet(InSecond(Unix(e.time)))
        /\ Cardinality(InSecond(Unix(e.time))) \in Nat
    <3>1. InSecond(Unix(e.time)) \in SUBSET Entries
      BY <1>1, TimeTypes DEF InSecond
    <3> QED
      BY <1>1, <3>1, Sizes, TimeTypes
  <2>2. ~\E f \in Emitted : Key(f) = Key(e)
    BY <1>4
  <2>3. /\ Ahead(e)
        /\ Direction = "backward" => \A f \in Emitted : f.time >= e.time
    <3>1. ~(Cardinality(InSecond(Unix(e.time))) > Limit)
      BY <1>1, <2>1, LimitType
    <3> QED
      BY <1>1, <2>2, <3>1 DEF FoundInv
  <2>4. e \in page => e \in Fresh(page) \ kept
    <3>1. e \notin kept
      BY <1>4
    <3>2. e \in page => e \in Fresh(page)
      BY <1>1, <2>2, StaleIsKnown
    <3> QED
      BY <3>1, <3>2
  <2>5. ~(kept = Fresh(page) /\ Cardinality(page) < Limit)
    <3>1. Cardinality(page) < Limit => e \in page
      BY <1>1, <2>1, <2>3, PageFacts
    <3> QED
      BY <2>4, <3>1
  <2>6. /\ caller.fn = "Tail" /\ kept # {}
        /\ Count(out) + Cardinality(kept) = caller.n
        /\ \A g \in kept, f \in Fresh(page) \ kept : g.time >= f.time
    BY <1>3, <2>5
  <2>7. Direction = "backward"
    BY <2>6 DEF Direction
  <2>8. ASSUME NEW f \in kept PROVE f.time >= e.time
    <3>1. CASE e \in page
      BY <2>4, <2>6, <3>1
    <3>2. CASE e \notin page
      <4>1. f \in page
        BY DEF Fresh
      <4>2. Before(f, e, Direction)
        BY <1>1, <2>1, <2>3, <3>2, <4>1, PageFacts
      <4> QED
        BY <2>7, <4>2 DEF Before
    <3> QED
      BY <3>1, <3>2
  <2> QED
    BY <1>4, <2>3, <2>6, <2>7, <2>8
<1>7. RefusedAtWideEdgeOnly' /\ (pc' = "query" => Reading')
  BY <1>2 DEF RefusedAtWideEdgeOnly
<1> QED
  BY <1>4, <1>5, <1>6, <1>7 DEF IInv

-----------------------------------------------------------------------------
(* Pages goes on.                                                          *)

\* Where a full page ends, against what the query asked for, what it left
\* behind, the edge it resumed at and the lines it did not reach.
LEMMA TurnFacts ==
    ASSUME TypeOK, BoundsInv, Limit > 0, NEW page, IsPage(page), Cardinality(page) = Limit
    PROVE  LET L == LastSecond(page)
           IN  /\ L \in Nat /\ StartOf(L) \in Nat /\ StartOf(L + 1) \in Nat
               /\ \E g \in page : Unix(g.time) = L
               /\ \A e \in page : IF Direction = "backward" THEN L <= Unix(e.time)
                                                            ELSE Unix(e.time) <= L
               /\ StartOf(L) < q.end /\ q.start < StartOf(L + 1)
               /\ \A u \in Nat : LeftBehind(u) => IF Direction = "backward" THEN L < u ELSE u < L
               /\ edge # -1 => IF Direction = "backward" THEN L <= edge ELSE edge <= L
               /\ \A e \in store \ page :
                      Ahead(e) => IF Direction = "backward" THEN Unix(e.time) <= L
                                                            ELSE L <= Unix(e.time)
<1> DEFINE L == LastSecond(page)
<1>1. page \in SUBSET Entries /\ page # {} /\ \A e \in page : Ahead(e)
  <2>1. page \in SUBSET Entries /\ \A e \in page : Ahead(e)
    BY PageFacts
  <2>2. Cardinality(page) # 0
    BY LimitType
  <2> QED
    BY <2>1, <2>2, Sizes
<1>2. /\ L \in Nat
      /\ \E e \in page : Unix(e.time) = L
      /\ \A e \in page : IF Direction = "backward" THEN L <= Unix(e.time) ELSE Unix(e.time) <= L
  BY <1>1, LastFacts
<1>3. PICK g \in page : Unix(g.time) = L
  BY <1>2
<1> HIDE DEF L
<1>4. /\ g.time \in Nat /\ q.start \in Nat /\ q.end \in Nat
      /\ q.start <= g.time /\ g.time < q.end
  BY <1>1, TimeTypes DEF Ahead
<1>5. StartOf(L) \in Nat /\ StartOf(L + 1) \in Nat /\ StartOf(L) <= g.time /\ g.time < StartOf(L + 1)
  BY <1>2, <1>3, <1>4, SecondFacts, SecondOrder
<1>6. ASSUME NEW u \in Nat, LeftBehind(u) PROVE IF Direction = "backward" THEN L < u ELSE u < L
  <2>1. IF Direction = "backward" THEN StartOf(u) >= q.end ELSE StartOf(u + 1) <= q.start
    BY <1>6 DEF LeftBehind, StartOf
  <2>2. StartOf(u) \in Nat /\ StartOf(u + 1) \in Nat
    BY SecondOrder
  <2>3. Direction = "backward" => g.time < StartOf(u)
    BY <1>4, <2>1, <2>2
  <2>4. Direction # "backward" => StartOf(u + 1) <= g.time
    BY <1>4, <2>1, <2>2
  <2>5. (g.time < StartOf(u) => L < u) /\ (StartOf(u + 1) <= g.time => u + 1 <= L)
    BY <1>3, <1>4, UnixBounds
  <2> QED
    BY <1>2, <2>3, <2>4, <2>5
<1>7. ASSUME edge # -1 PROVE IF Direction = "backward" THEN L <= edge ELSE edge <= L
  <2>1. edge \in Nat
    BY <1>7, TimeTypes
  <2>2. IF Direction = "backward" THEN q.end = StartOf(edge + 1) ELSE q.start = StartOf(edge)
    BY <1>7 DEF BoundsInv, StartOf
  <2>3. (g.time < StartOf(edge + 1) => L < edge + 1) /\ (StartOf(edge) <= g.time => edge <= L)
    BY <1>3, <1>4, <2>1, UnixBounds
  <2> QED
    BY <1>2, <1>4, <2>1, <2>2, <2>3
<1>8. ASSUME NEW e \in store \ page, Ahead(e)
      PROVE  IF Direction = "backward" THEN Unix(e.time) <= L ELSE L <= Unix(e.time)
  <2>1. Before(g, e, Direction) /\ Direction \in {"backward", "forward"}
    BY <1>8, PageFacts, LimitType
  <2>2. e.time \in Nat
    BY TimeTypes
  <2>3. (e.time <= g.time => Unix(e.time) <= L) /\ (g.time <= e.time => L <= Unix(e.time))
    BY <1>3, <1>4, <2>2, UnixOrder
  <2> QED
    BY <1>4, <2>1, <2>2, <2>3 DEF Before
<1>9. StartOf(L) < q.end /\ q.start < StartOf(L + 1)
  BY <1>4, <1>5
<1> QED
  BY <1>2, <1>5, <1>6, <1>7, <1>8, <1>9, Zenon DEF L

\* A page with fresh lines: the next one resumes in its last second.
LEMMA ResumeStep ==
    ASSUME IInv, pc = "query", Limit > 0, NEW page, IsPage(page), Resume(page), Kept
    PROVE  IInv'
<1> DEFINE L == LastSecond(page)
<1>1. TypeOK /\ NoRepeat /\ BoundsInv /\ PassedOnInv /\ CountInv /\ FoundInv
  BY DEF IInv, Reading
<1>2. /\ Cardinality(page) = Limit /\ Fresh(page) # {} /\ out' = Append(out, Fresh(page))
      /\ edge' = L /\ pc' = "query" /\ ~Satisfied(out')
      /\ seen' = EdgeKeys(page) \cup (IF L = edge THEN seen ELSE {})
      /\ UNCHANGED <<store, caller, window, first>>
  BY DEF Resume, Deliver, Kept, Satisfied
<1>3. q' = IF Direction = "backward" THEN [q EXCEPT !.end = StartOf(L + 1)]
                                     ELSE [q EXCEPT !.start = StartOf(L)]
  BY DEF Resume, StartOf
<1>4. EdgeKeys(page) = {Key(e) : e \in {f \in page : Unix(f.time) = L}}
  BY DEF EdgeKeys
<1>5. /\ L \in Nat /\ StartOf(L) \in Nat /\ StartOf(L + 1) \in Nat
      /\ \A e \in page : IF Direction = "backward" THEN L <= Unix(e.time) ELSE Unix(e.time) <= L
      /\ StartOf(L) < q.end /\ q.start < StartOf(L + 1)
      /\ \A u \in Nat : LeftBehind(u) => IF Direction = "backward" THEN L < u ELSE u < L
      /\ edge # -1 => IF Direction = "backward" THEN L <= edge ELSE edge <= L
      /\ \A e \in store \ page :
             Ahead(e) => IF Direction = "backward" THEN Unix(e.time) <= L ELSE L <= Unix(e.time)
  BY <1>1, <1>2, TurnFacts, Zenon
<1> HIDE DEF L
<1>6. /\ NoRepeat' /\ Emitted' = Emitted \cup Fresh(page)
      /\ Cardinality(Emitted') = Count(out')
      /\ (out \in Seq((SUBSET store) \ {{}}))'
  BY <1>1, <1>2, AddBatch DEF CountInv
<1>7. /\ q \in [start : Nat, end : Nat] /\ q' \in [start : Nat, end : Nat]
      /\ Direction = "backward" => q'.start = q.start /\ q'.end = StartOf(L + 1)
      /\ Direction # "backward" => q'.end = q.end /\ q'.start = StartOf(L)
  BY <1>1, <1>3, <1>5 DEF TypeOK
<1>8. page \subseteq store /\ page \in SUBSET Entries
  BY <1>1, PageFacts
<1>9. /\ Limit' = Limit /\ Direction' = Direction /\ FarSecond' = FarSecond
      /\ \A s : InSecond(s)' = InSecond(s)
  BY KeptFacts
<1>10. TypeOK'
  <2>1. seen' \subseteq {Key(e) : e \in store}
    BY <1>1, <1>2, <1>4, <1>8 DEF TypeOK
  <2> QED
    BY <1>1, <1>2, <1>5, <1>6, <1>7, <2>1 DEF TypeOK, Callers
<1>11. BoundsInv'
  BY <1>1, <1>2, <1>7, <1>9 DEF BoundsInv, StartOf
<1>12. PassedOnInv'
  <2>1. ASSUME NEW u \in Nat, IF Direction = "backward" THEN L < u ELSE u < L
        PROVE  LeftBehind(u)'
    <3>1. IF Direction = "backward" THEN StartOf(L + 1) <= StartOf(u)
                                    ELSE StartOf(u + 1) <= StartOf(L)
      BY <1>5, <2>1, SecondOrder
    <3>2. StartOf(u) \in Nat /\ StartOf(u + 1) \in Nat
      BY SecondOrder
    <3>3. IF Direction = "backward" THEN StartOf(u) >= q'.end ELSE StartOf(u + 1) <= q'.start
      BY <1>5, <1>7, <3>1, <3>2
    <3> QED
      BY <1>9, <3>3 DEF LeftBehind, StartOf
  <2>2. ASSUME NEW e \in Emitted
        PROVE  LeftBehind(Unix(e.time))' \/ (Unix(e.time) = edge' /\ Key(e) \in seen')
    <3>1. Unix(e.time) \in Nat
      BY <1>1, OutType, TimeTypes
    <3>2. CASE LeftBehind(Unix(e.time))
      BY <1>5, <2>1, <3>1, <3>2
    <3>3. CASE Unix(e.time) = edge /\ Key(e) \in seen
      <4>1. CASE L = edge
        BY <1>2, <3>3, <4>1
      <4>2. CASE L # edge
        <5>1. IF Direction = "backward" THEN L < Unix(e.time) ELSE Unix(e.time) < L
          BY <1>5, <3>1, <3>3, <4>2
        <5> QED
          BY <2>1, <3>1, <5>1
      <4> QED
        BY <4>1, <4>2
    <3> QED
      BY <1>1, <3>2, <3>3 DEF PassedOnInv
  <2>3. ASSUME NEW e \in Fresh(page)
        PROVE  LeftBehind(Unix(e.time))' \/ (Unix(e.time) = edge' /\ Key(e) \in seen')
    <3>1. e \in page /\ Unix(e.time) \in Nat
      BY <1>1, <1>8, TimeTypes DEF Fresh
    <3>2. CASE Unix(e.time) = L
      BY <1>2, <1>4, <3>1, <3>2
    <3>3. CASE Unix(e.time) # L
      <4>1. IF Direction = "backward" THEN L < Unix(e.time) ELSE Unix(e.time) < L
        BY <1>5, <3>1, <3>3
      <4> QED
        BY <2>1, <3>1, <4>1
    <3> QED
      BY <3>2, <3>3
  <2>4. \A e \in Emitted' : \/ LeftBehind(Unix(e.time))'
                            \/ Unix(e.time) = edge' /\ Key(e) \in seen'
    BY <1>6, <2>2, <2>3
  <2>5. ASSUME NEW k \in seen' PROVE k \in {Key(e) : e \in Emitted'}
    <3>1. CASE k \in EdgeKeys(page)
      <4>1. PICK e \in page : k = Key(e)
        BY <1>4, <3>1
      <4>2. e \in Fresh(page) \/ \E f \in Emitted : Key(f) = Key(e)
        BY <1>1, StaleIsKnown
      <4> QED
        BY <1>6, <4>1, <4>2
    <3>2. CASE k \in seen
      BY <1>1, <1>6, <3>2 DEF PassedOnInv
    <3> QED
      BY <1>2, <2>5, <3>1, <3>2
  <2> QED
    BY <2>4, <2>5 DEF PassedOnInv, LeftBehind, Unix, Direction
<1>13. CountInv'
  <2>1. caller.fn = "Tail" => Count(out') < caller.n
    <3>1. Count(out') \in Nat
      <4>1. out \in Batches /\ Fresh(page) \in SUBSET Entries
        BY <1>1, <1>8, OutType DEF Fresh
      <4>2. Count(out) \in Nat /\ Count(out') = Count(out) + Cardinality(Fresh(page))
        BY <1>2, <4>1, CountAppend
      <4> QED
        BY <4>1, <4>2, Sizes
    <3> QED
      BY <1>1, <1>2, <3>1, LimitType DEF Satisfied
  <2> QED
    BY <1>2, <1>6, <1>9, <2>1, LimitType, <1>1 DEF CountInv
<1>14. FoundInv'
  <2> SUFFICES ASSUME NEW e \in first, window.start <= e.time, e.time < window.end,
                      ~(Cardinality(InSecond(Unix(e.time))) > Limit),
                      ~\E f \in Emitted' : Key(f) = Key(e)
               PROVE  /\ q'.start <= e.time /\ e.time < q'.end
                      /\ Direction = "backward" => \A f \in Emitted' : f.time >= e.time
    BY <1>2, <1>9, Zenon DEF FoundInv, Ahead, Unix
  <2>1. e \in store /\ e.time \in Nat /\ Unix(e.time) \in Nat
    BY <1>1, TimeTypes
  <2>2. ~\E f \in Emitted : Key(f) = Key(e)
    BY <1>6
  <2>3. Ahead(e) /\ (Direction = "backward" => \A f \in Emitted : f.time >= e.time)
    BY <1>1, <2>2 DEF FoundInv
  <2>4. e \notin page
    BY <1>1, <1>6, <2>2, StaleIsKnown
  <2>5. IF Direction = "backward" THEN Unix(e.time) < L + 1 ELSE L <= Unix(e.time)
    BY <1>5, <2>1, <2>3, <2>4
  <2>6. (Unix(e.time) < L + 1 => e.time < StartOf(L + 1)) /\ (L <= Unix(e.time) => StartOf(L) <= e.time)
    BY <1>5, <2>1, UnixBounds
  <2>7. q'.start <= e.time /\ e.time < q'.end
    BY <1>7, <2>3, <2>5, <2>6 DEF Ahead
  <2>8. ASSUME Direction = "backward", NEW f \in Fresh(page) PROVE f.time >= e.time
    <3>1. Before(f, e, Direction)
      BY <1>1, <2>1, <2>3, <2>4, PageFacts DEF Fresh
    <3> QED
      BY <2>8, <3>1 DEF Before
  <2> QED
    BY <1>6, <2>3, <2>7, <2>8
<1>15. RefusedInv'
  BY <1>5, <1>7 DEF RefusedInv, Accepted
<1>16. NothingSkipped' /\ RefusedAtWideEdgeOnly'
  BY <1>2 DEF NothingSkipped, RefusedAtWideEdgeOnly
<1> QED
  BY <1>6, <1>10, <1>11, <1>12, <1>13, <1>14, <1>15, <1>16 DEF IInv, Reading

\* A second that fills a page and is left behind: only its own lines are lost,
\* and only at the window's far end is nothing left to ask for.
LEMMA StepPastStep ==
    ASSUME IInv, pc = "query", Limit > 0, NEW page, IsPage(page), StepPast(page), Kept
    PROVE  IInv'
<1> DEFINE L == LastSecond(page)
<1>1. TypeOK /\ NoRepeat /\ BoundsInv /\ PassedOnInv /\ CountInv /\ FoundInv
  BY DEF IInv, Reading
<1>2. /\ Cardinality(page) = Limit /\ Fresh(page) = {}
      /\ edge' = -1 /\ seen' = {}
      /\ UNCHANGED <<out, pc, store, caller, window, first>>
  BY DEF StepPast, Kept
<1>3. q' = IF Direction = "backward" THEN [q EXCEPT !.end = StartOf(L)]
                                     ELSE [q EXCEPT !.start = StartOf(L + 1)]
  BY DEF StepPast, StartOf
<1>4. /\ L \in Nat /\ StartOf(L) \in Nat /\ StartOf(L + 1) \in Nat
      /\ \E g \in page : Unix(g.time) = L
      /\ StartOf(L) < q.end /\ q.start < StartOf(L + 1)
      /\ \A u \in Nat : LeftBehind(u) => IF Direction = "backward" THEN L < u ELSE u < L
      /\ \A e \in store \ page :
             Ahead(e) => IF Direction = "backward" THEN Unix(e.time) <= L ELSE L <= Unix(e.time)
  BY <1>1, <1>2, TurnFacts, Zenon
<1> HIDE DEF L
<1>5. \A e \in page : Unix(e.time) = edge /\ \E f \in Emitted : Key(f) = Key(e)
  BY <1>1, <1>2, StaleIsKnown
<1>6. edge = L
  BY <1>4, <1>5
<1>7. /\ q \in [start : Nat, end : Nat] /\ q' \in [start : Nat, end : Nat]
      /\ Direction = "backward" => q'.start = q.start /\ q'.end = StartOf(L)
      /\ Direction # "backward" => q'.end = q.end /\ q'.start = StartOf(L + 1)
  BY <1>1, <1>3, <1>4 DEF TypeOK
<1>8. /\ Limit' = Limit /\ Direction' = Direction /\ FarSecond' = FarSecond
      /\ \A s : InSecond(s)' = InSecond(s)
  BY KeptFacts
<1>9. NoRepeat' /\ Emitted' = Emitted
  BY <1>1, <1>2 DEF NoRepeat, Emitted
<1>10. /\ page \subseteq InSecond(L) /\ InSecond(L) \in SUBSET Entries /\ page \in SUBSET Entries
       /\ Cardinality(InSecond(L)) \in Nat /\ Limit \in Nat
       /\ Limit <= Cardinality(InSecond(L))
  <2>1. page \subseteq InSecond(L) /\ InSecond(L) \in SUBSET Entries /\ page \in SUBSET Entries
    BY <1>1, <1>5, <1>6, PageFacts, TimeTypes DEF InSecond
  <2> QED
    BY <1>1, <1>2, <2>1, Sizes, LimitType
<1>11. TypeOK'
  BY <1>1, <1>2, <1>7 DEF TypeOK, Callers
<1>12. BoundsInv'
  BY <1>1, <1>2, <1>7, <1>8 DEF BoundsInv
<1>13. PassedOnInv'
  <2>1. ASSUME NEW e \in Emitted PROVE LeftBehind(Unix(e.time))'
    <3>1. Unix(e.time) \in Nat
      BY <1>1, OutType, TimeTypes
    <3>2. IF Direction = "backward" THEN L <= Unix(e.time) ELSE Unix(e.time) + 1 <= L + 1
      BY <1>1, <1>4, <1>6, <3>1 DEF PassedOnInv
    <3>3. IF Direction = "backward" THEN StartOf(L) <= StartOf(Unix(e.time))
                                    ELSE StartOf(Unix(e.time) + 1) <= StartOf(L + 1)
      BY <1>4, <3>1, <3>2, SecondOrder, SMTT(20)
    <3>4. StartOf(Unix(e.time)) \in Nat /\ StartOf(Unix(e.time) + 1) \in Nat
      BY <3>1, SecondOrder
    <3>5. IF Direction = "backward" THEN StartOf(Unix(e.time)) >= q'.end
                                    ELSE StartOf(Unix(e.time) + 1) <= q'.start
      BY <1>4, <1>7, <3>3, <3>4
    <3> QED
      BY <1>8, <3>5 DEF LeftBehind, StartOf
  <2> QED
    BY <1>2, <1>9, <2>1 DEF PassedOnInv, LeftBehind, Unix, Direction
<1>14. CountInv'
  BY <1>1, <1>2, <1>8, <1>9 DEF CountInv, Count
<1>15. FoundInv'
  <2> SUFFICES ASSUME NEW e \in first, window.start <= e.time, e.time < window.end,
                      ~(Cardinality(InSecond(Unix(e.time))) > Limit),
                      ~\E f \in Emitted : Key(f) = Key(e)
               PROVE  /\ q'.start <= e.time /\ e.time < q'.end
                      /\ Direction = "backward" => \A f \in Emitted : f.time >= e.time
    BY <1>2, <1>8, <1>9, Zenon DEF FoundInv, Ahead, Unix
  <2>1. e \in store /\ e.time \in Nat /\ Unix(e.time) \in Nat
    BY <1>1, TimeTypes
  <2>2. Ahead(e) /\ (Direction = "backward" => \A f \in Emitted : f.time >= e.time)
    BY <1>1 DEF FoundInv
  <2>3. e \notin page
    BY <1>5
  <2>4. Unix(e.time) # L
    <3> SUFFICES ASSUME Unix(e.time) = L PROVE FALSE
      OBVIOUS
    <3>1. e \in InSecond(L)
      BY <2>1 DEF InSecond
    <3>2. page # InSecond(L)
      BY <2>3, <3>1
    <3>3. Cardinality(InSecond(L)) # Limit
      BY <1>2, <1>10, <3>2, Sizes
    <3> QED
      BY <1>10, <3>3
  <2>5. IF Direction = "backward" THEN Unix(e.time) < L ELSE L + 1 <= Unix(e.time)
    BY <1>4, <2>1, <2>2, <2>3, <2>4
  <2>6. (Unix(e.time) < L => e.time < StartOf(L)) /\ (L + 1 <= Unix(e.time) => StartOf(L + 1) <= e.time)
    BY <1>4, <2>1, UnixBounds
  <2> QED
    BY <1>7, <2>2, <2>5, <2>6 DEF Ahead
<1>16. RefusedInv'
  <2> SUFFICES ASSUME ~(q'.start < q'.end) PROVE FarSecond = L
    BY <1>8, <1>10 DEF RefusedInv, Accepted
  <2>1. /\ window.start \in Nat /\ window.end \in Nat /\ window.end - 1 \in Nat
    BY <1>1, TimeTypes
  <2>2. CASE Direction = "backward"
    <3>1. StartOf(L) <= window.start /\ window.start < StartOf(L + 1)
      BY <1>1, <1>4, <1>7, <2>1, <2>2 DEF BoundsInv
    <3>2. Unix(window.start) \in Nat /\ L <= Unix(window.start) /\ Unix(window.start) < L + 1
      BY <1>4, <2>1, <3>1, UnixBounds, SecondFacts, SMTT(20)
    <3> QED
      BY <1>4, <2>2, <3>2 DEF FarSecond
  <2>3. CASE Direction # "backward"
    <3>1. StartOf(L) <= window.end - 1 /\ window.end - 1 < StartOf(L + 1)
      BY <1>1, <1>4, <1>7, <2>1, <2>3 DEF BoundsInv
    <3> DEFINE t == window.end - 1
    <3>2. t \in Nat /\ StartOf(L) <= t /\ t < StartOf(L + 1)
      BY <2>1, <3>1
    <3>3. FarSecond = Unix(t)
      BY <2>3 DEF FarSecond
    <3> HIDE DEF t
    <3>4. Unix(t) \in Nat /\ L <= Unix(t) /\ Unix(t) < L + 1
      BY <1>4, <3>2, UnixBounds, SecondFacts
    <3> QED
      BY <1>4, <3>3, <3>4
  <2> QED
    BY <2>2, <2>3
<1>17. NothingSkipped' /\ RefusedAtWideEdgeOnly'
  BY <1>2 DEF NothingSkipped, RefusedAtWideEdgeOnly
<1> QED
  BY <1>9, <1>11, <1>12, <1>13, <1>14, <1>15, <1>16, <1>17 DEF IInv, Reading

-----------------------------------------------------------------------------
(* The other steps, and the theorems.                                      *)

\* A query that fails, or a tail of no lines, ends the reading.
LEMMA FailStep ==
    ASSUME IInv, NEW reason \in {"error", "refused"}, Fail(reason),
           reason = "refused" => ~Accepted(q.start, q.end)
    PROVE  IInv'
<1>1. TypeOK /\ NoRepeat /\ RefusedInv
  BY DEF IInv, Reading, Fail
<1>2. pc' = reason /\ out' \in {out, <<>>} /\ UNCHANGED <<q, edge, seen>> /\ Kept
  BY DEF Fail, Kept
<1>3. NoRepeat'
  <2>1. CASE out' = out
    BY <1>1, <2>1 DEF NoRepeat
  <2>2. CASE out' = <<>>
    <3>1. DOMAIN out' = {}
      BY <2>2
    <3> QED
      BY <3>1, Zenon DEF NoRepeat
  <2> QED
    BY <1>2, <2>1, <2>2
<1>4. TypeOK'
  <2>1. (out \in Seq((SUBSET store) \ {{}}))'
    <3>1. out \in Seq((SUBSET store) \ {{}}) /\ <<>> \in Seq((SUBSET store) \ {{}})
      BY <1>1 DEF TypeOK
    <3>2. out' \in Seq((SUBSET store) \ {{}}) /\ store' = store
      BY <1>2, <3>1, Zenon DEF Kept
    <3> QED
      BY <3>2, Zenon
  <2> QED
    BY <1>1, <1>2, <2>1 DEF TypeOK, Callers, Kept
<1>5. RefusedAtWideEdgeOnly'
  <2>1. reason = "refused" => Cardinality(InSecond(FarSecond)) >= Limit
    BY <1>1 DEF RefusedInv
  <2>2. Limit' = Limit /\ InSecond(FarSecond)' = InSecond(FarSecond)
    BY <1>2 DEF Kept, Limit, InSecond, FarSecond, Direction, Unix
  <2>3. pc' = "refused" => (Cardinality(InSecond(FarSecond)) >= Limit)'
    BY <1>2, <2>1, <2>2
  <2> QED
    BY <2>3 DEF RefusedAtWideEdgeOnly, FarSecond
<1> QED
  BY <1>2, <1>3, <1>4, <1>5 DEF IInv, NothingSkipped

\* A tail of no lines has passed on none.
LEMMA TailNothingStep == ASSUME IInv, TailNothing PROVE IInv'
<1>1. TypeOK /\ NoRepeat /\ CountInv
  BY DEF IInv, Reading, TailNothing
<1>2. /\ pc' = "done" /\ caller.fn = "Tail" /\ caller.n = 0
      /\ UNCHANGED <<store, caller, window, first, q, edge, seen, out>>
  BY DEF TailNothing
<1>3. Limit = 0
  <2>1. Limit = Min({0, MaxLimit})
    BY <1>2 DEF Limit
  <2> QED
    BY <2>1, MinOfTwo, PagesAssumption
<1>4. out = <<>>
  BY <1>1, <1>3 DEF CountInv
<1>5. Emitted' = {} /\ Cardinality(Emitted') = 0
  BY <1>2, <1>4, FS_EmptySet DEF Emitted, Range
<1>6. NothingSkipped'
  BY <1>2, <1>5 DEF NothingSkipped
<1>7. TypeOK' /\ NoRepeat'
  BY <1>1, <1>2, Zenon DEF TypeOK, Callers, NoRepeat
<1> QED
  BY <1>2, <1>6, <1>7 DEF IInv, RefusedAtWideEdgeOnly

\* A line that arrives makes seconds wider, never narrower.
LEMMA ArriveStep == ASSUME IInv, NEW l \in Late, Arrive(l) PROVE IInv'
<1>1. TypeOK /\ NoRepeat /\ BoundsInv /\ PassedOnInv /\ CountInv /\ FoundInv /\ RefusedInv
  BY DEF IInv, Reading, Arrive
<1>2. /\ pc = "query" /\ store' = store \cup {l} /\ l \in Entries
      /\ UNCHANGED <<caller, window, first, q, edge, seen, out, pc>>
  BY PagesAssumption DEF Arrive, Ingest
<1>3. /\ Limit' = Limit /\ Direction' = Direction /\ FarSecond' = FarSecond /\ Emitted' = Emitted
  BY <1>2 DEF Limit, Direction, FarSecond, Emitted, Unix
<1>4. ASSUME NEW s
      PROVE  /\ Cardinality(InSecond(s)) \in Nat /\ Cardinality(InSecond(s)') \in Nat
             /\ Cardinality(InSecond(s)) <= Cardinality(InSecond(s)')
  <2>1. InSecond(s) \in SUBSET Entries /\ InSecond(s)' \in SUBSET Entries
    BY <1>1, <1>2 DEF InSecond, TypeOK
  <2>2. InSecond(s) \subseteq InSecond(s)'
    BY <1>2 DEF InSecond
  <2> QED
    BY <2>1, <2>2, Sizes
<1>5. TypeOK'
  <2>1. (SUBSET store) \ {{}} \subseteq (SUBSET store') \ {{}}
    BY <1>2
  <2>2. out \in Seq((SUBSET store') \ {{}})
    BY <1>1, <2>1 DEF TypeOK
  <2>3. seen \subseteq {Key(e) : e \in store'}
    BY <1>1, <1>2 DEF TypeOK
  <2> QED
    BY <1>1, <1>2, <2>2, <2>3 DEF TypeOK, Callers
<1>6. NoRepeat' /\ BoundsInv' /\ PassedOnInv' /\ CountInv'
  <2>1. NoRepeat'
    BY <1>1, <1>2 DEF NoRepeat
  <2>2. BoundsInv'
    BY <1>1, <1>2, <1>3 DEF BoundsInv
  <2>3. PassedOnInv'
    BY <1>1, <1>2, <1>3 DEF PassedOnInv, LeftBehind
  <2>4. CountInv'
    BY <1>1, <1>2, <1>3 DEF CountInv, Count
  <2> QED
    BY <2>1, <2>2, <2>3, <2>4
<1>7. FoundInv'
  <2> SUFFICES ASSUME NEW e \in first, window.start <= e.time, e.time < window.end,
                      ~(Cardinality(InSecond(Unix(e.time))') > Limit)
               PROVE  \/ \E f \in Emitted : Key(f) = Key(e)
                      \/ /\ Ahead(e)
                         /\ Direction = "backward" => \A f \in Emitted : f.time >= e.time
    BY <1>2, <1>3, Zenon DEF FoundInv, Ahead, InSecond, Unix
  <2>1. ~(Cardinality(InSecond(Unix(e.time))) > Limit)
    BY <1>1, <1>4, LimitType
  <2> QED
    BY <1>1, <2>1 DEF FoundInv
<1>8. RefusedInv'
  <2>1. Accepted(q.start, q.end)' <=> Accepted(q.start, q.end)
    BY <1>2 DEF Accepted
  <2>2. Cardinality(InSecond(FarSecond)) >= Limit => Cardinality(InSecond(FarSecond)') >= Limit
    <3>1. InSecond(FarSecond)' = {e \in store' : Unix(e.time) = FarSecond}
      BY <1>3 DEF InSecond, Unix
    <3>2. /\ {e \in store : Unix(e.time) = FarSecond} \subseteq InSecond(FarSecond)'
          /\ InSecond(FarSecond)' \in SUBSET Entries /\ InSecond(FarSecond) \in SUBSET Entries
      BY <1>1, <1>2, <3>1 DEF InSecond, TypeOK
    <3>3. /\ Cardinality(InSecond(FarSecond)) \in Nat /\ Cardinality(InSecond(FarSecond)') \in Nat
          /\ Cardinality(InSecond(FarSecond)) <= Cardinality(InSecond(FarSecond)')
      <4>1. InSecond(FarSecond) \subseteq InSecond(FarSecond)'
        BY <3>2 DEF InSecond
      <4> QED
        BY <3>2, <4>1, Sizes
    <3> QED
      BY <1>1, <3>3, LimitType
  <2> QED
    BY <1>1, <1>3, <2>1, <2>2 DEF RefusedInv
<1> QED
  BY <1>2, <1>5, <1>6, <1>7, <1>8 DEF IInv, Reading, NothingSkipped, RefusedAtWideEdgeOnly

\* Everything in the window is still to come.
LEMMA IInvInit == Init => IInv
<1> SUFFICES ASSUME Init PROVE IInv
  OBVIOUS
<1>1. /\ caller \in Callers /\ window \in Windows /\ store \subseteq Entries /\ first = store
      /\ q = window /\ edge = -1 /\ seen = {} /\ out = <<>> /\ pc = "query"
  BY DEF Init
<1>2. TypeOK
  BY <1>1, PagesAssumption DEF TypeOK
<1>3. Emitted = {} /\ Cardinality(Emitted) = 0 /\ Count(out) = 0
  <2>1. Emitted = {} /\ UNION {{i} \X out[i] : i \in DOMAIN out} = {}
    BY <1>1 DEF Emitted, Range
  <2> QED
    BY <2>1, FS_EmptySet DEF Count
<1>4. NoRepeat /\ BoundsInv /\ PassedOnInv
  BY <1>1, <1>3 DEF NoRepeat, BoundsInv, PassedOnInv
<1>5. CountInv
  <2>1. Limit > 0 /\ caller.fn = "Tail" => 0 < caller.n
    <3>1. caller.fn = "Tail" => caller.n \in Nat /\ Limit = Min({caller.n, MaxLimit})
      BY <1>2, LimitType DEF Limit
    <3> QED
      BY <3>1, MinOfTwo, PagesAssumption
  <2> QED
    BY <1>1, <1>3, <2>1 DEF CountInv
<1>6. FoundInv /\ RefusedInv
  BY <1>1, <1>2, <1>3, TimeTypes DEF FoundInv, Ahead, RefusedInv, Accepted
<1> QED
  BY <1>1, <1>2, <1>4, <1>5, <1>6 DEF IInv, Reading, NothingSkipped, RefusedAtWideEdgeOnly

\* Every step keeps the invariant.
LEMMA IInvStep == ASSUME IInv, [Next]_vars PROVE IInv'
<1>1. CASE TailNothing
  BY <1>1, TailNothingStep
<1>2. CASE Pages
  <2>1. PICK page : IsPage(page) /\ (Return(page) \/ StepPast(page) \/ Resume(page))
    BY <1>2, Zenon DEF Pages, IsPage
  <2>2. pc = "query" /\ Limit > 0 /\ Kept
    BY <1>2 DEF Pages, Kept
  <2> QED
    BY <2>1, <2>2, ReturnStep, StepPastStep, ResumeStep
<1>3. CASE QueryFails
  BY <1>3, FailStep DEF QueryFails
<1>4. CASE QueryRefused
  BY <1>4, FailStep DEF QueryRefused
<1>5. ASSUME NEW l \in Late, Arrive(l) PROVE IInv'
  BY <1>5, ArriveStep
<1>6. CASE UNCHANGED vars
  <2>1. UNCHANGED <<store, caller, window, first, q, edge, seen, out, pc>>
    BY <1>6 DEF vars
  <2>2. /\ Limit' = Limit /\ Direction' = Direction /\ FarSecond' = FarSecond
        /\ \A t : InSecond(t)' = InSecond(t)
    BY <2>1, KeptFacts DEF Kept
  <2>3. Emitted' = Emitted /\ Count(out)' = Count(out)
    BY <2>1 DEF Emitted, Count
  <2>4. TypeOK' /\ NoRepeat'
    BY <2>1, Zenon DEF IInv, TypeOK, Callers, NoRepeat
  <2>5. BoundsInv' <=> BoundsInv
    BY <2>1, <2>2 DEF BoundsInv
  <2>6. PassedOnInv' <=> PassedOnInv
    BY <2>1, <2>2, <2>3, Zenon DEF PassedOnInv, LeftBehind, Unix, Key
  <2>7. CountInv' <=> CountInv
    BY <2>1, <2>2, <2>3, Zenon DEF CountInv
  <2>8. FoundInv' <=> FoundInv
    BY <2>1, <2>2, <2>3, Zenon DEF FoundInv, Ahead, Unix, Key
  <2>9. RefusedInv' <=> RefusedInv
    BY <2>1, <2>2, Zenon DEF RefusedInv, Accepted
  <2>10. NothingSkipped' <=> NothingSkipped
    BY <2>1, <2>2, <2>3, Zenon DEF NothingSkipped, Unix, Key
  <2>11. RefusedAtWideEdgeOnly' <=> RefusedAtWideEdgeOnly
    BY <2>1, <2>2, Zenon DEF RefusedAtWideEdgeOnly, Unix
  <2> QED
    BY <2>1, <2>4, <2>5, <2>6, <2>7, <2>8, <2>9, <2>10, <2>11 DEF IInv, Reading
<1> QED
  BY <1>1, <1>2, <1>3, <1>4, <1>5, <1>6 DEF Next

\* The invariant holds throughout.
LEMMA Invariance == Spec => []IInv
BY IInvInit, IInvStep, PTL DEF Spec

\* No line is passed on twice, although consecutive pages overlap by a second
\* and lines arrive in between (fetch.go: Pages, the filter on edge and seen).
THEOREM PagesDoNotRepeat == Spec => []NoRepeat
<1>1. IInv => NoRepeat
  BY DEF IInv
<1> QED
  BY Invariance, <1>1, PTL

\* All passes on every line of the window that was there from the start, and
\* Tail the newest n of them, but for seconds that hold more than a page
\* (fetch.go: Pages, Tail, All).
THEOREM PagesSkipNothing == Spec => []NothingSkipped
<1>1. IInv => NothingSkipped
  BY DEF IInv
<1> QED
  BY Invariance, <1>1, PTL

\* The API refuses a query of Pages only after a second that fills a page at
\* the far end of the window (fetch.go: Pages, the step past a second).
THEOREM PagesRefusedAtWideEdge == Spec => []RefusedAtWideEdgeOnly
<1>1. IInv => RefusedAtWideEdgeOnly
  BY DEF IInv
<1> QED
  BY Invariance, <1>1, PTL
-----------------------------------------------------------------------------
(***************************************************************************)
(* Following.                                                              *)
(***************************************************************************)
\* What a forward query returns.
LEMMA FollowPageFacts ==
    ASSUME NEW start, NEW end, NEW limit,
           NEW page \in QueryRange(start, end, limit, "forward")
    PROVE  /\ page \subseteq store
           /\ \A e \in page : start <= e.time /\ e.time < end
           /\ \A e \in page, f \in store \ page :
                  start <= f.time /\ f.time < end => e.time <= f.time
BY DEF QueryRange, Cuts, kSubset, projectRange, Before

\* What a backlog holds.
LEMMA BacklogFacts ==
    ASSUME FollowTypeOK, NEW n, NEW lines \in BacklogLines(n)
    PROVE  lines \subseteq store /\ \A e \in lines : e.time < now
<1>1. PICK end \in 1..now :
          lines \in IF n < 0 THEN {projectRange(0, end)}
                   ELSE Cuts(projectRange(0, end), n, "backward")
  BY DEF BacklogLines
<1>2. now \in Int
  BY FollowAssumption DEF FollowTypeOK
<1>3. lines \subseteq store /\ \A e \in lines : e.time < end
  BY <1>1 DEF Cuts, kSubset, projectRange
<1>4. \A e \in store : e.time \in Int
  BY EntriesAssumption DEF FollowTypeOK
<1> QED BY <1>2, <1>3, <1>4

\* Lines have positive times.
LEMMA EntryTime == \A e \in Entries : e.time \in Nat /\ e.time > 0
BY EntriesAssumption

\* A set of lines has a size, and two sets of lines with none in common have
\* the sum of their sizes.
LEMMA DisjointSizes ==
    ASSUME NEW S \in SUBSET Entries, NEW T \in SUBSET Entries
    PROVE  /\ Cardinality(S) \in Nat
           /\ S \cap T = {} => Cardinality(S \cup T) = Cardinality(S) + Cardinality(T)
<1>1. IsFiniteSet(S) /\ IsFiniteSet(T)
  BY EntriesAssumption, FS_Subset
<1>2. Cardinality(S) \in Nat /\ Cardinality(T) \in Nat
  BY <1>1, FS_CardinalityType
<1>3. ASSUME S \cap T = {} PROVE Cardinality(S \cup T) = Cardinality(S) + Cardinality(T)
  <2>1. Cardinality(S \cup T) = Cardinality(S) + Cardinality(T) - Cardinality(S \cap T)
    BY <1>1, FS_Union
  <2>2. Cardinality(S \cap T) = 0
    BY <1>3, FS_EmptySet
  <2> QED BY <1>2, <2>1, <2>2
<1> QED BY <1>2, <1>3

-----------------------------------------------------------------------------
(* Types.                                                                  *)

\* Both ways out of get leave a token in the cache.
LEMMA AuthorizeType ==
    ASSUME FollowTypeOK, Authorize
    PROVE  cached' \in 0..MaxTokens
BY DEF FollowTypeOK, Authorize

\* The next interval between polls is a number.
LEMMA IntervalType ==
    ASSUME FollowTypeOK, NEW page
    PROVE  NextInterval(page) \in Nat
<1>1. ASSUME NEW a \in Nat, NEW b \in Nat PROVE Max({a, b}) \in Nat
  BY DEF Max
<1>2. ASSUME NEW a \in Nat, NEW b \in Nat PROVE Min({a, b}) \in Nat
  BY DEF Min
<1>3. Max({interval, followMinInterval}) \in Nat
  BY <1>1, FollowAssumption DEF FollowTypeOK
<1>4. Max({interval, followMinInterval}) + followBackoffStep \in Nat
  BY <1>3, FollowAssumption
<1>5. Min({Max({interval, followMinInterval}) + followBackoffStep, followMaxInterval}) \in Nat
  BY <1>2, <1>4, FollowAssumption
<1> QED BY <1>5, FollowAssumption DEF NextInterval

\* What admit leaves behind, when the lines are stored ones.
LEMMA AdmitFacts ==
    ASSUME FollowTypeOK, NEW lines \in SUBSET store, admit(lines)
    PROVE  /\ cursor' \in Nat
           /\ cursor' = cursor \/ \E e \in Admitted(lines) : cursor' = e.time
           /\ cursor <= cursor'
           /\ \A e \in Admitted(lines) : e.time <= cursor'
           /\ followSeen' \subseteq printed \cup Admitted(lines)
           /\ \A e \in followSeen \cup Admitted(lines) :
                  e \in followSeen' \/ e.time < cursor' - (FollowOverlap + Second)
<1>1. Admitted(lines) \subseteq Entries
  BY DEF Admitted, FollowTypeOK
<1>2. /\ cursor' \in Nat
      /\ cursor' = cursor \/ \E e \in Admitted(lines) : cursor' = e.time
      /\ cursor <= cursor'
      /\ \A e \in Admitted(lines) : e.time <= cursor'
  BY <1>1, EntryTime DEF admit, Newest, FollowTypeOK
<1>3. followSeen' \subseteq printed \cup Admitted(lines)
  BY DEF admit, Remembered, FollowTypeOK
<1>4. ASSUME NEW e \in followSeen \cup Admitted(lines)
      PROVE  e \in followSeen' \/ e.time < cursor' - (FollowOverlap + Second)
  <2>1. e.time \in Nat
    BY <1>1, EntryTime DEF FollowTypeOK
  <2> QED BY <1>2, <2>1, FollowAssumption, EntriesAssumption DEF admit, Remembered
<1> QED BY <1>2, <1>3, <1>4

\* The types hold at first.
LEMMA TypeInit == FollowInit => FollowTypeOK
<1> SUFFICES ASSUME FollowInit PROVE FollowTypeOK
  OBVIOUS
<1>1. /\ now \in 1..MaxTime /\ cached \in 0..MaxTokens /\ failures \in 0..MaxFailures
      /\ offered \in 1..MaxTokens /\ accepted \in 1..MaxTokens
      /\ cursor \in Nat /\ floor \in Nat /\ since \in Int /\ interval \in Nat /\ count \in Nat
  BY FollowAssumption DEF FollowInit
<1>2. /\ failing \in BOOLEAN /\ skipOverlap \in BOOLEAN /\ skipped \in BOOLEAN
      /\ phase \in {"backlog", "start", "poll"} \cup Ended
      /\ store \subseteq Entries /\ followSeen \subseteq printed
      /\ printed \subseteq store /\ timely \subseteq store
  BY Zenon DEF FollowInit
<1> QED BY <1>1, <1>2 DEF FollowTypeOK

\* Every step keeps the types.
LEMMA TypeStep == FollowTypeOK /\ [FollowNext]_followVars => FollowTypeOK'
<1> SUFFICES ASSUME FollowTypeOK, [FollowNext]_followVars PROVE FollowTypeOK'
  OBVIOUS
<1>0. /\ MaxTime \in Nat \ {0} /\ MaxFailures \in Nat /\ MaxTokens \in Nat \ {0}
      /\ followErrorInterval \in Nat /\ FollowOverlap \in Nat
  BY FollowAssumption
<1> USE <1>0
<1>1. ASSUME NEW n \in BacklogSizes, Backlog(n) PROVE FollowTypeOK'
  <2>1. PICK lines \in BacklogLines(n) :
            /\ admit(lines)
            /\ floor' = cursor'
            /\ printed' = printed \cup lines
            /\ count' = count + Cardinality(lines)
    BY <1>1 DEF Backlog
  <2>2. lines \subseteq store
    BY <2>1, BacklogFacts
  <2>3. cached' \in 0..MaxTokens
    BY <1>1, AuthorizeType DEF Backlog, Authorized
  <2>4. Cardinality(lines) \in Nat
    BY <2>2, DisjointSizes DEF FollowTypeOK
  <2>5. followSeen' \subseteq printed'
    BY <1>1, <2>1, <2>2, AdmitFacts DEF Backlog, Admitted
  <2>6. cursor' \in Nat /\ floor' \in Nat
    BY <2>1, <2>2, AdmitFacts
  <2>7. count' \in Nat
    BY <2>1, <2>4 DEF FollowTypeOK
  <2>8. UNCHANGED <<now, store, runVars, timely, skipped, tokenVars, failures>> /\ phase' = "start"
    BY <1>1 DEF Backlog
  <2>9. printed' \subseteq store'
    BY <2>1, <2>2, <2>8 DEF FollowTypeOK
  <2> QED BY <2>3, <2>5, <2>6, <2>7, <2>8, <2>9 DEF FollowTypeOK, runVars, tokenVars
<1>2. CASE BacklogFails
  BY <1>2 DEF BacklogFails, FollowTypeOK, followerVars, runVars, outVars, tokenVars, Ended
<1>3. CASE Run
  BY <1>3 DEF Run, FollowTypeOK, followerVars, outVars, tokenVars
<1>4. CASE Poll
  <2>1. PICK page \in QueryRange(PollStart, PollEnd, MaxLimit, "forward") :
            /\ admit(page)
            /\ printed' = printed \cup Admitted(page)
            /\ count' = count + Cardinality(Admitted(page))
            /\ skipOverlap' = SkipOverlap(page)
            /\ skipped' = (skipped \/ SkipOverlap(page))
            /\ interval' = NextInterval(page)
    BY <1>4 DEF Poll
  <2>2. page \subseteq store
    BY <2>1, FollowPageFacts
  <2>3. cached' \in 0..MaxTokens
    BY <1>4, AuthorizeType DEF Poll, Authorized
  <2>4. Admitted(page) \subseteq store
    BY <2>2 DEF Admitted
  <2>5. Cardinality(Admitted(page)) \in Nat
    BY <2>4, DisjointSizes DEF FollowTypeOK
  <2>6. interval' \in Nat
    BY <2>1, IntervalType
  <2>7. skipOverlap' \in BOOLEAN /\ skipped' \in BOOLEAN
    BY <2>1 DEF SkipOverlap
  <2>8. cursor' \in Nat /\ followSeen' \subseteq printed'
    BY <2>1, <2>2, AdmitFacts
  <2>9. /\ printed' \subseteq store' /\ count' \in Nat /\ store' \subseteq Entries
        /\ timely' \subseteq store'
    <3>1. store' = store /\ timely' = timely
      BY <1>4 DEF Poll
    <3>2. count' \in Nat
      BY <2>1, <2>5 DEF FollowTypeOK
    <3> QED BY <2>1, <2>4, <3>1, <3>2 DEF FollowTypeOK
  <2>10. /\ now' \in 1..MaxTime /\ failures' \in 0..MaxFailures
         /\ phase' \in {"backlog", "start", "poll"} \cup Ended
         /\ floor' \in Nat /\ since' \in Int /\ failing' \in BOOLEAN
         /\ offered' \in 1..MaxTokens /\ accepted' \in 1..MaxTokens
    <3>1. UNCHANGED <<now, phase, floor, since, tokenVars, failures>> /\ failing' = FALSE
      BY <1>4 DEF Poll
    <3>2. phase' \in {"backlog", "start", "poll"} \cup Ended
      BY <3>1 DEF FollowTypeOK
    <3>3. offered' \in 1..MaxTokens /\ accepted' \in 1..MaxTokens
      BY <3>1 DEF FollowTypeOK, tokenVars
    <3>4. floor' \in Nat /\ since' \in Int /\ failing' \in BOOLEAN
      BY <3>1, Zenon DEF FollowTypeOK
    <3>5. now' \in 1..MaxTime /\ failures' \in 0..MaxFailures
      BY <3>1 DEF FollowTypeOK
    <3> QED BY <3>2, <3>3, <3>4, <3>5
  <2> QED BY <2>3, <2>6, <2>7, <2>8, <2>9, <2>10 DEF FollowTypeOK
<1>5. CASE PollFails
  <2>1. failures' \in 0..MaxFailures
    BY <1>5 DEF PollFails, FollowTypeOK
  <2>2. cached' \in 0..MaxTokens
    BY <1>5 DEF PollFails, FollowTypeOK
  <2>3. /\ UNCHANGED <<now, store, phase, followerVars, since, skipOverlap, outVars, timely>>
        /\ UNCHANGED <<skipped, tokenVars>>
        /\ failing' = TRUE /\ interval' = followErrorInterval
    BY <1>5 DEF PollFails
  <2> QED BY <2>1, <2>2, <2>3 DEF FollowTypeOK, followerVars, outVars, tokenVars
<1>6. CASE SignedOut
  <2>1. cached' \in 0..MaxTokens
    BY <1>6, AuthorizeType DEF SignedOut, Unauthorized
  <2>2. phase' \in {"backlog", "start", "poll"} \cup Ended
    BY <1>6 DEF SignedOut, End, Ended
  <2>3. UNCHANGED <<now, store, followerVars, runVars, outVars, timely, skipped, tokenVars, failures>>
    BY <1>6 DEF SignedOut, End
  <2> QED BY <2>1, <2>2, <2>3 DEF FollowTypeOK, followerVars, runVars, outVars, tokenVars
<1>7. CASE Denied
  <2>1. cached' \in 0..MaxTokens
    BY <1>7, AuthorizeType DEF Denied, Authorized
  <2>2. phase' \in Ended
    BY <1>7 DEF Denied, End, Ended
  <2> QED BY <1>7, <2>1, <2>2 DEF Denied, End, FollowTypeOK, followerVars, runVars, outVars,
       tokenVars
<1>8. CASE Cancel
  BY <1>8 DEF Cancel, End, FollowTypeOK, followerVars, runVars, outVars, tokenVars, Ended
<1>9. CASE Tick
  BY <1>9 DEF Tick, FollowTypeOK, followerVars, runVars, outVars, tokenVars
<1>10. ASSUME NEW e \in Entries, Appear(e) PROVE FollowTypeOK'
  BY <1>10 DEF Appear, Ingest, FollowTypeOK, followerVars, runVars, outVars, tokenVars
<1>11. CASE Renew
  <2>1. offered' \in 1..MaxTokens
    BY <1>11 DEF Renew, FollowTypeOK
  <2>2. /\ UNCHANGED <<now, store, phase, followerVars, runVars, outVars, timely, skipped>>
        /\ UNCHANGED <<cached, accepted, failures>>
    BY <1>11 DEF Renew
  <2> QED BY <2>1, <2>2 DEF FollowTypeOK, followerVars, runVars, outVars
<1>12. CASE Expire
  <2>1. accepted' \in 1..MaxTokens
    BY <1>12 DEF Expire, FollowTypeOK
  <2>2. /\ UNCHANGED <<now, store, phase, followerVars, runVars, outVars, timely, skipped>>
        /\ UNCHANGED <<cached, offered, failures>>
    BY <1>12 DEF Expire
  <2> QED BY <2>1, <2>2 DEF FollowTypeOK, followerVars, runVars, outVars
<1>13. CASE UNCHANGED followVars
  BY <1>13 DEF followVars, FollowTypeOK, followerVars, runVars, outVars, tokenVars
<1> QED BY <1>1, <1>2, <1>3, <1>4, <1>5, <1>6, <1>7, <1>8, <1>9, <1>10, <1>11, <1>12,
     <1>13 DEF FollowNext

\* Every variable keeps its type: in particular the follower only remembers
\* lines it has printed, and prints only lines that are stored.
THEOREM TypeCorrect == FollowSpec => []FollowTypeOK
BY TypeInit, TypeStep, PTL DEF FollowSpec

-----------------------------------------------------------------------------
(* No repeats.                                                             *)

\* The steps that print, named with the lines they print.
Prints(lines) ==
    /\ lines \subseteq store
    /\ admit(lines)
    /\ printed' = printed \cup Admitted(lines)
    /\ count' = count + Cardinality(Admitted(lines))

\* A printed line is not newer than the cursor, and one that the follower has
\* forgotten is out of reach of every poll.
Forgotten ==
    /\ \A e \in printed : e.time <= cursor
    /\ \A e \in printed \ followSeen : e.time < cursor - (FollowOverlap + Second)
    /\ phase = "backlog" => printed = {} /\ floor = 0

\* Steps that print nothing leave the follower alone.
LEMMA SilentStep ==
    ASSUME FollowTypeOK, [FollowNext]_followVars, ~Poll, \A n \in BacklogSizes : ~Backlog(n)
    PROVE  /\ UNCHANGED <<cursor, followSeen, floor, printed, count>>
           /\ phase' = "backlog" => phase = "backlog"
BY DEF FollowNext, BacklogFails, Run, PollFails, SignedOut, Denied, Cancel, End, Tick, Appear,
       Ingest, Renew, Expire, followVars, followerVars, outVars, Ended

\* A poll asks for nothing older than the overlap.
LEMMA PollReach ==
    ASSUME FollowTypeOK, cursor > 0
    PROVE  PollStart \in Int /\ PollStart >= cursor - FollowOverlap
BY FollowAssumption DEF FollowTypeOK, PollStart

\* The backlog prints, and every line of it.
LEMMA BacklogPrints ==
    ASSUME FollowTypeOK, Forgotten, NEW n \in BacklogSizes, Backlog(n)
    PROVE  \E lines : /\ Prints(lines)
                      /\ Admitted(lines) \cap printed = {}
                      /\ \A e \in lines : e.time < now
<1>1. PICK lines \in BacklogLines(n) :
          /\ admit(lines)
          /\ printed' = printed \cup lines
          /\ count' = count + Cardinality(lines)
  BY DEF Backlog
<1>2. lines \subseteq store /\ \A e \in lines : e.time < now
  BY <1>1, BacklogFacts
<1>3. floor = 0 /\ printed = {} /\ followSeen = {}
  BY DEF Backlog, Forgotten, FollowTypeOK
<1>4. \A e \in lines : e.time >= 0
  BY <1>2, EntryTime DEF FollowTypeOK
<1>5. Admitted(lines) = lines
  BY <1>3, <1>4 DEF Admitted
<1> QED BY <1>1, <1>2, <1>3, <1>5 DEF Prints

\* A poll prints, and nothing that was printed before.
LEMMA PollPrints ==
    ASSUME FollowTypeOK, Forgotten, Poll
    PROVE  \E page \in QueryRange(PollStart, PollEnd, MaxLimit, "forward") :
               /\ Prints(page)
               /\ Admitted(page) \cap printed = {}
               /\ skipped' = (skipped \/ SkipOverlap(page))
               /\ skipOverlap' = SkipOverlap(page)
<1>1. PICK page \in QueryRange(PollStart, PollEnd, MaxLimit, "forward") :
          /\ admit(page)
          /\ printed' = printed \cup Admitted(page)
          /\ count' = count + Cardinality(Admitted(page))
          /\ skipOverlap' = SkipOverlap(page)
          /\ skipped' = (skipped \/ SkipOverlap(page))
  BY DEF Poll
<1>2. page \subseteq store /\ \A e \in page : PollStart <= e.time
  BY <1>1, FollowPageFacts
<1>3. ASSUME NEW e \in Admitted(page), e \in printed PROVE FALSE
  <2>1. e \in page /\ e \notin followSeen
    BY <1>3 DEF Admitted
  <2>2. e.time \in Nat /\ e.time > 0
    BY <1>2, <2>1, EntryTime DEF FollowTypeOK
  <2>3. e.time <= cursor /\ e.time < cursor - (FollowOverlap + Second)
    BY <1>3, <2>1 DEF Forgotten
  <2>4. cursor \in Nat /\ cursor > 0
    BY <2>2, <2>3 DEF FollowTypeOK
  <2>5. PollStart \in Int /\ PollStart >= cursor - FollowOverlap /\ PollStart <= e.time
    BY <1>2, <2>1, <2>4, PollReach
  <2> QED BY <2>2, <2>3, <2>4, <2>5, FollowAssumption, EntriesAssumption
<1> QED BY <1>1, <1>2, <1>3 DEF Prints

\* Printing keeps what is known of the printed lines.
LEMMA PrintsKeeps ==
    ASSUME FollowTypeOK, Forgotten, PrintedOnce, NEW lines, Prints(lines),
           Admitted(lines) \cap printed = {}, phase' # "backlog"
    PROVE  Forgotten' /\ PrintedOnce'
<1>1. Admitted(lines) \subseteq Entries /\ printed \subseteq Entries /\ followSeen \subseteq Entries
  BY DEF Prints, Admitted, FollowTypeOK
<1>2. /\ cursor' \in Nat /\ cursor <= cursor'
      /\ \A e \in Admitted(lines) : e.time <= cursor'
      /\ \A e \in followSeen \cup Admitted(lines) :
             e \in followSeen' \/ e.time < cursor' - (FollowOverlap + Second)
  BY AdmitFacts DEF Prints
<1>3. ASSUME NEW e \in printed' PROVE e.time <= cursor'
  <2>1. e.time \in Nat /\ cursor \in Nat
    BY <1>1, <1>3, EntryTime DEF Prints, FollowTypeOK
  <2> QED BY <1>2, <1>3, <2>1 DEF Prints, Forgotten
<1>4. ASSUME NEW e \in printed' \ followSeen' PROVE e.time < cursor' - (FollowOverlap + Second)
  <2>1. e.time \in Nat /\ cursor \in Nat
    BY <1>1, <1>4, EntryTime DEF Prints, FollowTypeOK
  <2>2. CASE e \in followSeen \cup Admitted(lines)
    BY <1>2, <1>4, <2>2
  <2>3. CASE e \in printed \ followSeen
    BY <1>2, <2>1, <2>3, FollowAssumption, EntriesAssumption DEF Forgotten
  <2> QED BY <1>4, <2>2, <2>3 DEF Prints
<1>5. count' = Cardinality(printed')
  <2>1. Cardinality(printed \cup Admitted(lines))
            = Cardinality(printed) + Cardinality(Admitted(lines))
    BY <1>1, DisjointSizes
  <2> QED BY <2>1 DEF Prints, PrintedOnce
<1> QED BY <1>3, <1>4, <1>5 DEF Forgotten, PrintedOnce

\* No step prints a line again: one that was forgotten is out of reach.
LEMMA RepeatStep ==
    ASSUME FollowTypeOK, Forgotten, PrintedOnce, [FollowNext]_followVars
    PROVE  Forgotten' /\ PrintedOnce'
<1>1. ASSUME NEW n \in BacklogSizes, Backlog(n) PROVE Forgotten' /\ PrintedOnce'
  <2>1. phase' # "backlog"
    BY <1>1 DEF Backlog
  <2> QED BY <1>1, <2>1, BacklogPrints, PrintsKeeps
<1>2. CASE Poll
  <2>1. phase' # "backlog"
    BY <1>2 DEF Poll
  <2> QED BY <1>2, <2>1, PollPrints, PrintsKeeps
<1>3. CASE ~Poll /\ \A n \in BacklogSizes : ~Backlog(n)
  BY <1>3, SilentStep DEF Forgotten, PrintedOnce
<1> QED BY <1>1, <1>2, <1>3

\* No line is printed twice, by the backlog and the follower or by two polls
\* (admit, follow.go:125-151), for every page size, overlap and order of arrival.
THEOREM RepeatCorrect == FollowSpec => []PrintedOnce
<1>1. FollowInit => Forgotten /\ PrintedOnce
  BY FS_EmptySet DEF FollowInit, Forgotten, PrintedOnce
<1> QED BY <1>1, TypeInit, TypeStep, RepeatStep, PTL DEF FollowSpec

-----------------------------------------------------------------------------
(* What a poll prints, and how the command ends.                           *)

\* A poll prints nothing from before its overlap or the floor.
LEMMA OlderStep ==
    ASSUME FollowTypeOK, Forgotten, [FollowNext]_followVars, phase = "poll",
           NEW e \in printed' \ printed
    PROVE  e.time >= floor /\ e.time >= cursor - FollowOverlap
<1>1. Poll
  BY SilentStep DEF Backlog
<1>2. PICK page \in QueryRange(PollStart, PollEnd, MaxLimit, "forward") : Prints(page)
  BY <1>1, PollPrints
<1>3. e \in page /\ e.time >= floor /\ page \subseteq store
  BY <1>2 DEF Prints, Admitted
<1>4. e.time \in Nat /\ cursor \in Nat
  BY <1>3, EntryTime DEF FollowTypeOK
<1>5. PollStart <= e.time
  BY <1>2, <1>3, FollowPageFacts
<1>6. CASE cursor > 0
  BY <1>3, <1>4, <1>5, <1>6, PollReach, FollowAssumption
<1>7. CASE cursor = 0
  BY <1>3, <1>4, <1>7, FollowAssumption
<1> QED BY <1>4, <1>6, <1>7

\* Following prints nothing older than the backlog's newest line (follow.go:45-51),
\* nor older than the overlap before its cursor.
THEOREM OlderCorrect == FollowSpec => NothingOlder
<1>1. FollowInit => Forgotten /\ PrintedOnce
  BY FS_EmptySet DEF FollowInit, Forgotten, PrintedOnce
<1>2. FollowTypeOK /\ Forgotten /\ [FollowNext]_followVars =>
          [\A e \in printed' \ printed :
              phase = "poll" => e.time >= floor /\ e.time >= cursor - FollowOverlap]_followVars
  BY OlderStep
<1> QED BY <1>1, <1>2, TypeInit, TypeStep, RepeatStep, PTL DEF FollowSpec, NothingOlder

\* A command that ends with a 401 had a token source that was behind: a cached
\* token that the API no longer accepts is replaced first (client.go:211-253).
THEOREM SignedOutCorrect == FollowSpec => SignedOutOnlyWhenStale
<1>1. ASSUME FollowTypeOK, [FollowNext]_followVars, phase' = "unauthorized", phase # phase'
      PROVE  offered < accepted
  <2>1. SignedOut
    BY <1>1, Zenon DEF FollowNext, Backlog, BacklogFails, Run, Poll, PollFails, Denied, Cancel, End,
         Tick,
                Appear, Renew, Expire, followVars
  <2>2. PICK token \in {cached, offered} \ {0} :
            cached' = IF token < accepted THEN offered ELSE token
    BY <2>1 DEF SignedOut, Unauthorized, Authorize
  <2>3. cached' < accepted
    BY <2>1 DEF SignedOut, Unauthorized
  <2>4. cached \in Nat /\ offered \in Nat /\ accepted \in Nat
    BY <1>1, FollowAssumption DEF FollowTypeOK
  <2> QED BY <2>2, <2>3, <2>4
<1>2. FollowTypeOK /\ [FollowNext]_followVars =>
          [phase' = "unauthorized" /\ phase # phase' => offered < accepted]_followVars
  BY <1>1
<1> QED BY <1>2, TypeInit, TypeStep, PTL DEF FollowSpec, SignedOutOnlyWhenStale

\* The cursor and the first poll's start lie before the end of the next poll.
CursorAhead ==
    /\ cursor < now + followEndSlack
    /\ since < now + followEndSlack

\* Every step keeps the clock ahead of where the next poll begins.
LEMMA CursorAheadStep ==
    ASSUME FollowTypeOK, Forgotten, CursorAhead, [FollowNext]_followVars
    PROVE  CursorAhead'
<1> USE FollowAssumption
<1>1. now \in Nat /\ cursor \in Nat /\ since \in Int
  BY DEF FollowTypeOK
<1>2. ASSUME NEW n \in BacklogSizes, Backlog(n) PROVE CursorAhead'
  <2>1. PICK lines : Prints(lines) /\ \A e \in lines : e.time < now
    BY <1>2, BacklogPrints
  <2>2. cursor' = cursor \/ \E e \in lines : cursor' = e.time
    BY <2>1, AdmitFacts DEF Prints, Admitted
  <2>3. cursor' \in Nat
    BY <2>1, AdmitFacts DEF Prints
  <2>4. cursor' < now + followEndSlack
    BY <1>1, <2>1, <2>2, <2>3 DEF CursorAhead
  <2> QED BY <1>2, <2>4 DEF CursorAhead, Backlog, runVars
<1>3. CASE Poll
  <2>1. PICK page \in QueryRange(PollStart, PollEnd, MaxLimit, "forward") : Prints(page)
    BY <1>3, PollPrints
  <2>2. \A e \in page : e.time < PollEnd
    BY <2>1, FollowPageFacts
  <2>3. cursor' = cursor \/ \E e \in page : cursor' = e.time
    BY <2>1, AdmitFacts DEF Prints, Admitted
  <2>4. cursor' < now + followEndSlack
    BY <2>2, <2>3 DEF CursorAhead, PollEnd
  <2> QED BY <1>3, <2>4 DEF CursorAhead, Poll
<1>4. CASE ~Poll /\ \A n \in BacklogSizes : ~Backlog(n)
  <2>1. cursor' = cursor
    BY <1>4, SilentStep
  <2>2. CASE Run
    <3>1. now' = now /\ since' = now - FollowOverlap
      BY <2>2 DEF Run
    <3> QED BY <1>1, <2>1, <3>1 DEF CursorAhead
  <2>3. CASE Tick
    <3>1. now' = now + 1 /\ since' = since
      BY <2>3 DEF Tick, runVars
    <3> QED BY <1>1, <2>1, <3>1 DEF CursorAhead
  <2>4. CASE ~Run /\ ~Tick
    <3>1. now' = now /\ since' = since
      BY <1>4, <2>4 DEF FollowNext, BacklogFails, PollFails, SignedOut, Denied, Cancel, End,
                        Appear, Renew, Expire, followVars, runVars
    <3> QED BY <2>1, <3>1 DEF CursorAhead
  <2> QED BY <2>2, <2>3, <2>4
<1> QED BY <1>2, <1>3, <1>4

\* So a poll never asks for an empty window.
LEMMA RefusedStep ==
    ASSUME FollowTypeOK, CursorAhead, NeverRefused, [FollowNext]_followVars
    PROVE  NeverRefused'
<1>1. CASE Denied
  <2>1. PollStart < PollEnd
    BY FollowAssumption DEF PollStart, PollEnd, CursorAhead, FollowTypeOK
  <2> QED BY <1>1, <2>1 DEF Denied, End, Accepted, NeverRefused
<1>2. CASE ~Denied
  BY <1>2, Zenon DEF FollowNext, Backlog, BacklogFails, Run, Poll, PollFails, SignedOut, Cancel, End,
       Tick,
              Appear, Renew, Expire, followVars, NeverRefused
<1> QED BY <1>1, <1>2

\* The follower never asks for an empty window, which would end it
\* (follow.go:79-85, Permanent at client.go:313-323).
THEOREM RefusedCorrect == FollowSpec => []NeverRefused
<1>1. FollowInit => Forgotten /\ PrintedOnce /\ CursorAhead /\ NeverRefused
  BY FS_EmptySet, FollowAssumption DEF FollowInit, Forgotten, PrintedOnce, CursorAhead,
       NeverRefused
<1> QED BY <1>1, TypeInit, TypeStep, RepeatStep, CursorAheadStep, RefusedStep, PTL DEF FollowSpec

-----------------------------------------------------------------------------
(* Lines in reach stay in reach.                                           *)

\* A poll that leaves the overlap out is remembered, none comes before Run, and
\* what counts as timely is not older than the backlog.
Overlapping ==
    /\ skipOverlap => skipped
    /\ phase \in {"backlog", "start"} => ~skipped
    /\ \A e \in timely : e.time >= floor
    /\ phase \in {"backlog", "start"} => timely = {}

\* Where a poll that overlaps starts.
Reach == IF cursor > 0 THEN cursor - FollowOverlap ELSE since

\* Every step keeps the overlap of the next poll.
LEMMA OverlappingStep ==
    ASSUME FollowTypeOK, Overlapping, [FollowNext]_followVars
    PROVE  Overlapping'
<1>1. ASSUME NEW n \in BacklogSizes, Backlog(n) PROVE Overlapping'
  BY <1>1 DEF Backlog, Overlapping, runVars
<1>2. CASE Run
  BY <1>2 DEF Run, Overlapping, followerVars
<1>3. CASE Poll
  <2>1. skipOverlap' => skipped'
    BY <1>3, Zenon DEF Poll
  <2> QED BY <1>3, <2>1 DEF Poll, Overlapping
<1>4. ASSUME NEW e \in Entries, Appear(e) PROVE Overlapping'
  BY <1>4 DEF Appear, Overlapping, followerVars, runVars
<1>5. CASE BacklogFails \/ PollFails \/ Tick \/ Renew \/ Expire \/ UNCHANGED followVars
  <2>1. /\ UNCHANGED <<floor, skipOverlap, skipped, timely>>
        /\ phase' \in {"backlog", "start"} => phase \in {"backlog", "start"}
    BY <1>5 DEF BacklogFails, PollFails, Tick, Renew, Expire, followVars, followerVars, runVars
  <2> QED BY <2>1 DEF Overlapping
<1>6. CASE SignedOut \/ Denied \/ Cancel
  <2>1. UNCHANGED <<timely, skipped, skipOverlap, floor>>
    BY <1>6 DEF SignedOut, Denied, Cancel, End, followerVars, runVars
  <2>2. phase' \notin {"backlog", "start"}
    BY <1>6 DEF SignedOut, Denied, Cancel, End
  <2> QED BY <2>1, <2>2 DEF Overlapping
<1> QED BY <1>1, <1>2, <1>3, <1>4, <1>5, <1>6 DEF FollowNext

\* A poll leaves every timely line it does not print in reach: a line that the
\* page leaves out is not older than the page, and so not than the new cursor.
LEMMA PollKeepsReach ==
    ASSUME FollowTypeOK, Forgotten, Overlapping, Poll, ~skipped',
           TimelyStaysInReach, NEW e \in timely \ printed'
    PROVE  e.time >= PollStart'
<1> USE FollowAssumption
<1>1. PICK page \in QueryRange(PollStart, PollEnd, MaxLimit, "forward") :
          /\ Prints(page)
          /\ skipped' = (skipped \/ SkipOverlap(page))
          /\ skipOverlap' = SkipOverlap(page)
  BY PollPrints
<1>2. ~skipped /\ ~skipOverlap /\ ~skipOverlap'
  BY <1>1, Zenon DEF Overlapping, FollowTypeOK
<1>3. since' = since /\ phase = "poll"
  BY DEF Poll
<1>4. e \in store /\ e \notin printed /\ e.time \in Nat
  BY <1>1, EntryTime DEF FollowTypeOK, Prints
<1>5. e.time >= PollStart
  BY <1>2, <1>3, <1>4 DEF TimelyStaysInReach
<1>6. e \notin page
  BY <1>1, <1>4 DEF Prints, Admitted, Overlapping, FollowTypeOK
<1>7. \A f \in page : f.time <= e.time
  <2> SUFFICES ASSUME NEW f \in page PROVE f.time <= e.time
    OBVIOUS
  <2>1. page \subseteq store /\ f.time < PollEnd
    BY <1>1, FollowPageFacts
  <2>2. f.time \in Nat /\ PollEnd \in Int
    BY <2>1, EntryTime DEF FollowTypeOK, PollEnd
  <2>3. CASE e.time < PollEnd
    BY <1>1, <1>4, <1>5, <1>6, <2>3, FollowPageFacts
  <2>4. CASE ~(e.time < PollEnd)
    BY <1>4, <2>1, <2>2, <2>4
  <2> QED BY <2>3, <2>4
<1>8. cursor' \in Nat /\ cursor \in Nat
      /\ (cursor' = cursor \/ \E f \in page : cursor' = f.time)
  BY <1>1, AdmitFacts DEF Prints, Admitted, FollowTypeOK
<1>9. CASE cursor' = cursor
  BY <1>2, <1>3, <1>5, <1>9 DEF PollStart
<1>10. CASE \E f \in page : cursor' = f.time
  <2>1. cursor' <= e.time /\ cursor' > 0
    <3>1. page \subseteq Entries
      BY <1>1, FollowPageFacts DEF FollowTypeOK
    <3> QED BY <1>7, <1>10, <3>1, EntryTime
  <2>2. PollStart' = cursor' - FollowOverlap
    BY <1>2, <2>1 DEF PollStart
  <2> QED BY <1>4, <1>8, <2>1, <2>2
<1> QED BY <1>8, <1>9, <1>10

\* A line that came in time stays within reach until it is printed.
LEMMA TimelyStep ==
    ASSUME FollowTypeOK, Forgotten, Overlapping, TimelyStaysInReach, [FollowNext]_followVars
    PROVE  TimelyStaysInReach'
<1>0. SUFFICES ASSUME phase' = "poll", ~skipped', NEW e \in timely' \ printed'
               PROVE  e.time >= PollStart'
  BY DEF TimelyStaysInReach
<1>1. CASE Poll
  BY <1>0, <1>1, PollKeepsReach, Zenon DEF Poll
<1>2. CASE Run
  <2>1. ~skipOverlap' /\ cursor' = cursor /\ since' = now - FollowOverlap
    BY <1>2 DEF Run, Overlapping, followerVars, FollowTypeOK
  <2> QED BY <1>0, <1>2, <2>1 DEF Run, PollStart
<1>3. ASSUME NEW f \in Entries, Appear(f) PROVE e.time >= PollStart'
  <2>1. PollStart' = PollStart /\ PollStart = Reach
    BY <1>0, <1>3 DEF Appear, PollStart, Reach, Overlapping, followerVars, runVars, FollowTypeOK
  <2>2. CASE e \in timely
    BY <1>0, <1>3, <2>1, <2>2 DEF Appear, TimelyStaysInReach, outVars
  <2>3. CASE e \notin timely
    BY <1>0, <1>3, <2>1, <2>3 DEF Appear, Reach
  <2> QED BY <2>2, <2>3
<1>4. CASE PollFails \/ Tick \/ Renew \/ Expire \/ UNCHANGED followVars
  <2>1. UNCHANGED <<phase, cursor, since, skipOverlap, timely, printed, skipped>>
    BY <1>4 DEF PollFails, Tick, Renew, Expire, followVars, followerVars, runVars, outVars
  <2> QED BY <1>0, <2>1 DEF TimelyStaysInReach, PollStart
<1>5. CASE BacklogFails \/ SignedOut \/ Denied \/ Cancel \/ \E n \in BacklogSizes : Backlog(n)
  BY <1>0, <1>5 DEF BacklogFails, SignedOut, Denied, Cancel, End, Backlog
<1> QED BY <1>1, <1>2, <1>3, <1>4, <1>5 DEF FollowNext

\* A line that appeared in reach of the next poll stays in reach until it is
\* printed, as long as no poll has left the overlap out (follow.go:72-78).
THEOREM TimelyCorrect == FollowSpec => []TimelyStaysInReach
<1>1. FollowInit => Forgotten /\ PrintedOnce /\ Overlapping /\ TimelyStaysInReach
  BY FS_EmptySet DEF FollowInit, Forgotten, PrintedOnce, Overlapping, TimelyStaysInReach
<1> QED BY <1>1, TypeInit, TypeStep, RepeatStep, OverlappingStep, TimelyStep, PTL DEF FollowSpec
=============================================================================
