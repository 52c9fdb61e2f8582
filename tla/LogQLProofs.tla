---------------------------- MODULE LogQLProofs ----------------------------
(***************************************************************************)
(* Facts about the texts of LogQL.tla, for texts of any length: how the    *)
(* reading automaton runs through quoted strings, and that the parser      *)
(* reads the text that String writes as the matchers and filters it was    *)
(* written from.                                                           *)
(***************************************************************************)
EXTENDS LogQL, Integers, SequenceTheorems, WellFoundedInduction, TLAPS

-----------------------------------------------------------------------------
(***************************************************************************)
(* Numbers and sequences.                                                  *)
(***************************************************************************)

\* The order of the naturals, as a relation.
Before == {ss \in Nat \X Nat : ss[1] < ss[2]}

\* Min is the least element of a set of naturals.
LEMMA MinIsLeast ==
    ASSUME NEW T \in SUBSET Nat, T # {}
    PROVE  /\ Min(T) \in T /\ \A n \in T : Min(T) <= n
           /\ \A m \in T : (\A n \in T : m <= n) => m = Min(T)
<1>1. IsWellFoundedOn(Before, Nat)
  BY NatLessThanWellFounded, Zenon DEF Before, OpToRel
<1>2. PICK x \in T : \A y \in T : ~(<<y, x>> \in Before)
  BY <1>1, WFMin, Zenon
<1>3. \A y \in T : x <= y
  <2> SUFFICES ASSUME NEW y \in T PROVE x <= y
    OBVIOUS
  <2>1. y < x => <<y, x>> \in Before
    BY DEF Before
  <2> QED BY <1>2, <2>1
<1>4. Min(T) \in T /\ \A n \in T : Min(T) <= n
  BY <1>3, Zenon DEF Min
<1>5. ASSUME NEW m \in T, \A n \in T : m <= n PROVE m = Min(T)
  <2>1. m <= Min(T) /\ Min(T) <= m
    BY <1>4, <1>5, Zenon
  <2>2. m \in Nat /\ Min(T) \in Nat
    BY <1>4, Zenon
  <2> QED BY <2>1, <2>2
<1> QED BY <1>4, <1>5

\* Max is the greatest element of a bounded one.
LEMMA MaxIsGreatest ==
    ASSUME NEW T \in SUBSET Nat, T # {}, NEW b \in Nat, \A y \in T : y <= b
    PROVE  /\ Max(T) \in T /\ \A n \in T : n <= Max(T)
           /\ \A m \in T : (\A n \in T : n <= m) => m = Max(T)
<1> DEFINE U == {n \in Nat : b - n \in T}
<1>1. U # {}
  <2>1. PICK y \in T : TRUE
    BY Zenon
  <2>2. b - y \in Nat /\ b - (b - y) = y
    BY <2>1
  <2> QED BY <2>2, Zenon
<1>2. Min(U) \in U /\ \A n \in U : Min(U) <= n
  BY <1>1, MinIsLeast
<1>3. b - Min(U) \in T /\ \A y \in T : y <= b - Min(U)
  <2> SUFFICES ASSUME NEW y \in T PROVE y <= b - Min(U)
    BY <1>2
  <2>1. b - y \in U
    OBVIOUS
  <2> QED BY <1>2, <2>1
<1> HIDE DEF U
<1>4. Max(T) \in T /\ \A n \in T : Max(T) >= n
  BY <1>3, Zenon DEF Max
<1>5. ASSUME NEW m \in T, \A n \in T : n <= m PROVE m = Max(T)
  <2>1. m <= Max(T) /\ Max(T) <= m
    BY <1>4, <1>5, Zenon
  <2>2. m \in Nat /\ Max(T) \in Nat
    BY <1>4, Zenon
  <2> QED BY <2>1, <2>2
<1> QED BY <1>4, <1>5

\* A set that holds 0 and the successor of each of its members holds every
\* natural number.
LEMMA Induction ==
    ASSUME NEW S, 0 \in S, \A n \in Nat : n \in S => n + 1 \in S
    PROVE  \A n \in Nat : n \in S
<1> DEFINE T == Nat \ S
<1> SUFFICES ASSUME T # {} PROVE FALSE
  OBVIOUS
<1>1. Min(T) \in T /\ \A n \in T : Min(T) <= n
  BY MinIsLeast
<1>2. Min(T) # 0 /\ Min(T) \in Nat
  BY <1>1
<1>3. Min(T) - 1 \in Nat /\ Min(T) - 1 \notin T
  BY <1>1, <1>2
<1> QED BY <1>1, <1>2, <1>3

\* A set that holds the empty sequence, and with a sequence each one that is
\* longer by an element, holds every sequence.
LEMMA SeqInduction ==
    ASSUME NEW S, NEW P, <<>> \in P,
           \A s \in Seq(S), x \in S : s \in P => Append(s, x) \in P
    PROVE  \A s \in Seq(S) : s \in P
<1> DEFINE G == {n \in Nat : \A s \in Seq(S) : Len(s) = n => s \in P}
<1>1. 0 \in G
  BY EmptySeq
<1>2. ASSUME NEW n \in Nat, n \in G PROVE n + 1 \in G
  <2> SUFFICES ASSUME NEW s \in Seq(S), Len(s) = n + 1 PROVE s \in P
    OBVIOUS
  <2>1. PICK t \in Seq(S), x \in S : s = Append(t, x)
    BY SequenceEmptyOrAppend
  <2>2. Len(t) = n
    BY <2>1
  <2> QED BY <1>2, <2>1, <2>2
<1>3. \A n \in Nat : n \in G
  <2> HIDE DEF G
  <2> QED BY <1>1, <1>2, Induction
<1> QED BY <1>3
-----------------------------------------------------------------------------
(***************************************************************************)
(* Flattening a sequence of sequences.                                     *)
(***************************************************************************)

\* Concatenation, as a name that the provers leave folded.
Cat(a, b) == a \o b

\* F[i] is the concatenation of the first i elements of s.
Steps(s, n, F) == F = [i \in 1..n |-> IF i = 1 THEN s[i] ELSE Cat(F[i-1], s[i])]

\* F holds the growing concatenations of s, and the last is FlattenSeq's result.
Grows(s, F) ==
    /\ FlattenSeq(s) = F[Len(s)]
    /\ F[1] = s[1]
    /\ \A n \in 1..(Len(s) - 1) : F[n + 1] = F[n] \o s[n + 1]

\* FlattenSeq returns the last of the growing concatenations of its argument.
LEMMA FlattenSteps ==
    ASSUME NEW s, Len(s) \in Nat \ {0}
    PROVE  \E F : Grows(s, F)
<1> DEFINE S == {n \in Nat : \E F : Steps(s, n, F)}
<1>1. 0 \in S
  <2>1. Steps(s, 0, [i \in 1..0 |-> s[i]])
    BY DEF Steps
  <2> QED BY <2>1
<1>2. ASSUME NEW n \in Nat, n \in S PROVE n + 1 \in S
  <2>1. PICK F : Steps(s, n, F)
    BY <1>2
  <2> DEFINE last == IF n = 0 THEN s[1] ELSE Cat(F[n], s[n + 1])
             G == [i \in 1..(n + 1) |-> IF i = n + 1 THEN last ELSE F[i]]
  <2>2. \A i \in 1..(n + 1) : G[i] = IF i = 1 THEN s[i] ELSE Cat(G[i-1], s[i])
    BY <2>1 DEF Steps
  <2>3. Steps(s, n + 1, G)
    BY <2>2 DEF Steps
  <2> QED BY <2>3
<1>3. \E F : Steps(s, Len(s), F)
  <2> HIDE DEF S
  <2>1. Len(s) \in S
    BY <1>1, <1>2, Induction
  <2> QED BY <2>1 DEF S
<1> DEFINE F == CHOOSE F : Steps(s, Len(s), F)
<1>4. FlattenSeq(s) = F[Len(s)]
  BY Zenon DEF FlattenSeq, Steps, Cat
<1>5. Steps(s, Len(s), F)
  BY <1>3
<1> HIDE DEF F
<1>6. F[1] = s[1] /\ \A n \in 1..(Len(s) - 1) : F[n + 1] = Cat(F[n], s[n + 1])
  BY <1>5 DEF Steps
<1> QED BY <1>4, <1>6, Zenon DEF Cat, Grows

\* Nothing, and one more element.
LEMMA FlattenAppend ==
    ASSUME NEW S, NEW s \in Seq(Seq(S)), NEW y \in Seq(S)
    PROVE  /\ FlattenSeq(<<>>) = <<>>
           /\ FlattenSeq(Append(s, y)) = FlattenSeq(s) \o y
<1> DEFINE t == Append(s, y)
<1>1. FlattenSeq(<<>>) = <<>>
  BY DEF FlattenSeq
<1>2. /\ Len(s) \in Nat /\ Len(t) = Len(s) + 1 /\ t[Len(s) + 1] = y
      /\ \A i \in 1..Len(s) : t[i] = s[i]
  OBVIOUS
<1>3. PICK G : Grows(t, G)
  <2> HIDE DEF t
  <2> QED BY <1>2, FlattenSteps
<1>4. CASE s = <<>>
  <2>1. Len(t) = 1 /\ t[1] = y
    BY <1>2, <1>4
  <2> HIDE DEF t
  <2>2. FlattenSeq(t) = y
    BY <1>3, <2>1 DEF Grows
  <2>3. <<>> \o y = y
    BY ConcatEmptySeq
  <2> QED BY <1>1, <1>4, <2>2, <2>3 DEF t
<1>5. CASE s # <<>>
  <2>1. Len(s) \in Nat \ {0}
    BY <1>5
  <2>2. PICK F : Grows(s, F)
    BY <2>1, FlattenSteps
  <2> HIDE DEF t
  <2> DEFINE E == {n \in Nat : n >= 1 /\ n <= Len(s) => G[n] = F[n]}
  <2>3. 0 \in E
    OBVIOUS
  <2>4. ASSUME NEW n \in Nat, n \in E PROVE n + 1 \in E
    <3> SUFFICES ASSUME n + 1 <= Len(s) PROVE G[n + 1] = F[n + 1]
      OBVIOUS
    <3>1. t[n + 1] = s[n + 1]
      BY <1>2
    <3>2. CASE n = 0
      BY <1>3, <2>2, <3>1, <3>2 DEF Grows
    <3>3. CASE n >= 1
      <4>1. G[n] = F[n] /\ n \in 1..(Len(s) - 1) /\ n \in 1..(Len(t) - 1)
        BY <1>2, <2>4, <3>3
      <4>2. G[n + 1] = G[n] \o t[n + 1] /\ F[n + 1] = F[n] \o s[n + 1]
        BY <1>3, <2>2, <4>1, Zenon DEF Grows
      <4> QED BY <3>1, <4>1, <4>2
    <3> QED BY <3>2, <3>3
  <2>5. Len(s) \in E
    <3> HIDE DEF E
    <3> QED BY <1>2, <2>3, <2>4, Induction, Zenon
  <2>6. G[Len(s)] = F[Len(s)] /\ Len(s) \in 1..(Len(t) - 1)
    BY <1>2, <2>1, <2>5
  <2>7. G[Len(s) + 1] = G[Len(s)] \o y
    BY <1>2, <1>3, <2>6, Zenon DEF Grows
  <2> QED BY <1>1, <1>2, <1>3, <2>2, <2>6, <2>7 DEF Grows, t
<1> QED BY <1>4, <1>5

\* A set of sequences that holds the empty one and the concatenation of any two
\* holds what is put together from its members.
LEMMA FlattenClosed ==
    ASSUME NEW S, NEW C \in SUBSET Seq(S), <<>> \in C, \A a, b \in C : a \o b \in C,
           NEW s \in Seq(C)
    PROVE  FlattenSeq(s) \in C
<1> DEFINE P == {t \in Seq(C) : FlattenSeq(t) \in C}
<1>1. <<>> \in P
  BY FlattenAppend, EmptySeq, Zenon
<1>2. ASSUME NEW t \in Seq(C), NEW y \in C, t \in P PROVE Append(t, y) \in P
  <2>1. t \in Seq(Seq(S)) /\ y \in Seq(S)
    BY SeqMonotonic
  <2>2. FlattenSeq(Append(t, y)) = FlattenSeq(t) \o y
    BY <2>1, FlattenAppend
  <2>3. FlattenSeq(t) \o y \in C
    BY <1>2
  <2>4. Append(t, y) \in Seq(C)
    OBVIOUS
  <2> QED BY <2>2, <2>3, <2>4, Zenon
<1> HIDE DEF P
<1>3. s \in P
  BY <1>1, <1>2, SeqInduction
<1> QED BY <1>3 DEF P

\* Texts put together make a text.
LEMMA FlattenType ==
    ASSUME NEW S, NEW s \in Seq(Seq(S))
    PROVE  FlattenSeq(s) \in Seq(S)
BY FlattenClosed, EmptySeq, ConcatProperties, Zenon

\* Flattening a concatenation concatenates.
LEMMA FlattenConcat ==
    ASSUME NEW S, NEW s \in Seq(Seq(S)), NEW t \in Seq(Seq(S))
    PROVE  FlattenSeq(s \o t) = FlattenSeq(s) \o FlattenSeq(t)
<1> DEFINE P == {u \in Seq(Seq(S)) : FlattenSeq(s \o u) = FlattenSeq(s) \o FlattenSeq(u)}
<1>1. <<>> \in P
  <2>1. s \o <<>> = s /\ FlattenSeq(<<>>) = <<>> /\ <<>> \in Seq(Seq(S))
    BY FlattenAppend, EmptySeq, ConcatEmptySeq
  <2>2. FlattenSeq(s) \o <<>> = FlattenSeq(s)
    BY FlattenType, ConcatEmptySeq
  <2> QED BY <2>1, <2>2, Zenon
<1>2. ASSUME NEW u \in Seq(Seq(S)), NEW y \in Seq(S), u \in P PROVE Append(u, y) \in P
  <2>1. s \o Append(u, y) = Append(s \o u, y) /\ s \o u \in Seq(Seq(S))
    OBVIOUS
  <2>2. FlattenSeq(Append(s \o u, y)) = FlattenSeq(s \o u) \o y
    BY <2>1, FlattenAppend, Zenon
  <2>3. FlattenSeq(Append(u, y)) = FlattenSeq(u) \o y
    BY FlattenAppend
  <2>4. (FlattenSeq(s) \o FlattenSeq(u)) \o y = FlattenSeq(s) \o (FlattenSeq(u) \o y)
    BY FlattenType, ConcatAssociative, SMTT(20)
  <2>5. FlattenSeq(s \o u) = FlattenSeq(s) \o FlattenSeq(u)
    BY <1>2
  <2>6. FlattenSeq(s \o Append(u, y)) = FlattenSeq(s) \o FlattenSeq(Append(u, y))
    BY <2>1, <2>2, <2>3, <2>4, <2>5, Zenon
  <2>7. Append(u, y) \in Seq(Seq(S))
    OBVIOUS
  <2> QED BY <2>6, <2>7
<1> HIDE DEF P
<1>3. t \in P
  BY <1>1, <1>2, SeqInduction
<1> QED BY <1>3 DEF P

\* One element, and one element in front.
LEMMA FlattenOne ==
    ASSUME NEW S, NEW x \in Seq(S), NEW s \in Seq(Seq(S))
    PROVE  /\ FlattenSeq(<<x>>) = x
           /\ FlattenSeq(<<x>> \o s) = x \o FlattenSeq(s)
<1>1. <<>> \in Seq(Seq(S)) /\ Append(<<>>, x) = <<x>>
  OBVIOUS
<1>2. FlattenSeq(<<x>>) = <<>> \o x
  BY <1>1, FlattenAppend, Zenon
<1>3. <<>> \o x = x
  BY ConcatEmptySeq
<1>4. <<x>> \in Seq(Seq(S))
  OBVIOUS
<1> QED BY <1>2, <1>3, <1>4, FlattenConcat, Zenon

\* A function on the first n numbers is a sequence of length n.
LEMMA FunIsSeq ==
    ASSUME NEW S, NEW n \in Nat, NEW f \in [1..n -> S]
    PROVE  f \in Seq(S) /\ Len(f) = n /\ DOMAIN f = 1..n
<1>1. f \in Seq(S)
  BY SeqDef
<1>2. DOMAIN f = 1..Len(f) /\ Len(f) \in Nat
  BY <1>1, LenProperties
<1> QED BY <1>1, <1>2

\* A relation between sequences that holds of two empty ones and is kept by
\* concatenation holds of what is put together from related pieces.
LEMMA FlattenPair ==
    ASSUME NEW A, NEW B, NEW R, <<<<>>, <<>>>> \in R,
           \A a, c \in Seq(A), b, d \in Seq(B) :
              <<a, b>> \in R /\ <<c, d>> \in R => <<a \o c, b \o d>> \in R,
           NEW s \in Seq(Seq(A)), NEW t \in Seq(Seq(B)), Len(s) = Len(t),
           \A i \in 1..Len(s) : <<s[i], t[i]>> \in R
    PROVE  <<FlattenSeq(s), FlattenSeq(t)>> \in R
<1> DEFINE Related(n) == \A x \in Seq(Seq(A)), y \in Seq(Seq(B)) :
                   Len(x) = n /\ Len(y) = n /\ (\A i \in 1..n : <<x[i], y[i]>> \in R)
                     => <<FlattenSeq(x), FlattenSeq(y)>> \in R
           G == {n \in Nat : Related(n)}
<1>1. Related(0)
  <2> SUFFICES ASSUME NEW x \in Seq(Seq(A)), NEW y \in Seq(Seq(B)), Len(x) = 0, Len(y) = 0
               PROVE  <<FlattenSeq(x), FlattenSeq(y)>> \in R
    BY Zenon
  <2>1. x = <<>> /\ y = <<>>
    OBVIOUS
  <2>2. FlattenSeq(<<>>) = <<>>
    BY DEF FlattenSeq
  <2> QED BY <2>1, <2>2
<1>2. ASSUME NEW n \in Nat, Related(n) PROVE Related(n + 1)
  <2> SUFFICES ASSUME NEW x \in Seq(Seq(A)), NEW y \in Seq(Seq(B)),
                      Len(x) = n + 1, Len(y) = n + 1,
                      \A i \in 1..(n + 1) : <<x[i], y[i]>> \in R
               PROVE  <<FlattenSeq(x), FlattenSeq(y)>> \in R
    BY Zenon
  <2>1. PICK x0 \in Seq(Seq(A)), xn \in Seq(A) : x = Append(x0, xn)
    <3>1. x # <<>>
      OBVIOUS
    <3> QED BY <3>1, SequenceEmptyOrAppend, Zenon
  <2>2. PICK y0 \in Seq(Seq(B)), yn \in Seq(B) : y = Append(y0, yn)
    <3>1. y # <<>>
      OBVIOUS
    <3> QED BY <3>1, SequenceEmptyOrAppend, Zenon
  <2>3. Len(x0) = n /\ Len(y0) = n /\ x[n + 1] = xn /\ y[n + 1] = yn
    BY <2>1, <2>2
  <2>4. \A i \in 1..n : <<x0[i], y0[i]>> \in R
    <3> SUFFICES ASSUME NEW i \in 1..n PROVE <<x0[i], y0[i]>> \in R
      BY Zenon
    <3>1. x0[i] = x[i] /\ y0[i] = y[i] /\ i \in 1..(n + 1)
      BY <2>1, <2>2, <2>3
    <3> QED BY <3>1
  <2>5. <<FlattenSeq(x0), FlattenSeq(y0)>> \in R
    BY <1>2, <2>3, <2>4, Zenon
  <2>6. <<xn, yn>> \in R
    BY <2>3
  <2>7. FlattenSeq(x) = FlattenSeq(x0) \o xn /\ FlattenSeq(y) = FlattenSeq(y0) \o yn
    BY <2>1, <2>2, FlattenAppend
  <2>8. FlattenSeq(x0) \in Seq(A) /\ FlattenSeq(y0) \in Seq(B)
    BY FlattenType
  <2> QED BY <2>5, <2>6, <2>7, <2>8, Zenon
<1>3. \A n \in Nat : n \in G
  <2> HIDE DEF Related
  <2>1. 0 \in G /\ \A n \in Nat : n \in G => n + 1 \in G
    BY <1>1, <1>2
  <2> HIDE DEF G
  <2> QED BY <2>1, Induction, Zenon
<1>4. Related(Len(s))
  <2> HIDE DEF Related
  <2>1. Len(s) \in Nat
    OBVIOUS
  <2> QED BY <1>3, <2>1
<1> QED BY <1>4

\* A text is put together from its characters.
LEMMA FlattenSingles ==
    ASSUME NEW S, NEW v \in Seq(S)
    PROVE  FlattenSeq([i \in DOMAIN v |-> <<v[i]>>]) = v
<1> DEFINE F(s) == [i \in DOMAIN s |-> <<s[i]>>]
           P == {s \in Seq(S) : FlattenSeq(F(s)) = s}
<1>1. <<>> \in P
  <2>1. F(<<>>) = <<>> /\ <<>> \in Seq(S)
    OBVIOUS
  <2> QED BY <2>1 DEF FlattenSeq
<1>2. ASSUME NEW s \in Seq(S), NEW x \in S, s \in P PROVE Append(s, x) \in P
  <2>1. F(s) \in Seq(Seq(S)) /\ <<x>> \in Seq(S)
    <3>1. F(s) \in [1..Len(s) -> Seq(S)] /\ <<x>> \in Seq(S) /\ Len(s) \in Nat
      OBVIOUS
    <3> HIDE DEF F
    <3> QED BY <3>1, FunIsSeq, Zenon
  <2>2. F(Append(s, x)) = Append(F(s), <<x>>)
    <3>1. Len(F(s)) = Len(s) /\ \A i \in 1..Len(s) : F(s)[i] = <<s[i]>>
      BY <2>1
    <3> HIDE DEF F
    <3>2. /\ Append(F(s), <<x>>) \in Seq(Seq(S)) /\ Len(Append(F(s), <<x>>)) = Len(s) + 1
          /\ \A i \in 1..Len(s) : Append(F(s), <<x>>)[i] = <<s[i]>>
          /\ Append(F(s), <<x>>)[Len(s) + 1] = <<x>>
      BY <2>1, <3>1
    <3>3. /\ Append(s, x) \in Seq(S) /\ Len(Append(s, x)) = Len(s) + 1
          /\ \A i \in 1..Len(s) : Append(s, x)[i] = s[i]
          /\ Append(s, x)[Len(s) + 1] = x
      OBVIOUS
    <3>4. F(Append(s, x)) = [i \in 1..(Len(s) + 1) |-> <<Append(s, x)[i]>>]
      BY <3>3 DEF F
    <3>5. \A i \in 1..(Len(s) + 1) : Append(F(s), <<x>>)[i] = <<Append(s, x)[i]>>
      BY <3>2, <3>3
    <3>6. F(Append(s, x)) \in [1..(Len(s) + 1) -> Seq(S)] /\ Len(s) + 1 \in Nat
      BY <3>3, <3>4
    <3>7. F(Append(s, x)) \in Seq(Seq(S)) /\ Len(F(Append(s, x))) = Len(s) + 1
      BY <3>6, FunIsSeq
    <3>8. \A i \in 1..(Len(s) + 1) : F(Append(s, x))[i] = Append(F(s), <<x>>)[i]
      BY <3>4, <3>5, Zenon
    <3> QED BY <3>2, <3>7, <3>8, SeqEqual
  <2> HIDE DEF F
  <2>3. FlattenSeq(F(Append(s, x))) = s \o <<x>>
    BY <1>2, <2>1, <2>2, FlattenAppend, Zenon
  <2>4. s \o <<x>> = Append(s, x) /\ Append(s, x) \in Seq(S)
    OBVIOUS
  <2> QED BY <2>3, <2>4
<1>3. v \in P
  <2> HIDE DEF P
  <2> QED BY <1>1, <1>2, SeqInduction
<1> QED BY <1>3

\* Pieces of at least one element each make a sequence at least as long as
\* there are pieces.
LEMMA FlattenLength ==
    ASSUME NEW S, NEW s \in Seq(Seq(S) \ {<<>>})
    PROVE  Len(FlattenSeq(s)) >= Len(s)
<1> DEFINE C == Seq(S) \ {<<>>}
           P == {t \in Seq(C) : Len(FlattenSeq(t)) >= Len(t)}
<1>1. <<>> \in P
  BY DEF FlattenSeq
<1>2. ASSUME NEW t \in Seq(C), NEW y \in C, t \in P PROVE Append(t, y) \in P
  <2>1. t \in Seq(Seq(S)) /\ y \in Seq(S) /\ Len(y) >= 1
    BY SeqMonotonic
  <2>2. FlattenSeq(Append(t, y)) = FlattenSeq(t) \o y /\ FlattenSeq(t) \in Seq(S)
    BY <2>1, FlattenAppend, FlattenType
  <2>3. Len(FlattenSeq(t) \o y) >= Len(t) + 1
    BY <1>2, <2>1, <2>2
  <2>4. Append(t, y) \in Seq(C) /\ Len(Append(t, y)) = Len(t) + 1
    OBVIOUS
  <2> QED BY <2>2, <2>3, <2>4
<1> HIDE DEF P
<1>3. s \in P
  BY <1>1, <1>2, SeqInduction, Zenon
<1> QED BY <1>3 DEF P
-----------------------------------------------------------------------------
(***************************************************************************)
(* Reading a text.                                                         *)
(***************************************************************************)
Modes == {"outside", "inside", "escaped"}

\* mode is how s reads after each of its characters, as far as the n-th.
ReadsTo(s, start, quotes, n, mode) ==
    mode = [i \in 0..n |-> IF i = 0 THEN start ELSE After(mode[i - 1], s[i], quotes)]

\* Every character leads to one of the three modes.
LEMMA AfterType ==
    ASSUME NEW mode \in Modes, NEW char, NEW quotes
    PROVE  After(mode, char, quotes) \in Modes
BY DEF After, Modes

\* Reading satisfies its recursive definition.
LEMMA ReadingSteps ==
    ASSUME NEW s, Len(s) \in Nat, NEW start \in Modes, NEW quotes
    PROVE  LET mode == Reading(s, start, quotes)
           IN  /\ mode \in [0..Len(s) -> Modes]
               /\ mode[0] = start
               /\ \A i \in 1..Len(s) : mode[i] = After(mode[i - 1], s[i], quotes)
<1> DEFINE S == {n \in Nat : \E f \in [0..n -> Modes] : ReadsTo(s, start, quotes, n, f)}
<1>1. 0 \in S
  <2> DEFINE f == [i \in 0..0 |-> start]
  <2>1. f \in [0..0 -> Modes] /\ ReadsTo(s, start, quotes, 0, f)
    BY DEF ReadsTo
  <2> HIDE DEF f
  <2> QED BY <2>1
<1>2. ASSUME NEW n \in Nat, n \in S PROVE n + 1 \in S
  <2>1. PICK f \in [0..n -> Modes] : ReadsTo(s, start, quotes, n, f)
    BY <1>2
  <2> DEFINE g == [i \in 0..(n + 1) |-> IF i = n + 1 THEN After(f[n], s[n + 1], quotes) ELSE f[i]]
  <2>2. g \in [0..(n + 1) -> Modes]
    BY AfterType
  <2>3. \A i \in 0..n : f[i] = IF i = 0 THEN start ELSE After(f[i - 1], s[i], quotes)
    BY <2>1 DEF ReadsTo
  <2>4. \A i \in 0..(n + 1) : g[i] = IF i = 0 THEN start ELSE After(g[i - 1], s[i], quotes)
    BY <2>3
  <2>5. ReadsTo(s, start, quotes, n + 1, g)
    BY <2>4 DEF ReadsTo
  <2> HIDE DEF g
  <2> QED BY <2>2, <2>5
<1>3. \A n \in Nat : n \in S
  <2> HIDE DEF S
  <2> QED BY <1>1, <1>2, Induction
<1>4. \E f : ReadsTo(s, start, quotes, Len(s), f)
  BY <1>3
<1> DEFINE mode == CHOOSE f : ReadsTo(s, start, quotes, Len(s), f)
<1>5. Reading(s, start, quotes) = mode
  BY Zenon DEF Reading, ReadsTo
<1>6. ReadsTo(s, start, quotes, Len(s), mode)
  BY <1>4
<1> HIDE DEF mode
<1>7. /\ mode = [i \in 0..Len(s) |-> mode[i]]
      /\ \A i \in 0..Len(s) : mode[i] = IF i = 0 THEN start ELSE After(mode[i - 1], s[i], quotes)
  BY <1>6 DEF ReadsTo
<1>8. mode[0] = start /\ \A i \in 1..Len(s) : mode[i] = After(mode[i - 1], s[i], quotes)
  BY <1>7
<1> DEFINE T == {n \in Nat : n <= Len(s) => mode[n] \in Modes}
<1>9. 0 \in T
  BY <1>8
<1>10. ASSUME NEW n \in Nat, n \in T PROVE n + 1 \in T
  <2> SUFFICES ASSUME n + 1 <= Len(s) PROVE mode[n + 1] \in Modes
    OBVIOUS
  <2>1. mode[n + 1] = After(mode[n], s[n + 1], quotes) /\ mode[n] \in Modes
    BY <1>8, <1>10
  <2> QED BY <2>1, AfterType
<1>11. \A n \in Nat : n \in T
  <2> HIDE DEF T
  <2> QED BY <1>9, <1>10, Induction
<1>12. mode \in [0..Len(s) -> Modes]
  BY <1>7, <1>11
<1> QED BY <1>5, <1>8, <1>12

\* The places of the second part of a text.
LEMMA PlaceInSecond ==
    ASSUME NEW x \in Nat, NEW y \in Nat, NEW n \in Nat, n + 1 <= y
    PROVE  x + (n + 1) \in 1..(x + y) /\ (x + (n + 1)) - 1 = x + n
OBVIOUS

\* The second part of a text reads as it would alone, from where the first ends.
LEMMA ReadingConcat ==
    ASSUME NEW S, NEW a \in Seq(S), NEW b \in Seq(S), NEW start \in Modes, NEW quotes
    PROVE  LET first == Reading(a, start, quotes)
               second == Reading(b, first[Len(a)], quotes)
               whole == Reading(a \o b, start, quotes)
           IN  /\ first[Len(a)] \in Modes
               /\ \A i \in 0..Len(a) : whole[i] = first[i]
               /\ \A i \in 0..Len(b) : whole[Len(a) + i] = second[i]
<1> DEFINE first == Reading(a, start, quotes)
           second == Reading(b, first[Len(a)], quotes)
           whole == Reading(a \o b, start, quotes)
<1>1. /\ Len(a) \in Nat /\ Len(b) \in Nat /\ Len(a \o b) = Len(a) + Len(b)
      /\ \A i \in 1..Len(a) : (a \o b)[i] = a[i]
      /\ \A i \in 1..Len(b) : (a \o b)[Len(a) + i] = b[i]
  OBVIOUS
<1>2. /\ first \in [0..Len(a) -> Modes] /\ first[0] = start
      /\ \A i \in 1..Len(a) : first[i] = After(first[i - 1], a[i], quotes)
  BY <1>1, ReadingSteps
<1>3. first[Len(a)] \in Modes
  BY <1>1, <1>2
<1>4. /\ second[0] = first[Len(a)]
      /\ \A i \in 1..Len(b) : second[i] = After(second[i - 1], b[i], quotes)
  BY <1>1, <1>3, ReadingSteps
<1>5. /\ whole[0] = start
      /\ \A i \in 1..(Len(a) + Len(b)) : whole[i] = After(whole[i - 1], (a \o b)[i], quotes)
  <2>0. PICK c : c = a \o b
    BY Zenon
  <2>1. Len(c) \in Nat
    BY <1>1, <2>0
  <2> DEFINE m == Reading(c, start, quotes)
  <2>2. m[0] = start /\ \A i \in 1..Len(c) : m[i] = After(m[i - 1], c[i], quotes)
    BY <2>1, ReadingSteps
  <2> QED BY <1>1, <2>0, <2>2
<1> HIDE DEF first, second, whole
<1> DEFINE T == {n \in Nat : n <= Len(a) => whole[n] = first[n]}
           U == {n \in Nat : n <= Len(b) => whole[Len(a) + n] = second[n]}
<1>6. 0 \in T
  BY <1>2, <1>5
<1>7. ASSUME NEW n \in Nat, n \in T PROVE n + 1 \in T
  <2> SUFFICES ASSUME n + 1 <= Len(a) PROVE whole[n + 1] = first[n + 1]
    OBVIOUS
  <2>1. whole[n] = first[n] /\ (a \o b)[n + 1] = a[n + 1]
    BY <1>1, <1>7
  <2>2. whole[n + 1] = After(whole[n], (a \o b)[n + 1], quotes)
    BY <1>1, <1>5
  <2>3. first[n + 1] = After(first[n], a[n + 1], quotes)
    BY <1>1, <1>2
  <2> QED BY <2>1, <2>2, <2>3
<1>8. \A n \in Nat : n \in T
  <2> HIDE DEF T
  <2> QED BY <1>6, <1>7, Induction
<1>9. whole[Len(a)] = first[Len(a)] /\ 0 \in U
  BY <1>1, <1>4, <1>8
<1>10. ASSUME NEW n \in Nat, n \in U PROVE n + 1 \in U
  <2> SUFFICES ASSUME n + 1 <= Len(b) PROVE whole[Len(a) + (n + 1)] = second[n + 1]
    OBVIOUS
  <2>1. whole[Len(a) + n] = second[n] /\ (a \o b)[Len(a) + (n + 1)] = b[n + 1]
    BY <1>1, <1>10
  <2>2. whole[Len(a) + (n + 1)] = After(whole[Len(a) + n], (a \o b)[Len(a) + (n + 1)], quotes)
    <3> DEFINE k == Len(a) + (n + 1)
    <3>1. k \in 1..(Len(a) + Len(b)) /\ k - 1 = Len(a) + n
      BY <1>1, PlaceInSecond
    <3> HIDE DEF k
    <3>2. whole[k] = After(whole[k - 1], (a \o b)[k], quotes)
      BY <1>5, <3>1
    <3> QED BY <3>1, <3>2 DEF k
  <2>3. second[n + 1] = After(second[n], b[n + 1], quotes)
    BY <1>1, <1>4
  <2> QED BY <2>1, <2>2, <2>3
<1>11. \A n \in Nat : n \in U
  <2> HIDE DEF U
  <2> QED BY <1>9, <1>10, Induction
<1>12. \A i \in 0..Len(a) : whole[i] = first[i]
  <2> SUFFICES ASSUME NEW i \in 0..Len(a) PROVE whole[i] = first[i]
    OBVIOUS
  <2>1. i \in Nat /\ i <= Len(a)
    BY <1>1
  <2> QED BY <1>8, <2>1
<1>13. \A i \in 0..Len(b) : whole[Len(a) + i] = second[i]
  <2> SUFFICES ASSUME NEW i \in 0..Len(b) PROVE whole[Len(a) + i] = second[i]
    OBVIOUS
  <2>1. i \in Nat /\ i <= Len(b)
    BY <1>1
  <2> QED BY <1>11, <2>1
<1> QED BY <1>3, <1>12, <1>13 DEF first, second, whole

\* Two sequences of pieces, one after the other.
LEMMA FlattenParts ==
    ASSUME NEW S, NEW A \in Seq(Seq(S)), NEW B \in Seq(Seq(S)),
           NEW W \in [1..(Len(A) + Len(B)) -> Seq(S)],
           \A i \in 1..Len(A) : W[i] = A[i],
           \A i \in 1..Len(B) : W[Len(A) + i] = B[i]
    PROVE  FlattenSeq(W) = FlattenSeq(A) \o FlattenSeq(B)
<1>1. Len(A) \in Nat /\ Len(B) \in Nat /\ Len(A) + Len(B) \in Nat
  OBVIOUS
<1>2. W \in Seq(Seq(S)) /\ Len(W) = Len(A) + Len(B)
  BY <1>1, FunIsSeq, Zenon
<1>3. A \o B \in Seq(Seq(S)) /\ Len(A \o B) = Len(A) + Len(B)
  OBVIOUS
<1>4. ASSUME NEW i \in 1..Len(W) PROVE W[i] = (A \o B)[i]
  <2>1. CASE i <= Len(A)
    BY <1>2, <2>1
  <2>2. CASE i > Len(A)
    <3> DEFINE j == i - Len(A)
    <3>1. j \in 1..Len(B) /\ i = Len(A) + j
      BY <1>1, <1>2, <2>2
    <3> HIDE DEF j
    <3>2. (A \o B)[Len(A) + j] = B[j]
      BY <3>1
    <3> QED BY <3>1, <3>2
  <2> QED BY <1>1, <1>2, <2>1, <2>2
<1>5. W = A \o B
  BY <1>2, <1>3, <1>4, SeqEqual
<1> QED BY <1>5, FlattenConcat

(***************************************************************************)
(* The text between the quotes of a quoted value.                          *)
(***************************************************************************)
\* The characters of a text that are no escaping backslash.
Bare(text, mode) == [i \in 1..Len(text) |-> IF mode[i] = "escaped" THEN <<>> ELSE <<text[i]>>]

\* text is a quoted form of value: no quote in it closes the value, only quotes
\* and backslashes are escaped, and without the escaping backslashes it is value.
Quoted(value, text) ==
    LET mode == Reading(text, "inside", DoubleQuote)
    IN  /\ mode[Len(text)] = "inside"
        /\ \A i \in 1..Len(text) : mode[i] # "outside"
        /\ \A i \in 1..Len(text) : mode[i - 1] = "escaped" => text[i] \in Escapable
        /\ FlattenSeq(Bare(text, mode)) = value

\* What is left of a quoted text without its backslashes, piece by piece.
LEMMA BareType ==
    ASSUME NEW text \in Seq(Chars), NEW mode
    PROVE  /\ Bare(text, mode) \in [1..Len(text) -> Seq(Chars)]
           /\ Bare(text, mode) \in Seq(Seq(Chars)) /\ Len(Bare(text, mode)) = Len(text)
<1>1. Bare(text, mode) \in [1..Len(text) -> Seq(Chars)] /\ Len(text) \in Nat
  <2>1. \A i \in 1..Len(text) : <<text[i]>> \in Seq(Chars) /\ <<>> \in Seq(Chars)
    OBVIOUS
  <2> QED BY <2>1 DEF Bare
<1> QED BY <1>1, FunIsSeq

\* Quoted texts next to each other quote the values next to each other.
LEMMA QuotedConcat ==
    ASSUME NEW a \in Seq(Chars), NEW b \in Seq(Chars), NEW v \in Seq(Chars), NEW w \in Seq(Chars),
           Quoted(v, a), Quoted(w, b)
    PROVE  Quoted(v \o w, a \o b)
<1> DEFINE A == Reading(a, "inside", DoubleQuote)
           B == Reading(b, "inside", DoubleQuote)
           m == Reading(a \o b, "inside", DoubleQuote)
<1>1. /\ A[Len(a)] = "inside" /\ B[Len(b)] = "inside"
      /\ \A i \in 1..Len(a) : A[i] # "outside"
      /\ \A i \in 1..Len(b) : B[i] # "outside"
      /\ \A i \in 1..Len(a) : A[i - 1] = "escaped" => a[i] \in Escapable
      /\ \A i \in 1..Len(b) : B[i - 1] = "escaped" => b[i] \in Escapable
      /\ FlattenSeq(Bare(a, A)) = v /\ FlattenSeq(Bare(b, B)) = w
  BY DEF Quoted
<1>2. /\ \A i \in 0..Len(a) : m[i] = A[i]
      /\ \A i \in 0..Len(b) : m[Len(a) + i] = B[i]
  <2>1. "inside" \in Modes
    BY DEF Modes
  <2> QED BY <1>1, <2>1, ReadingConcat
<1>3. /\ Len(a) \in Nat /\ Len(b) \in Nat /\ Len(a \o b) = Len(a) + Len(b)
      /\ a \o b \in Seq(Chars)
      /\ \A i \in 1..Len(a) : (a \o b)[i] = a[i]
      /\ \A i \in 1..Len(b) : (a \o b)[Len(a) + i] = b[i]
  OBVIOUS
<1> HIDE DEF A, B, m
<1>4. ASSUME NEW i \in 1..Len(a \o b)
      PROVE  m[i] # "outside" /\ (m[i - 1] = "escaped" => (a \o b)[i] \in Escapable)
  <2>1. CASE i <= Len(a)
    <3>1. i \in 1..Len(a) /\ m[i] = A[i] /\ m[i - 1] = A[i - 1] /\ (a \o b)[i] = a[i]
      BY <1>2, <1>3, <2>1
    <3> QED BY <1>1, <3>1
  <2>2. CASE i > Len(a)
    <3> DEFINE j == i - Len(a)
    <3>1. j \in 1..Len(b) /\ i = Len(a) + j /\ i - 1 = Len(a) + (j - 1) /\ j - 1 \in 0..Len(b)
      BY <1>3, <2>2
    <3> HIDE DEF j
    <3>2. m[i] = B[j] /\ m[i - 1] = B[j - 1] /\ (a \o b)[i] = b[j]
      BY <1>2, <1>3, <3>1, SMTT(20)
    <3> QED BY <1>1, <3>1, <3>2
  <2> QED BY <1>3, <2>1, <2>2
<1>5. FlattenSeq(Bare(a \o b, m)) = v \o w
  <2>1. /\ Bare(a, A) \in Seq(Seq(Chars)) /\ Len(Bare(a, A)) = Len(a)
        /\ Bare(b, B) \in Seq(Seq(Chars)) /\ Len(Bare(b, B)) = Len(b)
        /\ Bare(a \o b, m) \in [1..(Len(a) + Len(b)) -> Seq(Chars)]
    BY <1>3, BareType, Zenon
  <2>2. \A i \in 1..Len(a) : Bare(a \o b, m)[i] = Bare(a, A)[i]
    BY <1>2, <1>3 DEF Bare
  <2>3. \A i \in 1..Len(b) : Bare(a \o b, m)[Len(a) + i] = Bare(b, B)[i]
    <3> SUFFICES ASSUME NEW i \in 1..Len(b) PROVE Bare(a \o b, m)[Len(a) + i] = Bare(b, B)[i]
      OBVIOUS
    <3>1. Len(a) + i \in 1..Len(a \o b) /\ m[Len(a) + i] = B[i] /\ (a \o b)[Len(a) + i] = b[i]
      BY <1>2, <1>3
    <3> QED BY <3>1 DEF Bare
  <2>4. FlattenSeq(Bare(a \o b, m)) = FlattenSeq(Bare(a, A)) \o FlattenSeq(Bare(b, B))
    <3> DEFINE X == Bare(a, A)
               Y == Bare(b, B)
               W == Bare(a \o b, m)
    <3>1. /\ X \in Seq(Seq(Chars)) /\ Y \in Seq(Seq(Chars)) /\ W \in [1..(Len(X) + Len(Y)) -> Seq(Chars)]
          /\ \A i \in 1..Len(X) : W[i] = X[i]
          /\ \A i \in 1..Len(Y) : W[Len(X) + i] = Y[i]
      BY <2>1, <2>2, <2>3
    <3> HIDE DEF X, Y, W
    <3>2. FlattenSeq(W) = FlattenSeq(X) \o FlattenSeq(Y)
      BY <3>1, FlattenParts, ZenonT(30)
    <3> QED BY <3>2 DEF X, Y, W
  <2> QED BY <1>1, <2>4
<1>6. m[Len(a \o b)] = "inside"
  BY <1>1, <1>2, <1>3
<1> QED BY <1>4, <1>5, <1>6 DEF Quoted, m

\* One character, and an escaped one.
LEMMA QuotedChar ==
    ASSUME NEW c \in Chars
    PROVE  /\ Quoted(<<>>, <<>>)
           /\ c \notin Escapable => Quoted(<<c>>, <<c>>)
           /\ c \in Escapable => Quoted(<<c>>, <<"\\", c>>)
<1>1. "inside" \in Modes /\ "\\" \in Chars
  BY DEF Modes, Chars, MetaChars
<1>2. FlattenSeq(<<>>) = <<>>
  BY DEF FlattenSeq
<1>3. Quoted(<<>>, <<>>)
  <2> DEFINE m == Reading(<<>>, "inside", DoubleQuote)
  <2>1. Len(<<>>) = 0 /\ Len(<<>>) \in Nat
    OBVIOUS
  <2>2. m[0] = "inside"
    BY <1>1, <2>1, ReadingSteps
  <2> HIDE DEF m
  <2>3. Bare(<<>>, m) = <<>>
    BY DEF Bare
  <2> QED BY <1>2, <2>1, <2>2, <2>3 DEF Quoted, m
<1>4. ASSUME c \notin Escapable PROVE Quoted(<<c>>, <<c>>)
  <2> DEFINE s == <<c>>
             m == Reading(s, "inside", DoubleQuote)
  <2>1. Len(s) = 1 /\ s[1] = c
    OBVIOUS
  <2> HIDE DEF s
  <2>2. m[0] = "inside" /\ m[1] = After(m[0], s[1], DoubleQuote)
    BY <1>1, <2>1, ReadingSteps
  <2> HIDE DEF m
  <2>3. m[1] = "inside"
    BY <1>4, <2>1, <2>2 DEF After, DoubleQuote, Escapable
  <2>4. Bare(s, m) = <<<<c>>>>
    BY <2>1, <2>3 DEF Bare
  <2>5. FlattenSeq(<<<<c>>>>) = <<c>>
    <3>1. <<c>> \in Seq(Chars) /\ <<>> \in Seq(Seq(Chars))
      OBVIOUS
    <3> QED BY <3>1, FlattenOne, Zenon
  <2> QED BY <2>1, <2>2, <2>3, <2>4, <2>5 DEF Quoted, m, s
<1>5. ASSUME c \in Escapable PROVE Quoted(<<c>>, <<"\\", c>>)
  <2> DEFINE s == <<"\\", c>>
             m == Reading(s, "inside", DoubleQuote)
  <2>1. Len(s) = 2 /\ s[1] = "\\" /\ s[2] = c
    OBVIOUS
  <2> HIDE DEF s
  <2>2. m[0] = "inside" /\ m[1] = After(m[0], s[1], DoubleQuote) /\ m[2] = After(m[1], s[2], DoubleQuote)
    BY <1>1, <2>1, ReadingSteps
  <2> HIDE DEF m
  <2>3. m[1] = "escaped" /\ m[2] = "inside"
    BY <2>1, <2>2 DEF After
  <2>4. Bare(s, m) = <<<<>>, <<c>>>>
    BY <2>1, <2>3 DEF Bare
  <2>5. FlattenSeq(<<<<>>, <<c>>>>) = <<c>>
    <3>1. /\ <<c>> \in Seq(Chars) /\ <<>> \in Seq(Chars) /\ <<<<c>>>> \in Seq(Seq(Chars))
          /\ <<<<>>, <<c>>>> = <<<<>>>> \o <<<<c>>>>
      OBVIOUS
    <3>2. FlattenSeq(<<<<>>, <<c>>>>) = <<>> \o FlattenSeq(<<<<c>>>>)
      BY <3>1, FlattenOne, Zenon
    <3>3. FlattenSeq(<<<<c>>>>) = <<c>>
      BY <3>1, FlattenOne, Zenon
    <3> QED BY <3>2, <3>3
  <2> QED BY <1>5, <2>1, <2>2, <2>3, <2>4, <2>5 DEF Quoted, m, s
<1> QED BY <1>3, <1>4, <1>5

\* What strconv.Quote puts between the quotes is a quoted form of the value.
LEMMA EscapeIsQuoted ==
    ASSUME NEW v \in Seq(Chars)
    PROVE  Escape(v, Escapable) \in Seq(Chars) /\ Quoted(v, Escape(v, Escapable))
<1> DEFINE R == {p \in Seq(Chars) \X Seq(Chars) : Quoted(p[1], p[2])}
           s == [i \in DOMAIN v |-> <<v[i]>>]
           t == [i \in DOMAIN v |-> IF v[i] \in Escapable THEN <<"\\", v[i]>> ELSE <<v[i]>>]
<1>1. DOMAIN v = 1..Len(v) /\ Len(v) \in Nat /\ \A i \in 1..Len(v) : v[i] \in Chars
  OBVIOUS
<1>2. "\\" \in Chars /\ <<>> \in Seq(Chars)
  <2>1. "\\" \in Chars
    BY DEF Chars, MetaChars
  <2> QED BY <2>1
<1>3. s \in [1..Len(v) -> Seq(Chars)] /\ t \in [1..Len(v) -> Seq(Chars)]
  <2>1. \A i \in 1..Len(v) : <<v[i]>> \in Seq(Chars) /\ <<"\\", v[i]>> \in Seq(Chars)
    BY <1>1, <1>2
  <2> QED BY <1>1, <2>1
<1>4. ASSUME NEW i \in 1..Len(v) PROVE <<s[i], t[i]>> \in R
  <2>1. Quoted(s[i], t[i])
    BY <1>1, QuotedChar
  <2>2. s[i] \in Seq(Chars) /\ t[i] \in Seq(Chars)
    BY <1>3
  <2> HIDE DEF s, t
  <2> QED BY <2>1, <2>2
<1>5. FlattenSeq(t) = Escape(v, Escapable) /\ FlattenSeq(s) = v
  BY FlattenSingles DEF Escape
<1> HIDE DEF s, t
<1>6. /\ s \in Seq(Seq(Chars)) /\ t \in Seq(Seq(Chars)) /\ Len(s) = Len(v) /\ Len(t) = Len(v)
  BY <1>1, <1>3, FunIsSeq, Zenon
<1>7. <<<<>>, <<>>>> \in R
  BY <1>2, QuotedChar, Zenon
<1>8. ASSUME NEW a \in Seq(Chars), NEW c \in Seq(Chars), NEW b \in Seq(Chars), NEW d \in Seq(Chars),
             <<a, b>> \in R, <<c, d>> \in R
      PROVE  <<a \o c, b \o d>> \in R
  <2>1. Quoted(a \o c, b \o d)
    BY <1>8, QuotedConcat
  <2>2. a \o c \in Seq(Chars) /\ b \o d \in Seq(Chars)
    OBVIOUS
  <2> QED BY <2>1, <2>2, Zenon
<1> HIDE DEF R
<1>9. <<FlattenSeq(s), FlattenSeq(t)>> \in R
  BY <1>4, <1>6, <1>7, <1>8, FlattenPair, Zenon
<1> QED BY <1>5, <1>9 DEF R
-----------------------------------------------------------------------------
(***************************************************************************)
(* Taking a text apart.                                                    *)
(***************************************************************************)

\* A text is its first n characters and the rest.
LEMMA SplitAt ==
    ASSUME NEW S, NEW s \in Seq(S), NEW n \in 0..Len(s)
    PROVE  /\ SubSeq(s, 1, n) \in Seq(S) /\ Len(SubSeq(s, 1, n)) = n
           /\ DropChars(s, n) \in Seq(S) /\ Len(DropChars(s, n)) = Len(s) - n
           /\ s = SubSeq(s, 1, n) \o DropChars(s, n)
<1>1. /\ SubSeq(s, 1, n) \in Seq(S) /\ Len(SubSeq(s, 1, n)) = n
      /\ \A i \in 1..n : SubSeq(s, 1, n)[i] = s[i]
  OBVIOUS
<1>2. /\ DropChars(s, n) \in Seq(S) /\ Len(DropChars(s, n)) = Len(s) - n
      /\ \A i \in 1..(Len(s) - n) : DropChars(s, n)[i] = s[n + i]
  <2>1. \A i \in (n + 1)..Len(s) : s[i] \in S
    OBVIOUS
  <2> QED BY <2>1, SubSeqProperties DEF DropChars
<1> DEFINE a == SubSeq(s, 1, n)
           b == DropChars(s, n)
<1> HIDE DEF a, b
<1>3. a \o b \in Seq(S) /\ Len(a \o b) = Len(s) /\ \A i \in 1..Len(s) : (a \o b)[i] = s[i]
  BY <1>1, <1>2 DEF a, b
<1>4. s = a \o b
  BY <1>3, SeqEqual, Zenon
<1> QED BY <1>1, <1>2, <1>4 DEF a, b

\* What is left of a text without its first part, and that part.
LEMMA DropConcat ==
    ASSUME NEW S, NEW a \in Seq(S), NEW b \in Seq(S)
    PROVE  DropChars(a \o b, Len(a)) = b /\ SubSeq(a \o b, 1, Len(a)) = a
<1> DEFINE s == a \o b
<1>1. s \in Seq(S) /\ Len(s) = Len(a) + Len(b) /\ Len(a) \in 0..Len(s)
  OBVIOUS
<1>2. /\ \A i \in 1..Len(a) : s[i] = a[i]
      /\ \A i \in 1..Len(b) : s[Len(a) + i] = b[i]
  OBVIOUS
<1> HIDE DEF s
<1>3. DropChars(s, Len(a)) = b
  <2>1. \A i \in (Len(a) + 1)..Len(s) : s[i] \in S
    BY <1>1
  <2>2. /\ DropChars(s, Len(a)) \in Seq(S) /\ Len(DropChars(s, Len(a))) = Len(b)
        /\ \A i \in 1..Len(b) : DropChars(s, Len(a))[i] = s[Len(a) + i]
    BY <1>1, <2>1, SubSeqProperties DEF DropChars
  <2> QED BY <1>2, <2>2, SeqEqual
<1>4. SubSeq(s, 1, Len(a)) = a
  <2>1. /\ SubSeq(s, 1, Len(a)) \in Seq(S) /\ Len(SubSeq(s, 1, Len(a))) = Len(a)
        /\ \A i \in 1..Len(a) : SubSeq(s, 1, Len(a))[i] = s[i]
    BY <1>1
  <2> QED BY <1>2, <2>1, SeqEqual
<1> QED BY <1>3, <1>4 DEF s

\* The ends of a concatenation.
LEMMA ConcatEnds ==
    ASSUME NEW S, NEW a \in Seq(S), a # <<>>, NEW b \in Seq(S)
    PROVE  /\ a \o b # <<>> /\ (a \o b)[1] = a[1]
           /\ b # <<>> => (a \o b)[Len(a) + 1] = b[1] /\ (a \o b)[Len(a) + Len(b)] = b[Len(b)]
OBVIOUS

Blanks == Seq({Blank})

\* A text that does not begin or end with a blank.
Solid == {s \in Seq(Chars) : s # <<>> /\ s[1] # Blank /\ s[Len(s)] # Blank}

\* Blanks are a text.
LEMMA BlanksAreChars ==
    ASSUME NEW a \in Blanks
    PROVE  a \in Seq(Chars) /\ Len(a) \in Nat /\ \A i \in 1..Len(a) : a[i] = Blank
<1>1. {Blank} \subseteq Chars
  BY DEF Chars
<1>2. a \in Seq({Blank})
  BY DEF Blanks
<1>3. a \in Seq(Chars)
  BY <1>1, <1>2, SeqMonotonic
<1>4. \A i \in 1..Len(a) : a[i] \in {Blank}
  BY <1>2, ElementOfSeq
<1> QED BY <1>3, <1>4

\* A solid text has a first and a last character, and neither is blank.
LEMMA SolidEnds ==
    ASSUME NEW t \in Solid
    PROVE  /\ t \in Seq(Chars) /\ Len(t) \in Nat /\ Len(t) >= 1
           /\ t[1] # Blank /\ t[Len(t)] # Blank
BY DEF Solid

\* A text that does not end with a blank.
Ended == {s \in Seq(Chars) : s # <<>> => s[Len(s)] # Blank}

\* A solid text does not end with a blank, and neither does an empty one.
LEMMA SolidIsEnded == Solid \cup {<<>>} \subseteq Ended
<1>1. <<>> \in Seq(Chars)
  OBVIOUS
<1> QED BY <1>1, Zenon DEF Solid, Ended

\* TrimSpace takes away the blanks around a text.
LEMMA TrimIs ==
    ASSUME NEW a \in Blanks, NEW b \in Blanks, NEW t \in Solid
    PROVE  TrimSpace(a \o (t \o b)) = t
<1> DEFINE s == a \o (t \o b)
           solid == {i \in DOMAIN s : s[i] # Blank}
<1>1. /\ a \in Seq(Chars) /\ b \in Seq(Chars) /\ t \in Seq(Chars)
      /\ Len(a) \in Nat /\ Len(b) \in Nat /\ Len(t) \in Nat /\ Len(t) >= 1
  BY BlanksAreChars, SolidEnds
<1>2. s \in Seq(Chars) /\ Len(s) = Len(a) + Len(t) + Len(b) /\ DOMAIN s = 1..Len(s)
  BY <1>1
<1>3. /\ \A i \in 1..Len(a) : s[i] = Blank
      /\ \A i \in 1..Len(t) : s[Len(a) + i] = t[i]
      /\ \A i \in 1..Len(b) : s[Len(a) + Len(t) + i] = Blank
  <2>1. \A i \in 1..Len(a) : a[i] = Blank
    BY BlanksAreChars
  <2>2. \A i \in 1..Len(b) : b[i] = Blank
    BY BlanksAreChars
  <2>3. \A i \in 1..Len(a) : s[i] = a[i]
    BY <1>1
  <2>4. \A i \in 1..Len(t) : s[Len(a) + i] = t[i]
    BY <1>1
  <2>5. \A i \in 1..Len(b) : s[Len(a) + Len(t) + i] = b[i]
    BY <1>1
  <2> QED BY <2>1, <2>2, <2>3, <2>4, <2>5
<1> HIDE DEF s
<1>4. Len(a) + 1 \in solid /\ \A i \in solid : Len(a) + 1 <= i
  <2>1. s[Len(a) + 1] # Blank
    BY <1>1, <1>3, SolidEnds
  <2> QED BY <1>1, <1>2, <1>3, <2>1
<1>5. Len(a) + Len(t) \in solid /\ \A i \in solid : i <= Len(a) + Len(t)
  <2>1. Len(a) + Len(t) \in solid
    <3>1. s[Len(a) + Len(t)] # Blank
      BY <1>1, <1>3, SolidEnds
    <3> QED BY <1>1, <1>2, <3>1
  <2>2. ASSUME NEW i \in solid PROVE i <= Len(a) + Len(t)
    <3>1. SUFFICES ASSUME i > Len(a) + Len(t) PROVE FALSE
      BY <1>1, <1>2
    <3> DEFINE j == i - (Len(a) + Len(t))
    <3>2. j \in 1..Len(b) /\ i = Len(a) + Len(t) + j
      BY <1>1, <1>2, <3>1
    <3> QED BY <1>3, <3>2
  <2> QED BY <2>1, <2>2
<1>6. solid \subseteq Nat /\ solid # {}
  BY <1>2, <1>4
<1> HIDE DEF solid
<1>7. Min(solid) = Len(a) + 1
  BY <1>4, <1>6, MinIsLeast
<1>8. Max(solid) = Len(a) + Len(t)
  <2>1. Len(a) + Len(t) \in Nat
    BY <1>1
  <2> QED BY <1>5, <1>6, <2>1, MaxIsGreatest, Zenon
<1>9. TrimSpace(s) = SubSeq(s, Len(a) + 1, Len(a) + Len(t))
  BY <1>6, <1>7, <1>8, Zenon DEF TrimSpace, solid
<1>10. SubSeq(s, Len(a) + 1, Len(a) + Len(t)) = t
  <2>1. \A i \in (Len(a) + 1)..(Len(a) + Len(t)) : s[i] \in Chars
    BY <1>1, <1>2
  <2> DEFINE u == SubSeq(s, Len(a) + 1, Len(a) + Len(t))
  <2>2. u \in Seq(Chars) /\ Len(u) = Len(t) /\ \A i \in 1..Len(t) : u[i] = s[Len(a) + i]
    BY <1>1, <1>2, <2>1, SubSeqProperties
  <2> QED BY <1>1, <1>3, <2>2, SeqEqual
<1> QED BY <1>9, <1>10 DEF s

\* The cases that the parser meets in a built query.
LEMMA TrimCases ==
    ASSUME NEW t \in Solid
    PROVE  /\ TrimSpace(t) = t /\ TrimSpace(<<Blank>> \o t) = t
           /\ TrimSpace(<<>>) = <<>>
<1>1. <<>> \in Blanks /\ <<Blank>> \in Blanks /\ t \in Seq(Chars)
  BY SolidEnds DEF Blanks
<1>2. t \o <<>> = t /\ <<>> \o t = t
  BY <1>1
<1>3. TrimSpace(<<>>) = <<>>
  BY DEF TrimSpace
<1>4. TrimSpace(<<>> \o (t \o <<>>)) = t /\ TrimSpace(<<Blank>> \o (t \o <<>>)) = t
  BY <1>1, TrimIs, Zenon
<1> QED BY <1>2, <1>3, <1>4

\* TrimSpace takes nothing from a solid text.
LEMMA TrimWhole ==
    ASSUME NEW s \in Solid \cup {<<>>}
    PROVE  TrimSpace(s) = s
<1>1. TrimSpace(<<>>) = <<>>
  BY DEF TrimSpace
<1> QED BY <1>1, TrimCases

\* What can follow a name: a character that is no letter.
LEMMA ScanIdent ==
    ASSUME NEW l \in Seq(Letters) \ {<<>>}, NEW t \in Seq(Chars), t # <<>>, t[1] \notin Letters
    PROVE  scanIdent(l \o t) = {[value |-> l, rest |-> t]}
<1> DEFINE s == l \o t
           N == {i \in 0..Len(s) : \A j \in 1..i : s[j] \in Letters}
<1>1. Letters \subseteq Chars
  BY DEF Chars
<1>2. l \in Seq(Chars) /\ l \in Seq(Letters) /\ Len(l) \in Nat \ {0} /\ Len(t) \in Nat \ {0}
  BY <1>1, SeqMonotonic
<1>3. s \in Seq(Chars) /\ Len(s) = Len(l) + Len(t)
  BY <1>2
<1>4. (\A i \in 1..Len(l) : s[i] \in Letters) /\ s[Len(l) + 1] \notin Letters
  <2>1. \A i \in 1..Len(l) : s[i] = l[i] /\ l[i] \in Letters
    BY <1>2
  <2>2. s[Len(l) + 1] = t[1]
    BY <1>2
  <2> QED BY <2>1, <2>2
<1>5. scanIdent(s) = IF Max(N) = 0 THEN {} ELSE {[value |-> SubSeq(s, 1, Max(N)), rest |-> DropChars(s, Max(N))]}
  BY DEF scanIdent
<1>6. SubSeq(s, 1, Len(l)) = l /\ DropChars(s, Len(l)) = t
  BY <1>2, DropConcat
<1> HIDE DEF s
<1>7. Len(l) \in N
  BY <1>2, <1>3, <1>4
<1>8. \A i \in N : i <= Len(l)
  <2> SUFFICES ASSUME NEW i \in N, i > Len(l) PROVE FALSE
    BY <1>2, <1>3
  <2>1. Len(l) + 1 \in 1..i
    BY <1>2, <1>3
  <2> QED BY <1>4, <2>1
<1>9. N \subseteq Nat /\ Len(l) \in Nat
  BY <1>2, <1>3
<1> HIDE DEF N
<1>10. Max(N) = Len(l)
  BY <1>7, <1>8, <1>9, MaxIsGreatest, Zenon
<1> QED BY <1>2, <1>5, <1>6, <1>10 DEF s

\* When a text begins with another.
LEMMA PrefixIff ==
    ASSUME NEW p \in Seq(Chars), NEW s \in Seq(Chars)
    PROVE  IsPrefix(p, s) <=> Len(p) <= Len(s) /\ \A i \in 1..Len(p) : s[i] = p[i]
<1>1. SubSeq(p, 1, Len(p)) = p
  BY SubSeqFull
<1>2. ASSUME Len(p) <= Len(s)
      PROVE  SubSeq(s, 1, Len(p)) = p <=> \A i \in 1..Len(p) : s[i] = p[i]
  <2> DEFINE u == SubSeq(s, 1, Len(p))
  <2>1. u \in Seq(Chars) /\ Len(u) = Len(p) /\ \A i \in 1..Len(p) : u[i] = s[i]
    BY <1>2
  <2> HIDE DEF u
  <2>2. (\A i \in 1..Len(p) : s[i] = p[i]) => u = p
    BY <2>1, SeqEqual
  <2> QED BY <2>1, <2>2 DEF u
<1> QED BY <1>1, <1>2 DEF IsPrefix

\* The operators are texts.
LEMMA OpsAreChars ==
    /\ Equal \in Seq(Chars) /\ NotEqual \in Seq(Chars) /\ Regexp \in Seq(Chars)
    /\ NotRegexp \in Seq(Chars) /\ LineContains \in Seq(Chars) /\ LineMatches \in Seq(Chars)
<1>1. "=" \in Chars /\ "!" \in Chars /\ "~" \in Chars /\ "|" \in Chars
  BY DEF Chars, MetaChars
<1> QED BY <1>1 DEF Equal, NotEqual, Regexp, NotRegexp, LineContains, LineMatches

\* The operator before a quoted value, or a blank, is the one that was written.
LEMMA ScanOp ==
    ASSUME NEW t \in Seq(Chars), t # <<>>, t[1] \in {QuoteMark, Blank}
    PROVE  /\ \A op \in {Equal, NotEqual, Regexp, NotRegexp} :
                 scanOp(MatchOps, op \o t) = {[value |-> op, rest |-> t]}
           /\ \A op \in {LineContains, NotEqual} :
                 scanOp(FilterOps, op \o t) = {[value |-> op, rest |-> t]}
<1>1. ASSUME NEW ops, NEW n \in DOMAIN ops, ops[n] \in Seq(Chars),
             DOMAIN ops \subseteq Nat, IsPrefix(ops[n], ops[n] \o t),
             \A i \in DOMAIN ops : IsPrefix(ops[i], ops[n] \o t) => n <= i
      PROVE  scanOp(ops, ops[n] \o t) = {[value |-> ops[n], rest |-> t]}
  <2> DEFINE found == {i \in DOMAIN ops : IsPrefix(ops[i], ops[n] \o t)}
             first == {i \in found : \A j \in found : i <= j}
  <2>1. n \in found /\ found \subseteq Nat /\ \A i \in found : n <= i
    BY <1>1
  <2>2. scanOp(ops, ops[n] \o t) =
          {[value |-> ops[i], rest |-> DropChars(ops[n] \o t, Len(ops[i]))] : i \in first}
    BY Zenon DEF scanOp
  <2>3. DropChars(ops[n] \o t, Len(ops[n])) = t
    BY <1>1, DropConcat
  <2>4. first = {n}
    <3> HIDE DEF found
    <3> QED BY <2>1
  <2> HIDE DEF first
  <2> QED BY <2>2, <2>3, <2>4
<1>2. /\ DOMAIN MatchOps = {1, 2, 3, 4} /\ DOMAIN FilterOps = {1, 2, 3, 4}
      /\ MatchOps[1] = Regexp /\ MatchOps[2] = NotRegexp
      /\ MatchOps[3] = NotEqual /\ MatchOps[4] = Equal
      /\ FilterOps[1] = LineContains /\ FilterOps[2] = LineMatches
      /\ FilterOps[3] = NotEqual /\ FilterOps[4] = NotRegexp
  BY DEF MatchOps, FilterOps
<1>3. t[1] \notin {"=", "!", "~", "|"}
  BY DEF QuoteMark, Blank
<1> DEFINE Ops == {Equal, NotEqual, Regexp, NotRegexp, LineContains, LineMatches}
<1>4. ASSUME NEW op \in Ops, NEW other \in Ops
      PROVE  /\ IsPrefix(op, op \o t)
             /\ IsPrefix(other, op \o t) => other = op \/ (op = Regexp /\ other = Equal)
  <2> DEFINE s == op \o t
  <2>0. op \in Seq(Chars) /\ other \in Seq(Chars)
    BY OpsAreChars
  <2>1. s \in Seq(Chars) /\ Len(s) = Len(op) + Len(t) /\ Len(t) >= 1
    BY <2>0
  <2>2. (\A i \in 1..Len(op) : s[i] = op[i]) /\ s[Len(op) + 1] = t[1]
    BY <2>0
  <2> HIDE DEF s
  <2>3. IsPrefix(op, s)
    BY <2>0, <2>1, <2>2, PrefixIff
  <2>4. ASSUME IsPrefix(other, s), other # op PROVE op = Regexp /\ other = Equal
    <3>1. Len(other) <= Len(s) /\ \A i \in 1..Len(other) : s[i] = other[i]
      BY <2>0, <2>1, <2>4, PrefixIff
    <3>2. CASE other = Equal
      <4>1. Len(op) = 2 /\ s[1] = op[1] /\ s[1] = "="
        BY <2>2, <2>4, <3>1, <3>2 DEF Equal, NotEqual, Regexp, NotRegexp, LineContains, LineMatches
      <4>2. op[1] = "=" /\ op # Equal
        BY <2>4, <3>2, <4>1
      <4>3. op = Regexp
        BY <4>2 DEF NotEqual, Regexp, NotRegexp, LineContains, LineMatches
      <4> QED BY <3>2, <4>3
    <3>3. CASE other # Equal
      <4>1. Len(other) = 2 /\ s[1] = other[1] /\ s[2] = other[2] /\ other[2] # t[1]
        BY <1>3, <3>1, <3>3 DEF NotEqual, Regexp, NotRegexp, LineContains, LineMatches
      <4>2. op # Equal
        <5> SUFFICES ASSUME op = Equal PROVE FALSE
          OBVIOUS
        <5>1. s[2] = t[1]
          BY <2>2 DEF Equal
        <5> QED BY <4>1, <5>1
      <4>3. Len(op) = 2 /\ s[1] = op[1] /\ s[2] = op[2]
        BY <2>2, <4>2 DEF NotEqual, Regexp, NotRegexp, LineContains, LineMatches
      <4>4. op[1] = other[1] /\ op[2] = other[2]
        BY <4>1, <4>3
      <4> QED BY <2>4, <3>3, <4>2, <4>4 DEF NotEqual, Regexp, NotRegexp, LineContains, LineMatches
    <3> QED BY <3>2, <3>3
  <2>5. IsPrefix(other, s) => other = op \/ (op = Regexp /\ other = Equal)
    BY <2>4
  <2> QED BY <2>3, <2>5 DEF s
<1>5. Regexp # NotEqual /\ Regexp # Equal /\ Regexp # LineContains /\ Equal # NotEqual /\ Equal # NotRegexp
  BY DEF Equal, NotEqual, Regexp, NotRegexp, LineContains
<1>6. ASSUME NEW op \in {Equal, NotEqual, Regexp, NotRegexp}
      PROVE  scanOp(MatchOps, op \o t) = {[value |-> op, rest |-> t]}
  <2>1. PICK n \in DOMAIN MatchOps : MatchOps[n] = op
    BY <1>2
  <2>2. \A i \in DOMAIN MatchOps : MatchOps[i] \in Ops
    BY <1>2
  <2>3. ASSUME NEW i \in DOMAIN MatchOps, IsPrefix(MatchOps[i], op \o t) PROVE n <= i
    <3>1. MatchOps[i] = op \/ (op = Regexp /\ MatchOps[i] = Equal)
      BY <1>4, <2>2, <2>3
    <3> QED BY <1>2, <1>5, <2>1, <3>1 DEF Equal, NotEqual, Regexp, NotRegexp
  <2>4. IsPrefix(op, op \o t) /\ op \in Seq(Chars) /\ DOMAIN MatchOps \subseteq Nat
    BY <1>2, <1>4, OpsAreChars
  <2> QED BY <1>1, <2>1, <2>3, <2>4
<1>7. ASSUME NEW op \in {LineContains, NotEqual}
      PROVE  scanOp(FilterOps, op \o t) = {[value |-> op, rest |-> t]}
  <2>1. PICK n \in DOMAIN FilterOps : FilterOps[n] = op
    BY <1>2
  <2>2. \A i \in DOMAIN FilterOps : FilterOps[i] \in Ops
    BY <1>2
  <2>3. ASSUME NEW i \in DOMAIN FilterOps, IsPrefix(FilterOps[i], op \o t) PROVE n <= i
    <3>1. FilterOps[i] = op
      BY <1>4, <1>5, <2>2, <2>3
    <3> QED BY <1>2, <2>1, <3>1 DEF NotEqual, LineMatches, LineContains, NotRegexp
  <2>4. IsPrefix(op, op \o t) /\ op \in Seq(Chars) /\ DOMAIN FilterOps \subseteq Nat
    BY <1>2, <1>4, OpsAreChars
  <2> QED BY <1>1, <2>1, <2>3, <2>4
<1> QED BY <1>6, <1>7

\* The loops that read a value up to its closing quote give the value back, and
\* what comes after the quote.
LEMMA UnquoteQuoted ==
    ASSUME NEW v \in Seq(Chars), NEW e \in Seq(Chars), NEW t \in Seq(Chars), Quoted(v, e)
    PROVE  unquote(e \o (<<QuoteMark>> \o t)) = {[value |-> v, rest |-> t]}
<1> DEFINE q == <<QuoteMark>> \o t
           s == e \o q
           E == Reading(e, "inside", DoubleQuote)
           Q == Reading(q, "inside", DoubleQuote)
           mode == Reading(s, "inside", DoubleQuote)
           ends == {i \in DOMAIN s : mode[i] = "outside"}
           end == Len(e) + 1
<1>1. QuoteMark \in Chars /\ "inside" \in Modes
  BY DEF Chars, Modes
<1>2. /\ q \in Seq(Chars) /\ Len(q) = Len(t) + 1 /\ q[1] = QuoteMark
      /\ Len(e) \in Nat /\ Len(t) \in Nat
  BY <1>1
<1> HIDE DEF q
<1>3. s \in Seq(Chars) /\ Len(s) = Len(e) + Len(q) /\ s[end] = QuoteMark /\ DOMAIN s = 1..Len(s)
      /\ \A i \in 1..Len(e) : s[i] = e[i]
  BY <1>2
<1>4. /\ E[Len(e)] = "inside"
      /\ \A i \in 1..Len(e) : E[i] # "outside"
      /\ \A i \in 1..Len(e) : E[i - 1] = "escaped" => e[i] \in Escapable
      /\ FlattenSeq(Bare(e, E)) = v
  BY DEF Quoted
<1>5. /\ \A i \in 0..Len(e) : mode[i] = E[i]
      /\ \A i \in 0..Len(q) : mode[Len(e) + i] = Q[i]
  BY <1>1, <1>2, <1>4, ReadingConcat
<1>6. Q[1] = "outside"
  <2>1. Q[0] = "inside" /\ Q[1] = After(Q[0], q[1], DoubleQuote)
    BY <1>1, <1>2, ReadingSteps
  <2> QED BY <1>2, <2>1 DEF After, DoubleQuote, QuoteMark
<1>7. unquote(s) =
        LET isError == \E i \in 1..Min(ends) : mode[i - 1] = "escaped" /\ s[i] \notin Escapable
        IN  IF ends = {} \/ isError THEN {}
            ELSE {[value |-> FlattenSeq([i \in 1..(Min(ends) - 1) |->
                                           IF mode[i] = "escaped" THEN <<>> ELSE <<s[i]>>]),
                   rest |-> DropChars(s, Min(ends))]}
  BY Zenon DEF unquote
<1>8. DropChars(s, end) = t
  <2>1. s = (e \o <<QuoteMark>>) \o t /\ e \o <<QuoteMark>> \in Seq(Chars) /\ Len(e \o <<QuoteMark>>) = end
    BY <1>1, <1>2 DEF q
  <2>2. PICK w \in Seq(Chars) : w = e \o <<QuoteMark>>
    BY <2>1, Zenon
  <2>3. DropChars(w \o t, Len(w)) = t
    BY <1>1, DropConcat
  <2> QED BY <2>1, <2>2, <2>3
<1> HIDE DEF s, E, Q, mode
<1>9. end \in ends /\ ends \subseteq Nat
  BY <1>2, <1>3, <1>5, <1>6
<1>10. \A i \in ends : end <= i
  <2> SUFFICES ASSUME NEW i \in ends, ~(end <= i) PROVE FALSE
    OBVIOUS
  <2>1. i \in 1..Len(e) /\ mode[i] = "outside"
    BY <1>2, <1>3
  <2>2. mode[i] = E[i]
    BY <1>2, <1>5, <2>1
  <2> QED BY <1>4, <2>1, <2>2
<1> HIDE DEF ends
<1>11. Min(ends) = end
  BY <1>9, <1>10, MinIsLeast
<1>12. ~ \E i \in 1..end : mode[i - 1] = "escaped" /\ s[i] \notin Escapable
  <2> SUFFICES ASSUME NEW i \in 1..end, mode[i - 1] = "escaped" PROVE s[i] \in Escapable
    OBVIOUS
  <2>1. CASE i = end
    <3>1. i - 1 = Len(e) /\ Len(e) \in 0..Len(e)
      BY <1>2, <2>1
    <3>2. mode[i - 1] = "inside"
      BY <1>4, <1>5, <3>1
    <3> QED BY <3>2
  <2>2. CASE i \in 1..Len(e)
    <3>1. i - 1 \in 0..Len(e) /\ s[i] = e[i]
      BY <1>2, <1>3, <2>2
    <3>2. E[i - 1] = "escaped"
      BY <1>5, <3>1
    <3> QED BY <1>4, <2>2, <3>1, <3>2
  <2> QED BY <1>2, <2>1, <2>2
<1>13. [i \in 1..(end - 1) |-> IF mode[i] = "escaped" THEN <<>> ELSE <<s[i]>>] = Bare(e, E)
  BY <1>2, <1>3, <1>5 DEF Bare
<1>14. ends # {}
  BY <1>9
<1> QED BY <1>4, <1>7, <1>8, <1>11, <1>12, <1>13, <1>14 DEF s, q

\* A quoted value is read back.
LEMMA ScanQuoted ==
    ASSUME NEW v \in Seq(Chars), NEW t \in Seq(Chars)
    PROVE  /\ Quote(v) \in Seq(Chars) /\ Quote(v) # <<>>
           /\ Quote(v)[1] = QuoteMark /\ Quote(v)[Len(Quote(v))] = QuoteMark
           /\ scanString(Quote(v) \o t) = {[value |-> v, rest |-> t]}
<1> DEFINE e == Escape(v, Escapable)
           r == e \o (<<QuoteMark>> \o t)
           s == Quote(v) \o t
<1>1. QuoteMark \in Chars
  BY DEF Chars
<1>2. e \in Seq(Chars) /\ Quoted(v, e)
  BY EscapeIsQuoted
<1>3. Quote(v) = (<<QuoteMark>> \o e) \o <<QuoteMark>>
  BY DEF Quote
<1> HIDE DEF e
<1>4. /\ Quote(v) \in Seq(Chars) /\ Quote(v) # <<>>
      /\ Quote(v)[1] = QuoteMark /\ Quote(v)[Len(Quote(v))] = QuoteMark
  BY <1>1, <1>2, <1>3
<1>5. s = <<QuoteMark>> \o r /\ r \in Seq(Chars)
  BY <1>1, <1>2, <1>3
<1>6. unquote(r) = {[value |-> v, rest |-> t]}
  BY <1>2, UnquoteQuoted
<1> HIDE DEF r, s
<1>7. s # <<>> /\ s[1] = QuoteMark /\ Tail(s) = r
  BY <1>1, <1>5
<1>8. scanString(s) = unquote(Tail(s))
  <2>1. QuoteMark # Backquote
    BY DEF QuoteMark, Backquote
  <2> QED BY <1>7, <2>1, Zenon DEF scanString
<1> QED BY <1>4, <1>6, <1>7, <1>8, Zenon DEF s
-----------------------------------------------------------------------------
(***************************************************************************)
(* Reading a built query.                                                  *)
(***************************************************************************)
MatcherOps == {Equal, NotEqual, Regexp, NotRegexp}

\* The label matchers and the line filters that the builder's methods add.
Matchers == {m \in [label : Seq(Letters) \ {<<>>}, op : MatcherOps, value : Seq(Chars)] :
                Compiles(m.op, m.value)}
Filters == [op : {LineContains, NotEqual}, value : Seq(Chars)]

\* The text of a matcher, and of a filter, as in String.
Part(m) == m.label \o m.op \o Quote(m.value)
Clause(f) == <<Blank>> \o f.op \o <<Blank>> \o Quote(f.value)

Separator == <<Comma, Blank>>

\* What follows a matcher in the text, when rest is the text of the others.
Following(rest) == IF rest = <<>> THEN <<>> ELSE Separator \o rest

\* scanMatcher succeeds step by step.
LEMMA ScanMatcherIff ==
    ASSUME NEW p, NEW x
    PROVE  x \in scanMatcher(p) <=>
             \E id \in scanIdent(p.rest) :
               \E op \in scanOp(MatchOps, TrimSpace(id.rest)) :
                 \E str \in scanString(TrimSpace(op.rest)) :
                   /\ Compiles(op.value, str.value)
                   /\ \E rest \in afterMatcher(TrimSpace(str.rest)) :
                        x = [out |-> Append(p.out, [label |-> id.value, op |-> op.value,
                                                    value |-> str.value]),
                             rest |-> rest]
<1> DEFINE ids == scanIdent(p.rest)
           ops(id) == scanOp(MatchOps, TrimSpace(id.rest))
           strs(op) == {v \in scanString(TrimSpace(op.rest)) : Compiles(op.value, v.value)}
           rests(str) == afterMatcher(TrimSpace(str.rest))
           one(id, op, str, rest) ==
             [out |-> Append(p.out, [label |-> id.value, op |-> op.value, value |-> str.value]),
              rest |-> rest]
           R3(id, op, str) == {one(id, op, str, rest) : rest \in rests(str)}
           R2(id, op) == UNION {R3(id, op, str) : str \in strs(op)}
           R1(id) == UNION {R2(id, op) : op \in ops(id)}
<1>1. scanMatcher(p) = UNION {R1(id) : id \in ids}
  BY DEF scanMatcher
<1>2. \A id, op, str : x \in R3(id, op, str) <=> \E rest \in rests(str) : x = one(id, op, str, rest)
  OBVIOUS
<1>3. \A id, op : x \in R2(id, op) <=> \E str \in strs(op) : x \in R3(id, op, str)
  <2> HIDE DEF R3, strs
  <2> QED BY Zenon
<1>4. \A id : x \in R1(id) <=> \E op \in ops(id) : x \in R2(id, op)
  <2> HIDE DEF R2, ops
  <2> QED BY Zenon
<1>5. x \in scanMatcher(p) <=> \E id \in ids : x \in R1(id)
  <2> HIDE DEF R1, ids
  <2> QED BY <1>1, Zenon
<1>6. x \in scanMatcher(p) <=>
        \E id \in ids : \E op \in ops(id) : \E str \in strs(op) :
          \E rest \in rests(str) : x = one(id, op, str, rest)
  <2> HIDE DEF R1, R2, R3, ids, ops, strs, rests, one
  <2>1. \A id, op : x \in R2(id, op) <=>
          \E str \in strs(op) : \E rest \in rests(str) : x = one(id, op, str, rest)
    BY <1>2, <1>3, Zenon
  <2>2. \A id : x \in R1(id) <=>
          \E op \in ops(id) : \E str \in strs(op) :
            \E rest \in rests(str) : x = one(id, op, str, rest)
    BY <1>4, <2>1, Zenon
  <2> QED BY <1>5, <2>2, Zenon
<1> QED BY <1>6, Zenon

\* What a pass over the filters adds.
LEMMA ScanFilterIff ==
    ASSUME NEW p, NEW x
    PROVE  x \in scanFilter(p) <=>
             \E op \in scanOp(FilterOps, p.rest) :
               \E str \in scanString(TrimSpace(op.rest)) :
                 /\ Compiles(op.value, str.value)
                 /\ x = [out |-> Append(p.out, [op |-> op.value, value |-> str.value]),
                         rest |-> TrimSpace(str.rest)]
<1> DEFINE ops == scanOp(FilterOps, p.rest)
           strs(op) == {v \in scanString(TrimSpace(op.rest)) : Compiles(op.value, v.value)}
           one(op, str) == [out |-> Append(p.out, [op |-> op.value, value |-> str.value]),
                            rest |-> TrimSpace(str.rest)]
           R1(op) == {one(op, str) : str \in strs(op)}
<1>1. scanFilter(p) = UNION {R1(op) : op \in ops}
  BY DEF scanFilter
<1>2. \A op : x \in R1(op) <=> \E str \in strs(op) : x = one(op, str)
  <2> HIDE DEF strs, one
  <2> QED BY Zenon
<1>3. x \in scanFilter(p) <=> \E op \in ops : x \in R1(op)
  <2> HIDE DEF R1, ops
  <2> QED BY <1>1, Zenon
<1>4. x \in scanFilter(p) <=> \E op \in ops : \E str \in strs(op) : x = one(op, str)
  <2> HIDE DEF R1, ops, strs, one
  <2> QED BY <1>2, <1>3, Zenon
<1> QED BY <1>4, Zenon

\* The characters of a query's own syntax are neither letters nor blanks.
LEMMA SyntaxChars ==
    /\ {Blank, Comma, QuoteMark, Backquote, LeftBrace, RightBrace, "=", "!", "~", "|"} \subseteq Chars
    /\ {Blank, Comma, QuoteMark, Backquote, LeftBrace, RightBrace, "=", "!", "~", "|"} \cap Letters = {}
    /\ Blank \notin {Comma, QuoteMark, Backquote, LeftBrace, RightBrace, "=", "!", "~", "|"}
    /\ Letters \subseteq Chars /\ Blank \notin Letters
<1>1. {Blank, Comma, QuoteMark, Backquote, LeftBrace, RightBrace, "=", "!", "~", "|"} \subseteq Chars
  BY DEF Chars, MetaChars
<1>2. {Blank, Comma, QuoteMark, Backquote, LeftBrace, RightBrace, "=", "!", "~", "|"} \cap Letters = {}
  BY DEF Blank, Comma, QuoteMark, Backquote, LeftBrace, RightBrace, Letters
<1>3. Blank \notin {Comma, QuoteMark, Backquote, LeftBrace, RightBrace, "=", "!", "~", "|"}
  BY DEF Blank, Comma, QuoteMark, Backquote, LeftBrace, RightBrace
<1>4. Letters \subseteq Chars /\ Blank \notin Letters
  BY DEF Chars, Letters, Blank
<1> QED BY <1>1, <1>2, <1>3, <1>4

\* An operator begins with a character that is no letter and no blank.
LEMMA OpStart ==
    ASSUME NEW op \in {Equal, NotEqual, Regexp, NotRegexp, LineContains, LineMatches}
    PROVE  op \in Seq(Chars) /\ op # <<>> /\ op[1] \notin Letters /\ op[1] # Blank
<1>1. op \in Seq(Chars) /\ op # <<>> /\ op[1] \in {"=", "!", "|"}
  <2>1. op \in Seq(Chars)
    BY OpsAreChars
  <2>2. op # <<>> /\ op[1] \in {"=", "!", "|"}
    BY DEF Equal, NotEqual, Regexp, NotRegexp, LineContains, LineMatches
  <2> QED BY <2>1, <2>2
<1>2. "=" \notin Letters /\ "!" \notin Letters /\ "|" \notin Letters
  BY DEF Letters
<1>3. "=" # Blank /\ "!" # Blank /\ "|" # Blank
  BY DEF Blank
<1> QED BY <1>1, <1>2, <1>3

\* A solid text after one that does not begin with a blank.
LEMMA SolidConcat ==
    ASSUME NEW a \in Seq(Chars), a # <<>>, a[1] # Blank, NEW b \in Solid
    PROVE  a \o b \in Solid
<1>1. b \in Seq(Chars) /\ Len(b) \in Nat /\ Len(b) >= 1 /\ b[Len(b)] # Blank
  BY SolidEnds
<1>2. a \o b \in Seq(Chars) /\ Len(a \o b) = Len(a) + Len(b) /\ Len(a) >= 1
  BY <1>1
<1>3. (a \o b)[1] = a[1] /\ (a \o b)[Len(a \o b)] = b[Len(b)]
  BY <1>1, <1>2
<1> DEFINE s == a \o b
<1>4. s \in Seq(Chars) /\ s # <<>> /\ s[1] # Blank /\ s[Len(s)] # Blank
  BY <1>1, <1>2, <1>3
<1> HIDE DEF s
<1>5. s \in Solid
  BY <1>4 DEF Solid
<1> QED BY <1>5 DEF s

\* A quoted value and what follows it is solid.
LEMMA QuoteThenSolid ==
    ASSUME NEW v \in Seq(Chars), NEW rest \in Ended
    PROVE  Quote(v) \o rest \in Solid
<1>1. PICK q \in Seq(Chars) : q = Quote(v) /\ q # <<>> /\ q[1] = QuoteMark /\ q[Len(q)] = QuoteMark
  <2>1. <<>> \in Seq(Chars)
    OBVIOUS
  <2> QED BY <2>1, ScanQuoted
<1>2. QuoteMark # Blank
  BY DEF QuoteMark, Blank
<1>3. rest \in Seq(Chars) /\ (rest # <<>> => rest[Len(rest)] # Blank)
  BY DEF Ended
<1>4. PICK s \in Seq(Chars) : s = q \o rest
  BY <1>3, ConcatProperties, Zenon
<1>5. s # <<>> /\ s[1] = q[1]
  BY <1>1, <1>3, <1>4
<1>6. s[Len(s)] # Blank
  <2>1. CASE rest = <<>>
    <3>1. s = q
      BY <1>4, <2>1
    <3> QED BY <1>1, <1>2, <3>1
  <2>2. CASE rest # <<>>
    <3>1. s[Len(s)] = rest[Len(rest)]
      BY <1>3, <1>4, <2>2
    <3> QED BY <1>3, <2>2, <3>1
  <2> QED BY <2>1, <2>2
<1>7. s \in Solid
  BY <1>1, <1>2, <1>5, <1>6 DEF Solid
<1> QED BY <1>1, <1>4, <1>7

\* The text after a matcher, and what the parser goes on with.
LEMMA FollowingSolid ==
    ASSUME NEW rest \in Solid \cup {<<>>}
    PROVE  /\ Following(rest) \in Seq(Chars) /\ Following(rest) \in Solid \cup {<<>>}
           /\ TrimSpace(Following(rest)) = Following(rest)
           /\ afterMatcher(Following(rest)) = {rest}
<1>1. CASE rest = <<>>
  <2>1. Following(rest) = <<>> /\ TrimSpace(<<>>) = <<>>
    BY <1>1 DEF Following, TrimSpace
  <2>2. afterMatcher(<<>>) = {<<>>}
    BY DEF afterMatcher
  <2>3. <<>> \in Seq(Chars)
    OBVIOUS
  <2> QED BY <1>1, <2>1, <2>2, <2>3, Zenon
<1>2. CASE rest \in Solid
  <2> DEFINE f == Separator \o rest
             b == <<Blank>> \o rest
  <2>1. rest \in Seq(Chars) /\ rest # <<>>
    BY <1>2 DEF Solid
  <2>2. Following(rest) = f
    BY <2>1 DEF Following
  <2>3. Separator \in Seq(Chars) /\ Separator # <<>> /\ Separator[1] # Blank
    BY SyntaxChars DEF Separator
  <2>4. f \in Solid
    BY <1>2, <2>3, SolidConcat
  <2>5. f = <<Comma>> \o b /\ b \in Seq(Chars) /\ Comma \in Chars
    BY <2>1, SyntaxChars DEF Separator
  <2>6. TrimSpace(b) = rest
    BY <1>2, TrimCases
  <2> HIDE DEF f, b
  <2>7. f # <<>> /\ f[1] = Comma /\ Tail(f) = b /\ f \in Seq(Chars)
    BY <2>5
  <2>8. afterMatcher(f) = {TrimSpace(Tail(f))}
    BY <2>7, Zenon DEF afterMatcher
  <2>9. TrimSpace(f) = f
    BY <2>4, TrimCases
  <2> QED BY <2>2, <2>4, <2>6, <2>7, <2>8, <2>9, Zenon
<1> QED BY <1>1, <1>2

\* One pass of parseMatchers over the text of a matcher and what follows it.
LEMMA ScanPart ==
    ASSUME NEW m \in Matchers, NEW rest \in Solid \cup {<<>>}, NEW out
    PROVE  /\ Part(m) \in Seq(Chars) /\ Part(m) \o Following(rest) \in Solid
           /\ scanMatcher([out |-> out, rest |-> Part(m) \o Following(rest)])
                = {[out |-> Append(out, m), rest |-> rest]}
<1> DEFINE tail == Following(rest)
           quoted == Quote(m.value)
           str == quoted \o tail
           ops == m.op \o str
           p == [out |-> out, rest |-> Part(m) \o tail]
<1>1. /\ m.label \in Seq(Letters) \ {<<>>} /\ m.op \in MatcherOps /\ m.value \in Seq(Chars)
      /\ Compiles(m.op, m.value) /\ m = [label |-> m.label, op |-> m.op, value |-> m.value]
  BY DEF Matchers
<1>2. m.label \in Seq(Chars) /\ m.label # <<>> /\ m.label[1] # Blank /\ m.label[1] \in Letters
  <2>1. m.label \in Seq(Letters) /\ m.label # <<>> /\ m.label[1] \in Letters
    BY <1>1
  <2> QED BY <2>1, SyntaxChars, SeqMonotonic
<1>3. /\ tail \in Seq(Chars) /\ tail \in Solid \cup {<<>>}
      /\ TrimSpace(tail) = tail /\ afterMatcher(tail) = {rest}
  BY FollowingSolid
<1>4. m.op \in Seq(Chars) /\ m.op # <<>> /\ m.op[1] \notin Letters /\ m.op[1] # Blank
  BY <1>1, OpStart DEF MatcherOps
<1> HIDE DEF tail
<1>5. /\ quoted \in Seq(Chars) /\ quoted # <<>> /\ quoted[1] = QuoteMark
      /\ scanString(str) = {[value |-> m.value, rest |-> tail]}
  BY <1>1, <1>3, ScanQuoted
<1>6. str \in Solid /\ TrimSpace(str) = str
  BY <1>1, <1>3, SolidIsEnded, QuoteThenSolid, TrimCases, Zenon
<1> HIDE DEF quoted
<1>7. str \in Seq(Chars) /\ str # <<>> /\ str[1] = QuoteMark
  BY <1>3, <1>5
<1> HIDE DEF str
<1>8. ops \in Solid /\ TrimSpace(ops) = ops
  BY <1>4, <1>6, SolidConcat, TrimCases, Zenon
<1>9. scanOp(MatchOps, ops) = {[value |-> m.op, rest |-> str]}
  BY <1>1, <1>7, ScanOp DEF MatcherOps
<1>10. ops \in Seq(Chars) /\ ops # <<>> /\ ops[1] \notin Letters
  BY <1>4, <1>7
<1>11. Part(m) \in Seq(Chars) /\ Part(m) \o tail = m.label \o ops
  <2>1. Part(m) = (m.label \o m.op) \o quoted
    BY DEF Part, quoted
  <2>2. m.label \o m.op \in Seq(Chars) /\ str \in Seq(Chars)
    BY <1>2, <1>4, <1>7
  <2>3. Part(m) \in Seq(Chars)
    BY <1>5, <2>1, <2>2
  <2>4. ((m.label \o m.op) \o quoted) \o tail = m.label \o (m.op \o (quoted \o tail))
    <3>1. /\ m.label \in Seq(Chars) /\ m.op \in Seq(Chars)
          /\ quoted \in Seq(Chars) /\ tail \in Seq(Chars)
      BY <1>2, <1>3, <1>4, <1>5
    <3>2. PICK l, o, q, t \in Seq(Chars) : l = m.label /\ o = m.op /\ q = quoted /\ t = tail
      BY <3>1
    <3>3. ((l \o o) \o q) \o t = l \o (o \o (q \o t))
      OBVIOUS
    <3> QED BY <3>2, <3>3
  <2> QED BY <2>1, <2>3, <2>4 DEF str
<1> HIDE DEF ops
<1>12. scanIdent(m.label \o ops) = {[value |-> m.label, rest |-> ops]}
  BY <1>1, <1>10, ScanIdent
<1>13. ASSUME NEW x
       PROVE  x \in scanMatcher(p) <=> x = [out |-> Append(out, m), rest |-> rest]
  <2>1. p.rest = m.label \o ops /\ p.out = out
    BY <1>11
  <2> HIDE DEF p
  <2> DEFINE id0 == [value |-> m.label, rest |-> ops]
             op0 == [value |-> m.op, rest |-> str]
             str0 == [value |-> m.value, rest |-> tail]
  <2>2. /\ scanIdent(p.rest) = {id0}
        /\ scanOp(MatchOps, TrimSpace(id0.rest)) = {op0}
        /\ scanString(TrimSpace(op0.rest)) = {str0}
        /\ Compiles(op0.value, str0.value)
        /\ afterMatcher(TrimSpace(str0.rest)) = {rest}
        /\ m = [label |-> id0.value, op |-> op0.value, value |-> str0.value]
    BY <1>1, <1>3, <1>5, <1>6, <1>8, <1>9, <1>12, <2>1
  <2> HIDE DEF id0, op0, str0
  <2>3. x \in scanMatcher(p) <=>
          x = [out |-> Append(p.out, [label |-> id0.value, op |-> op0.value, value |-> str0.value]),
               rest |-> rest]
    <3> DEFINE new(id, op, s, r) ==
                 [out |-> Append(p.out, [label |-> id.value, op |-> op.value, value |-> s.value]),
                  rest |-> r]
    <3>1. x \in scanMatcher(p) <=>
            \E id \in scanIdent(p.rest) :
               \E op \in scanOp(MatchOps, TrimSpace(id.rest)) :
                 \E s \in scanString(TrimSpace(op.rest)) :
                   /\ Compiles(op.value, s.value)
                   /\ \E r \in afterMatcher(TrimSpace(s.rest)) : x = new(id, op, s, r)
      BY ScanMatcherIff, SMTT(20)
    <3> HIDE DEF new
    <3>2. x \in scanMatcher(p) => x = new(id0, op0, str0, rest)
      BY <2>2, <3>1
    <3>3. x = new(id0, op0, str0, rest) => x \in scanMatcher(p)
      BY <2>2, <3>1
    <3> QED BY <3>2, <3>3, Zenon DEF new
  <2> QED BY <2>1, <2>2, <2>3
<1>14. Part(m) \o tail \in Solid
  BY <1>2, <1>8, <1>11, SolidConcat
<1> QED BY <1>11, <1>13, <1>14, Zenon DEF tail

\* Two texts put together are a text.
LEMMA CatType ==
    ASSUME NEW S, NEW a \in Seq(S), NEW b \in Seq(S)
    PROVE  Cat(a, b) \in Seq(S)
BY DEF Cat

\* Nothing adds nothing.
LEMMA CatEmpty ==
    ASSUME NEW S, NEW a \in Seq(S)
    PROVE  Cat(a, <<>>) = a /\ Cat(<<>>, a) = a
BY ConcatEmptySeq DEF Cat

\* Texts may be put together in any order of the steps.
LEMMA CatAssociative ==
    ASSUME NEW S, NEW a \in Seq(S), NEW b \in Seq(S), NEW c \in Seq(S)
    PROVE  Cat(Cat(a, b), c) = Cat(a, Cat(b, c))
BY ConcatAssociative DEF Cat

\* The pieces that Join puts together.
Pieces(texts, sep) == [i \in DOMAIN texts |-> IF i = 1 THEN texts[i] ELSE sep \o texts[i]]

\* strings.Join as texts put together.
LEMMA PiecesType ==
    ASSUME NEW S, NEW texts \in Seq(Seq(S)), NEW sep \in Seq(S)
    PROVE  /\ Pieces(texts, sep) \in Seq(Seq(S)) /\ Len(Pieces(texts, sep)) = Len(texts)
           /\ Join(texts, sep) = FlattenSeq(Pieces(texts, sep))
           /\ Join(texts, sep) \in Seq(S)
<1>1. \A i \in 1..Len(texts) : texts[i] \in Seq(S) /\ sep \o texts[i] \in Seq(S)
  OBVIOUS
<1>2. Pieces(texts, sep) \in [1..Len(texts) -> Seq(S)] /\ Len(texts) \in Nat
  BY <1>1 DEF Pieces
<1>3. Pieces(texts, sep) \in Seq(Seq(S)) /\ Len(Pieces(texts, sep)) = Len(texts)
  BY <1>2, FunIsSeq, Zenon
<1>4. Join(texts, sep) = FlattenSeq(Pieces(texts, sep))
  BY DEF Join, Pieces
<1> QED BY <1>3, <1>4, FlattenType

\* Joining one text more.
LEMMA JoinAppend ==
    ASSUME NEW S, NEW texts \in Seq(Seq(S)), NEW sep \in Seq(S), NEW y \in Seq(S)
    PROVE  /\ Join(<<>>, sep) = <<>>
           /\ Join(Append(texts, y), sep) =
                IF texts = <<>> THEN y ELSE Cat(Join(texts, sep), Cat(sep, y))
<1> DEFINE last == IF texts = <<>> THEN y ELSE Cat(sep, y)
           A == Pieces(texts, sep)
           B == Pieces(Append(texts, y), sep)
<1>1. A \in Seq(Seq(S)) /\ Len(A) = Len(texts) /\ Join(texts, sep) = FlattenSeq(A)
  BY PiecesType
<1>2. Append(texts, y) \in Seq(Seq(S)) /\ Len(Append(texts, y)) = Len(texts) + 1
  OBVIOUS
<1>3. B \in Seq(Seq(S)) /\ Len(B) = Len(texts) + 1 /\ Join(Append(texts, y), sep) = FlattenSeq(B)
  BY <1>2, PiecesType, Zenon
<1>4. last \in Seq(S)
  BY CatType
<1>5. B = Append(A, last)
  <2>1. /\ \A i \in 1..Len(texts) : Append(texts, y)[i] = texts[i]
        /\ Append(texts, y)[Len(texts) + 1] = y /\ Len(texts) \in Nat
    OBVIOUS
  <2>2. \A i \in 1..Len(texts) : B[i] = A[i]
    BY <1>2, <2>1 DEF Pieces
  <2>3. B[Len(texts) + 1] = last
    <3>1. Len(texts) + 1 = 1 <=> texts = <<>>
      OBVIOUS
    <3>2. B[Len(texts) + 1] = IF Len(texts) + 1 = 1 THEN y ELSE Cat(sep, y)
      BY <1>2, <2>1 DEF Pieces, Cat
    <3> QED BY <3>1, <3>2
  <2> HIDE DEF A, B, last
  <2>4. /\ Append(A, last) \in Seq(Seq(S)) /\ Len(Append(A, last)) = Len(texts) + 1
        /\ \A i \in 1..Len(texts) : Append(A, last)[i] = A[i]
        /\ Append(A, last)[Len(texts) + 1] = last
    BY <1>1, <1>4
  <2>5. \A i \in 1..Len(B) : B[i] = Append(A, last)[i]
    BY <1>3, <2>1, <2>2, <2>3, <2>4
  <2> QED BY <1>3, <2>4, <2>5, SeqEqual
<1> HIDE DEF A, B, last
<1>6. Join(Append(texts, y), sep) = Cat(FlattenSeq(A), last)
  BY <1>1, <1>3, <1>4, <1>5, FlattenAppend DEF Cat
<1>7. Join(<<>>, sep) = <<>>
  <2>1. <<>> \in Seq(Seq(S)) /\ Pieces(<<>>, sep) = <<>>
    BY DEF Pieces
  <2> QED BY <2>1, PiecesType, FlattenAppend, Zenon
<1>8. CASE texts = <<>>
  <2>1. FlattenSeq(A) = <<>>
    BY <1>1, <1>7, <1>8
  <2>2. Cat(<<>>, y) = y
    BY CatEmpty
  <2> QED BY <1>6, <1>7, <1>8, <2>1, <2>2 DEF last
<1>9. CASE texts # <<>>
  BY <1>1, <1>6, <1>7, <1>9 DEF last
<1> QED BY <1>8, <1>9

\* The first text, and the others joined after it.
LEMMA JoinCons ==
    ASSUME NEW S, NEW texts \in Seq(Seq(S)), NEW sep \in Seq(S), NEW x \in Seq(S)
    PROVE  Join(Cat(<<x>>, texts), sep) =
             Cat(x, IF texts = <<>> THEN <<>> ELSE Cat(sep, Join(texts, sep)))
<1> DEFINE F(u) == IF u = <<>> THEN <<>> ELSE Cat(sep, Join(u, sep))
           P == {u \in Seq(Seq(S)) : Join(Cat(<<x>>, u), sep) = Cat(x, F(u))}
<1>0. \A u \in Seq(Seq(S)) : Join(u, sep) \in Seq(S)
  BY PiecesType
<1>1. <<>> \in P
  <2>1. Cat(<<x>>, <<>>) = Append(<<>>, x) /\ <<>> \in Seq(Seq(S))
    BY DEF Cat
  <2>2. Cat(x, <<>>) = x
    BY CatEmpty
  <2>3. Join(Append(<<>>, x), sep) = x
    BY <2>1, JoinAppend, ZenonT(30)
  <2> QED BY <2>1, <2>2, <2>3
<1>2. ASSUME NEW u \in Seq(Seq(S)), NEW y \in Seq(S), u \in P PROVE Append(u, y) \in P
  <2> DEFINE v == Cat(<<x>>, u)
             z == Cat(sep, y)
  <2>1. Append(u, y) # <<>> /\ Append(u, y) \in Seq(Seq(S))
    BY AppendProperties, ZenonT(30)
  <2>2. Cat(<<x>>, Append(u, y)) = Append(v, y) /\ v \in Seq(Seq(S)) /\ v # <<>>
    <3>1. PICK w \in Seq(Seq(S)) : w = <<x>>
      <4>1. <<x>> \in Seq(Seq(S))
        OBVIOUS
      <4> QED BY <4>1, Zenon
    <3>2. w \o Append(u, y) = Append(w \o u, y)
      BY SMTT(20)
    <3>3. w \o u \in Seq(Seq(S)) /\ w \o u # <<>>
      BY <3>1
    <3> QED BY <3>1, <3>2, <3>3 DEF Cat
  <2>3. Join(v, sep) = Cat(x, F(u))
    BY <1>2
  <2>4. z \in Seq(S) /\ F(u) \in Seq(S)
    <3>1. <<>> \in Seq(S)
      OBVIOUS
    <3> QED BY <1>0, <3>1, CatType
  <2> HIDE DEF v
  <2>5. Join(Append(v, y), sep) = Cat(Join(v, sep), z)
    BY <2>2, JoinAppend
  <2>6. F(Append(u, y)) = Cat(F(u), z)
    <3>1. Join(Append(u, y), sep) = IF u = <<>> THEN y ELSE Cat(Join(u, sep), z)
      BY JoinAppend
    <3>2. CASE u = <<>>
      <4>1. F(Append(u, y)) = z /\ F(u) = <<>>
        BY <2>1, <3>1, <3>2
      <4>2. Cat(<<>>, z) = z
        BY <2>4, CatEmpty
      <4> HIDE DEF F
      <4> QED BY <4>1, <4>2
    <3>3. CASE u # <<>>
      <4>1. F(Append(u, y)) = Cat(sep, Cat(Join(u, sep), z)) /\ F(u) = Cat(sep, Join(u, sep))
        BY <2>1, <3>1, <3>3
      <4>2. Cat(sep, Cat(Join(u, sep), z)) = Cat(Cat(sep, Join(u, sep)), z)
        BY <1>0, <2>4, CatAssociative
      <4> HIDE DEF F
      <4> QED BY <4>1, <4>2
    <3> QED BY <3>2, <3>3
  <2> HIDE DEF F
  <2>7. Cat(Cat(x, F(u)), z) = Cat(x, Cat(F(u), z))
    BY <2>4, CatAssociative
  <2>8. Join(Cat(<<x>>, Append(u, y)), sep) = Cat(x, F(Append(u, y)))
    BY <2>2, <2>3, <2>5, <2>6, <2>7, Zenon
  <2> QED BY <2>1, <2>8
<1> HIDE DEF P
<1>3. texts \in P
  BY <1>1, <1>2, SeqInduction
<1> QED BY <1>3 DEF P

\* After n passes the one state is x.
Only(f, n, x) == f[n] = {x}

\* A loop whose passes lead from one state to the next ends in the last one.
LEMMA ChainEnds ==
    ASSUME NEW N \in Nat, NEW K \in 0..N, NEW f, NEW st, Only(f, 0, st[0]),
           \A n \in 1..N : \A k \in 0..K : k < K /\ Only(f, n - 1, st[k]) => Only(f, n, st[k + 1]),
           \A n \in 1..N : Only(f, n - 1, st[K]) => Only(f, n, st[K])
    PROVE  Only(f, N, st[K])
<1> DEFINE at(n) == IF n < K THEN n ELSE K
           G == {n \in Nat : n <= N => Only(f, n, st[at(n)])}
<1>1. 0 \in G
  OBVIOUS
<1>2. ASSUME NEW n \in Nat, n \in G PROVE n + 1 \in G
  <2> SUFFICES ASSUME n + 1 <= N PROVE Only(f, n + 1, st[at(n + 1)])
    OBVIOUS
  <2>1. Only(f, n, st[at(n)]) /\ n + 1 \in 1..N /\ (n + 1) - 1 = n /\ at(n) \in 0..K
    BY <1>2
  <2>2. at(n + 1) = IF at(n) < K THEN at(n) + 1 ELSE K
    OBVIOUS
  <2>3. at(n) < K \/ at(n) = K
    OBVIOUS
  <2> HIDE DEF at
  <2> QED BY <2>1, <2>2, <2>3
<1>3. \A n \in Nat : n \in G
  <2> HIDE DEF G
  <2> QED BY <1>1, <1>2, Induction
<1>4. Only(f, N, st[at(N)]) /\ at(N) = K
  BY <1>3
<1> QED BY <1>4

\* One pass of parseMatchers over a set of states.
MatcherPass(states) == UNION {IF p.rest = <<>> THEN {p} ELSE scanMatcher(p) : p \in states}
FilterPass(states) == UNION {IF p.rest = <<>> THEN {p} ELSE scanFilter(p) : p \in states}

\* The states after each pass, up to the n-th.
MatcherPasses(body, n, f) ==
    f = [k \in 0..n |-> IF k = 0 THEN {[out |-> <<>>, rest |-> TrimSpace(body)]}
                        ELSE MatcherPass(f[k - 1])]
FilterPasses(text, n, f) ==
    f = [k \in 0..n |-> IF k = 0 THEN {[out |-> <<>>, rest |-> text]} ELSE FilterPass(f[k - 1])]

\* parseMatchers satisfies its recursive definition.
LEMMA ParseMatchersPasses ==
    ASSUME NEW body, Len(body) \in Nat
    PROVE  \E f : /\ f[0] = {[out |-> <<>>, rest |-> TrimSpace(body)]}
                  /\ \A k \in 1..Len(body) : f[k] = MatcherPass(f[k - 1])
                  /\ parseMatchers(body) = {p.out : p \in {x \in f[Len(body)] : x.rest = <<>>}}
<1> DEFINE S == {n \in Nat : \E f : MatcherPasses(body, n, f)}
           start == {[out |-> <<>>, rest |-> TrimSpace(body)]}
<1>1. 0 \in S
  <2>1. MatcherPasses(body, 0, [k \in 0..0 |-> start])
    BY DEF MatcherPasses
  <2> QED BY <2>1
<1>2. ASSUME NEW n \in Nat, n \in S PROVE n + 1 \in S
  <2>1. PICK f : MatcherPasses(body, n, f)
    BY <1>2
  <2> DEFINE g == [k \in 0..(n + 1) |-> IF k = n + 1 THEN MatcherPass(f[n]) ELSE f[k]]
  <2> HIDE DEF start
  <2>2. \A k \in 0..n : f[k] = IF k = 0 THEN start ELSE MatcherPass(f[k - 1])
    BY <2>1, Zenon DEF MatcherPasses, start
  <2>3. \A k \in 0..(n + 1) : g[k] = IF k = 0 THEN start ELSE MatcherPass(g[k - 1])
    BY <2>2
  <2>4. MatcherPasses(body, n + 1, g)
    BY <2>3, Zenon DEF MatcherPasses, start
  <2> QED BY <2>4
<1>3. \E f : MatcherPasses(body, Len(body), f)
  <2> HIDE DEF S
  <2>1. Len(body) \in S
    BY <1>1, <1>2, Induction
  <2> QED BY <2>1 DEF S
<1> DEFINE f == CHOOSE f : MatcherPasses(body, Len(body), f)
<1>4. parseMatchers(body) = {p.out : p \in {x \in f[Len(body)] : x.rest = <<>>}}
  BY Zenon DEF parseMatchers, MatcherPasses, MatcherPass
<1>5. MatcherPasses(body, Len(body), f)
  BY <1>3
<1> HIDE DEF f, start
<1>6. f[0] = start /\ \A k \in 1..Len(body) : f[k] = MatcherPass(f[k - 1])
  <2>1. \A k \in 0..Len(body) : f[k] = IF k = 0 THEN start ELSE MatcherPass(f[k - 1])
    BY <1>5, Zenon DEF MatcherPasses, start
  <2> QED BY <2>1
<1> QED BY <1>4, <1>6 DEF start

\* And so does parseFilters.
LEMMA ParseFiltersPasses ==
    ASSUME NEW text, Len(text) \in Nat
    PROVE  \E f : /\ f[0] = {[out |-> <<>>, rest |-> text]}
                  /\ \A k \in 1..Len(text) : f[k] = FilterPass(f[k - 1])
                  /\ parseFilters(text) = {p.out : p \in {x \in f[Len(text)] : x.rest = <<>>}}
<1> DEFINE S == {n \in Nat : \E f : FilterPasses(text, n, f)}
           start == {[out |-> <<>>, rest |-> text]}
<1>1. 0 \in S
  <2>1. FilterPasses(text, 0, [k \in 0..0 |-> start])
    BY DEF FilterPasses
  <2> QED BY <2>1
<1>2. ASSUME NEW n \in Nat, n \in S PROVE n + 1 \in S
  <2>1. PICK f : FilterPasses(text, n, f)
    BY <1>2
  <2> DEFINE g == [k \in 0..(n + 1) |-> IF k = n + 1 THEN FilterPass(f[n]) ELSE f[k]]
  <2> HIDE DEF start
  <2>2. \A k \in 0..n : f[k] = IF k = 0 THEN start ELSE FilterPass(f[k - 1])
    BY <2>1 DEF FilterPasses, start
  <2>3. \A k \in 0..(n + 1) : g[k] = IF k = 0 THEN start ELSE FilterPass(g[k - 1])
    BY <2>2
  <2>4. FilterPasses(text, n + 1, g)
    BY <2>3, Zenon DEF FilterPasses, start
  <2> QED BY <2>4
<1>3. \E f : FilterPasses(text, Len(text), f)
  <2> HIDE DEF S
  <2>1. Len(text) \in S
    BY <1>1, <1>2, Induction
  <2> QED BY <2>1 DEF S
<1> DEFINE f == CHOOSE f : FilterPasses(text, Len(text), f)
<1>4. parseFilters(text) = {p.out : p \in {x \in f[Len(text)] : x.rest = <<>>}}
  BY Zenon DEF parseFilters, FilterPasses, FilterPass
<1>5. FilterPasses(text, Len(text), f)
  BY <1>3
<1> HIDE DEF f, start
<1>6. f[0] = start /\ \A k \in 1..Len(text) : f[k] = FilterPass(f[k - 1])
  <2>1. \A k \in 0..Len(text) : f[k] = IF k = 0 THEN start ELSE FilterPass(f[k - 1])
    BY <1>5, Zenon DEF FilterPasses, start
  <2> QED BY <2>1
<1> QED BY <1>4, <1>6 DEF start

\* A state with a text left becomes what the scanner makes of it; one without
\* stays.
LEMMA PassOne ==
    ASSUME NEW p
    PROVE  /\ MatcherPass({p}) = IF p.rest = <<>> THEN {p} ELSE scanMatcher(p)
           /\ FilterPass({p}) = IF p.rest = <<>> THEN {p} ELSE scanFilter(p)
BY Zenon DEF MatcherPass, FilterPass

\* The texts of the matchers after the first k, joined as in String.
PartsFrom(ms, k) == [i \in 1..(Len(ms) - k) |-> Part(ms[k + i])]
MatchersFrom(ms, k) == Join(PartsFrom(ms, k), Separator)

\* Each matcher's text stands before the others'.
LEMMA MatchersUnfold ==
    ASSUME NEW ms \in Seq(Matchers), NEW k \in 0..Len(ms)
    PROVE  /\ MatchersFrom(ms, Len(ms)) = <<>>
           /\ k < Len(ms) => MatchersFrom(ms, k) = Part(ms[k + 1]) \o Following(MatchersFrom(ms, k + 1))
           /\ MatchersFrom(ms, k) \in IF k < Len(ms) THEN Solid ELSE {<<>>}
<1> DEFINE K == Len(ms)
           Whole(j) == MatchersFrom(ms, j) \in IF j < K THEN Solid ELSE {<<>>}
           Unfolds(j) == MatchersFrom(ms, j) = Part(ms[j + 1]) \o Following(MatchersFrom(ms, j + 1))
<1>1. K \in Nat /\ \A i \in 1..K : ms[i] \in Matchers
  OBVIOUS
<1>2. Separator \in Seq(Chars)
  BY SyntaxChars DEF Separator
<1>3. \A m \in Matchers : Part(m) \in Seq(Chars)
  <2>1. <<>> \in Solid \cup {<<>>}
    OBVIOUS
  <2> QED BY <2>1, ScanPart, Zenon
<1>4. ASSUME NEW j \in 0..K
      PROVE  PartsFrom(ms, j) \in Seq(Seq(Chars)) /\ Len(PartsFrom(ms, j)) = K - j
  <2>1. PartsFrom(ms, j) \in [1..(K - j) -> Seq(Chars)] /\ K - j \in Nat
    BY <1>1, <1>3 DEF PartsFrom
  <2> QED BY <2>1, FunIsSeq, Zenon
<1>5. MatchersFrom(ms, K) = <<>>
  <2>1. PartsFrom(ms, K) = <<>>
    BY <1>1, <1>4
  <2>2. <<>> \in Seq(Chars) /\ <<>> \in Seq(Seq(Chars))
    OBVIOUS
  <2> QED BY <1>2, <2>1, <2>2, JoinAppend, Zenon DEF MatchersFrom
<1>6. ASSUME NEW j \in 0..K, j < K, Whole(j + 1) PROVE Unfolds(j) /\ Whole(j)
  <2> DEFINE x == Part(ms[j + 1])
             xs == PartsFrom(ms, j + 1)
             rest == MatchersFrom(ms, j + 1)
  <2>1. j + 1 \in 0..K /\ j + 1 \in 1..K /\ ms[j + 1] \in Matchers
    BY <1>1, <1>6
  <2>2. x \in Seq(Chars) /\ xs \in Seq(Seq(Chars)) /\ Len(xs) = K - (j + 1)
    BY <1>3, <1>4, <2>1
  <2>3. PartsFrom(ms, j) = Cat(<<x>>, xs)
    <3>1. PartsFrom(ms, j) \in Seq(Seq(Chars)) /\ Len(PartsFrom(ms, j)) = K - j
      BY <1>4
    <3>2. \A i \in 1..(K - j) : PartsFrom(ms, j)[i] = Part(ms[j + i])
      BY DEF PartsFrom
    <3>3. \A i \in 1..(K - (j + 1)) : xs[i] = Part(ms[(j + 1) + i])
      BY DEF PartsFrom
    <3> HIDE DEF x, xs
    <3>4. PICK w \in Seq(Seq(Chars)) : w = <<x>>
      <4>1. <<x>> \in Seq(Seq(Chars))
        BY <2>2
      <4> QED BY <4>1, Zenon
    <3>5. w \o xs \in Seq(Seq(Chars)) /\ Len(w \o xs) = 1 + Len(xs) /\ (w \o xs)[1] = x
          /\ \A i \in 1..Len(xs) : (w \o xs)[1 + i] = xs[i]
      BY <2>2, <3>4
    <3>6. ASSUME NEW i \in 1..(K - j) PROVE PartsFrom(ms, j)[i] = (w \o xs)[i]
      <4>1. CASE i = 1
        BY <3>2, <3>5, <4>1 DEF x
      <4>2. CASE i # 1
        <5>1. PICK n \in 1..(K - (j + 1)) : i = 1 + n
          <6>1. i - 1 \in 1..(K - (j + 1)) /\ i = 1 + (i - 1)
            BY <1>1, <4>2
          <6> QED BY <6>1
        <5>2. j + i = (j + 1) + n
          BY <1>1, <5>1
        <5> QED BY <2>2, <3>2, <3>3, <3>5, <5>1, <5>2, Zenon
      <4> QED BY <4>1, <4>2, Zenon
    <3>7. PartsFrom(ms, j) = w \o xs
      <4> DEFINE L == PartsFrom(ms, j)
                 R == w \o xs
      <4>1. L \in Seq(Seq(Chars)) /\ R \in Seq(Seq(Chars)) /\ Len(L) = Len(R)
            /\ \A i \in 1..Len(L) : L[i] = R[i]
        BY <1>1, <2>2, <3>1, <3>5, <3>6, SMTT(20)
      <4> HIDE DEF L, R
      <4>2. L = R
        BY <4>1, SeqEqual
      <4> QED BY <4>2 DEF L, R
    <3> QED BY <3>4, <3>7 DEF Cat
  <2>4. Join(Cat(<<x>>, xs), Separator) = Cat(x, IF xs = <<>> THEN <<>> ELSE Cat(Separator, rest))
    <3> HIDE DEF x, xs
    <3>1. rest = Join(xs, Separator)
      BY DEF MatchersFrom, xs
    <3> QED BY <1>2, <2>2, <3>1, JoinCons
  <2>5. (xs = <<>> <=> rest = <<>>) /\ rest \in Solid \cup {<<>>}
    <3>1. xs = <<>> <=> ~(j + 1 < K)
      <4> HIDE DEF xs
      <4> QED BY <1>1, <2>1, <2>2
    <3>2. <<>> \notin Solid
      BY DEF Solid
    <3> QED BY <1>6, <3>1, <3>2
  <2>6. Cat(x, IF xs = <<>> THEN <<>> ELSE Cat(Separator, rest)) = x \o Following(rest)
    BY <2>5, Zenon DEF Following, Cat
  <2>7. Unfolds(j)
    BY <2>3, <2>4, <2>6, Zenon DEF MatchersFrom
  <2>8. x \o Following(rest) \in Solid
    BY <2>1, <2>5, ScanPart, Zenon
  <2> QED BY <1>6, <2>7, <2>8
<1>7. Whole(K)
  BY <1>1, <1>5
<1> HIDE DEF Whole
<1> DEFINE G == {n \in Nat : n <= K => Whole(K - n)}
<1>8. 0 \in G
  BY <1>1, <1>7
<1>9. ASSUME NEW n \in Nat, n \in G PROVE n + 1 \in G
  <2> SUFFICES ASSUME n + 1 <= K PROVE Whole(K - (n + 1))
    OBVIOUS
  <2> DEFINE j == K - (n + 1)
  <2>1. j \in 0..K /\ j < K /\ j + 1 = K - n /\ n <= K
    BY <1>1
  <2>2. Whole(j + 1)
    BY <1>9, <2>1
  <2> HIDE DEF j
  <2>3. Whole(j)
    BY <1>6, <2>1, <2>2
  <2> QED BY <2>3 DEF j
<1>10. \A n \in Nat : n \in G
  <2> HIDE DEF G
  <2> QED BY <1>8, <1>9, Induction
<1>11. ASSUME NEW j \in 0..K PROVE Whole(j)
  <2>1. K - j \in Nat /\ K - j <= K /\ K - (K - j) = j
    BY <1>1
  <2> QED BY <1>10, <2>1
<1>12. ASSUME k < K PROVE Unfolds(k)
  <2>1. k + 1 \in 0..K
    BY <1>1, <1>12
  <2> QED BY <1>6, <1>11, <1>12, <2>1
<1> QED BY <1>5, <1>11, <1>12 DEF Whole

\* There is a character at least for every matcher.
LEMMA MatchersLength ==
    ASSUME NEW ms \in Seq(Matchers)
    PROVE  MatchersFrom(ms, 0) \in Seq(Chars) /\ Len(MatchersFrom(ms, 0)) >= Len(ms)
<1> DEFINE texts == PartsFrom(ms, 0)
           C == Seq(Chars) \ {<<>>}
<1>1. Len(ms) \in Nat /\ \A i \in 1..Len(ms) : ms[i] \in Matchers
  OBVIOUS
<1>2. \A m \in Matchers : Part(m) \in C
  <2> SUFFICES ASSUME NEW m \in Matchers PROVE Part(m) \in C
    OBVIOUS
  <2>1. <<>> \in Solid \cup {<<>>} /\ Following(<<>>) = <<>>
    BY DEF Following
  <2>2. Part(m) \in Seq(Chars) /\ Part(m) \o <<>> \in Solid
    BY <2>1, ScanPart, Zenon
  <2>3. Part(m) \o <<>> = Part(m)
    BY <2>2, ConcatEmptySeq
  <2> QED BY <2>2, <2>3 DEF Solid
<1>3. texts \in [1..Len(ms) -> C]
  BY <1>1, <1>2 DEF PartsFrom
<1>4. Separator \in Seq(Chars)
  BY SyntaxChars DEF Separator
<1>5. texts \in Seq(C) /\ Len(texts) = Len(ms)
  BY <1>1, <1>3, FunIsSeq
<1>6. texts \in Seq(Seq(Chars))
  BY <1>5, SeqMonotonic
<1> DEFINE pieces == Pieces(texts, Separator)
<1>7. /\ Len(pieces) = Len(ms) /\ MatchersFrom(ms, 0) = FlattenSeq(pieces)
      /\ MatchersFrom(ms, 0) \in Seq(Chars)
  BY <1>4, <1>5, <1>6, PiecesType DEF MatchersFrom
<1>8. pieces \in [1..Len(ms) -> C]
  <2>1. \A x \in C : Separator \o x \in C
    <3> SUFFICES ASSUME NEW x \in C PROVE Separator \o x \in C
      OBVIOUS
    <3>1. Separator \o x \in Seq(Chars) /\ Len(Separator \o x) = Len(Separator) + Len(x)
      BY <1>4
    <3>2. Len(x) >= 1 /\ Len(Separator) \in Nat
      BY <1>4
    <3> QED BY <3>1, <3>2
  <2>2. DOMAIN texts = 1..Len(ms)
    BY <1>3
  <2> HIDE DEF texts, C
  <2> QED BY <1>3, <2>1, <2>2 DEF Pieces
<1> HIDE DEF pieces, texts
<1>9. pieces \in Seq(C)
  BY <1>1, <1>8, FunIsSeq
<1> QED BY <1>7, <1>9, FlattenLength, Zenon

\* The matchers of a built query are read back as they were.
LEMMA ParseMatchersOfText ==
    ASSUME NEW ms \in Seq(Matchers)
    PROVE  parseMatchers(MatchersFrom(ms, 0)) = {ms}
<1> DEFINE body == MatchersFrom(ms, 0)
           K == Len(ms)
           N == Len(body)
           st == [k \in 0..K |-> [out |-> SubSeq(ms, 1, k), rest |-> MatchersFrom(ms, k)]]
<1>1. K \in Nat /\ N \in Nat /\ K \in 0..N /\ \A i \in 1..K : ms[i] \in Matchers
  BY MatchersLength
<1>2. PICK f : /\ f[0] = {[out |-> <<>>, rest |-> TrimSpace(body)]}
               /\ \A k \in 1..N : f[k] = MatcherPass(f[k - 1])
               /\ parseMatchers(body) = {p.out : p \in {x \in f[N] : x.rest = <<>>}}
  <2> HIDE DEF body
  <2> QED BY <1>1, ParseMatchersPasses
<1>3. f[0] = {st[0]}
  <2>1. body \in Solid \cup {<<>>}
    BY <1>1, MatchersUnfold
  <2>2. TrimSpace(body) = body
    BY <2>1, TrimWhole
  <2>3. SubSeq(ms, 1, 0) = <<>>
    OBVIOUS
  <2>4. st[0] = [out |-> <<>>, rest |-> body]
    BY <1>1, <2>3
  <2> HIDE DEF st, body
  <2> QED BY <1>2, <2>2, <2>4
<1>4. ASSUME NEW k \in 0..K, k < K PROVE MatcherPass({st[k]}) = {st[k + 1]}
  <2> DEFINE rest == MatchersFrom(ms, k + 1)
             m == ms[k + 1]
             out == SubSeq(ms, 1, k)
  <2>1. k + 1 \in 0..K /\ k + 1 \in 1..K /\ m \in Matchers
    BY <1>1, <1>4
  <2>2. rest \in Solid \cup {<<>>}
    BY <2>1, MatchersUnfold
  <2>3. st[k] = [out |-> out, rest |-> Part(m) \o Following(rest)]
    BY <1>4, MatchersUnfold, Zenon
  <2>4. scanMatcher(st[k]) = {[out |-> Append(out, m), rest |-> rest]}
    <3> HIDE DEF st, rest, m, out
    <3>1. scanMatcher([out |-> out, rest |-> Part(m) \o Following(rest)])
            = {[out |-> Append(out, m), rest |-> rest]}
      BY <2>1, <2>2, ScanPart, Zenon
    <3> QED BY <2>3, <3>1, Zenon
  <2>5. st[k].rest # <<>>
    <3>1. Part(m) \o Following(rest) \in Solid /\ <<>> \notin Solid
      BY <2>1, <2>2, ScanPart, Zenon DEF Solid
    <3> QED BY <2>3, <3>1, Zenon
  <2>6. Append(out, m) = SubSeq(ms, 1, k + 1)
    <3>1. SubSeq(ms, 1, k + 1) = SubSeq(ms, 1, (k + 1) - 1) \o <<ms[k + 1]>>
      <4>1. 1 \in 1..K /\ k + 1 \in 1..K
        BY <1>1, <2>1
      <4> QED BY <4>1, SubSeqRecursiveSecond
    <3>2. (k + 1) - 1 = k /\ out \in Seq(Matchers)
      BY <1>1, <1>4
    <3> HIDE DEF out, m
    <3>3. Append(out, m) = out \o <<m>>
      BY <2>1, <3>2, AppendIsConcat
    <3> QED BY <3>1, <3>2, <3>3 DEF out, m
  <2>7. st[k + 1] = [out |-> SubSeq(ms, 1, k + 1), rest |-> rest]
    BY <2>1
  <2> HIDE DEF st
  <2> QED BY <2>4, <2>5, <2>6, <2>7, PassOne, Zenon
<1>5. MatcherPass({st[K]}) = {st[K]} /\ st[K].rest = <<>> /\ st[K].out = ms
  <2>1. st[K] = [out |-> SubSeq(ms, 1, K), rest |-> <<>>]
    BY <1>1, MatchersUnfold
  <2>2. SubSeq(ms, 1, K) = ms
    BY SubSeqFull
  <2> HIDE DEF st
  <2> QED BY <2>1, <2>2, PassOne
<1> HIDE DEF st
<1>6. ASSUME NEW n \in 1..N, NEW k \in 0..K, k < K, Only(f, n - 1, st[k])
      PROVE  Only(f, n, st[k + 1])
  BY <1>2, <1>4, <1>6 DEF Only
<1>7. ASSUME NEW n \in 1..N, Only(f, n - 1, st[K]) PROVE Only(f, n, st[K])
  BY <1>2, <1>5, <1>7, Zenon DEF Only
<1>8. Only(f, 0, st[0])
  BY <1>3 DEF Only
<1>9. Only(f, N, st[K])
  <2> HIDE DEF N, K
  <2> QED BY <1>1, <1>6, <1>7, <1>8, ChainEnds, Zenon
<1> QED BY <1>2, <1>5, <1>9 DEF Only

\* The text of a filter without the blank before it, and what follows.
FilterText(f, rest) == f.op \o (<<Blank>> \o (Quote(f.value) \o rest))

\* One pass of parseFilters over the text of a filter and what follows it.
LEMMA ScanClause ==
    ASSUME NEW f \in Filters, NEW rest \in Ended, NEW out
    PROVE  /\ Clause(f) \in Seq(Chars) /\ FilterText(f, rest) \in Solid
           /\ Clause(f) \o rest = <<Blank>> \o FilterText(f, rest)
           /\ scanFilter([out |-> out, rest |-> FilterText(f, rest)])
                = {[out |-> Append(out, f), rest |-> TrimSpace(rest)]}
<1>1. /\ f.op \in {LineContains, NotEqual} /\ f.value \in Seq(Chars)
      /\ f = [op |-> f.op, value |-> f.value]
  BY DEF Filters
<1>2. rest \in Seq(Chars) /\ <<Blank>> \in Seq(Chars) /\ <<>> \in Seq(Chars)
  BY SyntaxChars DEF Ended
<1> DEFINE quoted == Quote(f.value)
           str == quoted \o rest
           spaced == <<Blank>> \o str
           text == f.op \o spaced
<1>3. /\ quoted \in Seq(Chars) /\ quoted # <<>> /\ quoted[1] = QuoteMark
      /\ scanString(str) = {[value |-> f.value, rest |-> rest]}
  BY <1>1, <1>2, ScanQuoted
<1>4. str \in Solid
  BY <1>1, QuoteThenSolid
<1> HIDE DEF quoted
<1>5. str \in Seq(Chars) /\ str # <<>>
  BY <1>4 DEF Solid
<1>6. TrimSpace(spaced) = str
  BY <1>4, TrimCases, Zenon
<1>7. f.op \in Seq(Chars) /\ f.op # <<>> /\ f.op[1] # Blank
  BY <1>1, OpStart
<1>8. Clause(f) \in Seq(Chars) /\ Clause(f) \o rest = <<Blank>> \o text
  <2>1. PICK b, o, q, r \in Seq(Chars) : b = <<Blank>> /\ o = f.op /\ q = quoted /\ r = rest
    BY <1>2, <1>3, <1>7, Zenon
  <2>2. Clause(f) = ((b \o o) \o b) \o q
    BY <2>1 DEF Clause, quoted
  <2>3. /\ b \o o \in Seq(Chars) /\ (b \o o) \o b \in Seq(Chars) /\ ((b \o o) \o b) \o q \in Seq(Chars)
    OBVIOUS
  <2>4. (((b \o o) \o b) \o q) \o r = b \o (o \o (b \o (q \o r)))
    <3>1. PICK t \in Seq(Chars) : t = q \o r
      BY ConcatProperties, Zenon
    <3>2. PICK s \in Seq(Chars) : s = (b \o o) \o b
      BY <2>3, Zenon
    <3>3. (s \o q) \o r = s \o (q \o r)
      OBVIOUS
    <3>4. ((b \o o) \o b) \o t = b \o (o \o (b \o t))
      BY SMTT(20)
    <3> QED BY <3>1, <3>2, <3>3, <3>4
  <2> QED BY <2>1, <2>2, <2>3, <2>4, Zenon
<1> HIDE DEF str
<1>9. spaced \in Seq(Chars) /\ spaced # <<>> /\ spaced[1] = Blank
  BY <1>2, <1>5
<1>10. scanOp(FilterOps, text) = {[value |-> f.op, rest |-> spaced]}
  BY <1>1, <1>9, ScanOp, Zenon
<1>11. text \in Solid
  <2>1. f.op \o <<Blank>> \in Seq(Chars) /\ f.op \o <<Blank>> # <<>> /\ (f.op \o <<Blank>>)[1] # Blank
    BY <1>2, <1>7
  <2>2. (f.op \o <<Blank>>) \o str \in Solid
    BY <1>4, <2>1, SolidConcat, Zenon
  <2>3. PICK o, b, s \in Seq(Chars) : o = f.op /\ b = <<Blank>> /\ s = str
    BY <1>2, <1>5, <1>7, Zenon
  <2>4. (o \o b) \o s = o \o (b \o s)
    BY ConcatAssociative
  <2> QED BY <2>2, <2>3, <2>4, Zenon
<1>12. FilterText(f, rest) = text
  BY DEF FilterText, quoted, str
<1> HIDE DEF spaced, text
<1>13. Compiles(f.op, f.value)
  <2>1. f.op \notin {Regexp, NotRegexp, LineMatches}
    BY <1>1 DEF LineContains, NotEqual, Regexp, NotRegexp, LineMatches
  <2> QED BY <2>1, Zenon DEF Compiles
<1>14. ASSUME NEW x
       PROVE  x \in scanFilter([out |-> out, rest |-> text])
                <=> x = [out |-> Append(out, f), rest |-> TrimSpace(rest)]
  <2> DEFINE p == [out |-> out, rest |-> text]
             op0 == [value |-> f.op, rest |-> spaced]
             str0 == [value |-> f.value, rest |-> rest]
             new(op, s) == [out |-> Append(p.out, [op |-> op.value, value |-> s.value]),
                            rest |-> TrimSpace(s.rest)]
  <2>0. p.rest = text /\ p.out = out
    OBVIOUS
  <2> HIDE DEF p
  <2>1. x \in scanFilter(p) <=>
             \E op \in scanOp(FilterOps, p.rest) :
               \E s \in scanString(TrimSpace(op.rest)) :
                 Compiles(op.value, s.value) /\ x = new(op, s)
    BY ScanFilterIff
  <2>2. /\ scanOp(FilterOps, p.rest) = {op0}
        /\ scanString(TrimSpace(op0.rest)) = {str0}
        /\ Compiles(op0.value, str0.value)
    BY <1>3, <1>6, <1>10, <1>13, <2>0
  <2>3. new(op0, str0) = [out |-> Append(out, f), rest |-> TrimSpace(rest)]
    BY <1>1, <2>0
  <2> HIDE DEF op0, str0, new
  <2>4. x \in scanFilter(p) => x = new(op0, str0)
    BY <2>1, <2>2
  <2>5. x = new(op0, str0) => x \in scanFilter(p)
    BY <2>1, <2>2
  <2> QED BY <2>3, <2>4, <2>5 DEF p
<1> QED BY <1>8, <1>11, <1>12, <1>14

\* The texts of the filters after the first k, one after the other as in String.
ClausesFrom(fs, k) == [i \in 1..(Len(fs) - k) |-> Clause(fs[k + i])]
FiltersFrom(fs, k) == FlattenSeq(ClausesFrom(fs, k))

\* Each filter's text stands before the others'.
LEMMA FiltersUnfold ==
    ASSUME NEW fs \in Seq(Filters), NEW k \in 0..Len(fs)
    PROVE  /\ FiltersFrom(fs, Len(fs)) = <<>>
           /\ k < Len(fs) =>
                FiltersFrom(fs, k) = <<Blank>> \o FilterText(fs[k + 1], FiltersFrom(fs, k + 1))
           /\ FiltersFrom(fs, k) \in Ended
<1> DEFINE K == Len(fs)
           Whole(j) == FiltersFrom(fs, j) \in Ended
           Unfolds(j) == FiltersFrom(fs, j) = <<Blank>> \o FilterText(fs[j + 1], FiltersFrom(fs, j + 1))
<1>1. K \in Nat /\ \A i \in 1..K : fs[i] \in Filters
  OBVIOUS
<1>2. \A f \in Filters : Clause(f) \in Seq(Chars)
  <2>1. <<>> \in Ended
    BY SolidIsEnded
  <2> QED BY <2>1, ScanClause, Zenon
<1>3. ASSUME NEW j \in 0..K
      PROVE  ClausesFrom(fs, j) \in Seq(Seq(Chars)) /\ Len(ClausesFrom(fs, j)) = K - j
  <2>1. ClausesFrom(fs, j) \in [1..(K - j) -> Seq(Chars)] /\ K - j \in Nat
    BY <1>1, <1>2 DEF ClausesFrom
  <2> QED BY <2>1, FunIsSeq, Zenon
<1>4. FiltersFrom(fs, K) = <<>>
  <2>1. ClausesFrom(fs, K) = <<>>
    BY <1>1, <1>3
  <2> QED BY <2>1 DEF FiltersFrom, FlattenSeq
<1>5. ASSUME NEW j \in 0..K, j < K, Whole(j + 1) PROVE Unfolds(j) /\ Whole(j)
  <2> DEFINE x == Clause(fs[j + 1])
             xs == ClausesFrom(fs, j + 1)
             rest == FiltersFrom(fs, j + 1)
  <2>1. j + 1 \in 0..K /\ j + 1 \in 1..K /\ fs[j + 1] \in Filters
    BY <1>1, <1>5
  <2>2. x \in Seq(Chars) /\ xs \in Seq(Seq(Chars)) /\ Len(xs) = K - (j + 1)
    BY <1>2, <1>3, <2>1
  <2>3. ClausesFrom(fs, j) = <<x>> \o xs
    <3>1. ClausesFrom(fs, j) \in Seq(Seq(Chars)) /\ Len(ClausesFrom(fs, j)) = K - j
      BY <1>3
    <3>2. \A i \in 1..(K - j) : ClausesFrom(fs, j)[i] = Clause(fs[j + i])
      BY DEF ClausesFrom
    <3>3. \A i \in 1..(K - (j + 1)) : xs[i] = Clause(fs[(j + 1) + i])
      BY DEF ClausesFrom
    <3> HIDE DEF x, xs
    <3>4. PICK w \in Seq(Seq(Chars)) : w = <<x>>
      <4>1. <<x>> \in Seq(Seq(Chars))
        BY <2>2
      <4> QED BY <4>1, Zenon
    <3>5. w \o xs \in Seq(Seq(Chars)) /\ Len(w \o xs) = 1 + Len(xs) /\ (w \o xs)[1] = x
          /\ \A i \in 1..Len(xs) : (w \o xs)[1 + i] = xs[i]
      BY <2>2, <3>4
    <3>6. ASSUME NEW i \in 1..(K - j) PROVE ClausesFrom(fs, j)[i] = (w \o xs)[i]
      <4>1. CASE i = 1
        BY <3>2, <3>5, <4>1 DEF x
      <4>2. CASE i # 1
        <5>1. PICK n \in 1..(K - (j + 1)) : i = 1 + n
          <6>1. i - 1 \in 1..(K - (j + 1)) /\ i = 1 + (i - 1)
            BY <1>1, <4>2
          <6> QED BY <6>1
        <5>2. j + i = (j + 1) + n
          BY <1>1, <5>1
        <5> QED BY <2>2, <3>2, <3>3, <3>5, <5>1, <5>2, Zenon
      <4> QED BY <4>1, <4>2, Zenon
    <3> DEFINE L == ClausesFrom(fs, j)
               R == w \o xs
    <3>7. L \in Seq(Seq(Chars)) /\ R \in Seq(Seq(Chars)) /\ Len(L) = Len(R)
          /\ \A i \in 1..Len(L) : L[i] = R[i]
      BY <1>1, <2>2, <3>1, <3>5, <3>6, SMTT(20)
    <3> HIDE DEF L, R
    <3>8. L = R
      BY <3>7, SeqEqual
    <3> QED BY <3>4, <3>8 DEF L, R
  <2>4. FlattenSeq(<<x>> \o xs) = x \o rest
    <3> HIDE DEF x, xs
    <3>1. rest = FlattenSeq(xs)
      BY DEF FiltersFrom, xs
    <3>2. PICK y \in Seq(Chars), ys \in Seq(Seq(Chars)) : y = x /\ ys = xs
      BY <2>2
    <3>3. FlattenSeq(<<y>> \o ys) = y \o FlattenSeq(ys)
      BY FlattenOne, Zenon
    <3> QED BY <3>1, <3>2, <3>3, Zenon
  <2>5. /\ FilterText(fs[j + 1], rest) \in Solid
        /\ x \o rest = <<Blank>> \o FilterText(fs[j + 1], rest)
    BY <1>5, <2>1, ScanClause, Zenon
  <2>6. Unfolds(j)
    BY <2>3, <2>4, <2>5, Zenon DEF FiltersFrom
  <2>7. <<Blank>> \o FilterText(fs[j + 1], rest) \in Ended
    <3>1. PICK t : t = FilterText(fs[j + 1], rest) /\ t \in Solid
      BY <2>5
    <3>2. t \in Seq(Chars) /\ Len(t) >= 1 /\ t[Len(t)] # Blank /\ <<Blank>> \in Seq(Chars)
      BY <3>1, SolidEnds, SyntaxChars
    <3>3. /\ <<Blank>> \o t \in Seq(Chars) /\ Len(<<Blank>> \o t) = 1 + Len(t)
          /\ (<<Blank>> \o t)[1 + Len(t)] = t[Len(t)]
      BY <3>2
    <3>4. <<Blank>> \o t \in Ended
      BY <3>2, <3>3, Zenon DEF Ended
    <3> QED BY <3>1, <3>4
  <2> QED BY <2>6, <2>7
<1>6. Whole(K)
  BY <1>4, SolidIsEnded
<1> HIDE DEF Whole
<1> DEFINE G == {n \in Nat : n <= K => Whole(K - n)}
<1>7. 0 \in G
  BY <1>1, <1>6
<1>8. ASSUME NEW n \in Nat, n \in G PROVE n + 1 \in G
  <2> SUFFICES ASSUME n + 1 <= K PROVE Whole(K - (n + 1))
    OBVIOUS
  <2> DEFINE j == K - (n + 1)
  <2>1. j \in 0..K /\ j < K /\ j + 1 = K - n /\ n <= K
    BY <1>1
  <2>2. Whole(j + 1)
    BY <1>8, <2>1
  <2> HIDE DEF j
  <2>3. Whole(j)
    BY <1>5, <2>1, <2>2
  <2> QED BY <2>3 DEF j
<1>9. \A n \in Nat : n \in G
  <2> HIDE DEF G
  <2> QED BY <1>7, <1>8, Induction
<1>10. ASSUME NEW j \in 0..K PROVE Whole(j)
  <2>1. K - j \in Nat /\ K - j <= K /\ K - (K - j) = j
    BY <1>1
  <2> QED BY <1>9, <2>1
<1>11. ASSUME k < K PROVE Unfolds(k)
  <2>1. k + 1 \in 0..K
    BY <1>1, <1>11
  <2> QED BY <1>5, <1>10, <1>11, <2>1
<1> QED BY <1>4, <1>10, <1>11 DEF Whole

\* There is a character at least for every filter.
LEMMA FiltersLength ==
    ASSUME NEW fs \in Seq(Filters), NEW k \in 0..Len(fs)
    PROVE  FiltersFrom(fs, k) \in Seq(Chars) /\ Len(FiltersFrom(fs, k)) >= Len(fs) - k
<1> DEFINE texts == ClausesFrom(fs, k)
           C == Seq(Chars) \ {<<>>}
           n == Len(fs) - k
<1>1. n \in Nat /\ \A i \in 1..n : fs[k + i] \in Filters
  OBVIOUS
<1>2. \A f \in Filters : Clause(f) \in C
  <2> SUFFICES ASSUME NEW f \in Filters PROVE Clause(f) \in C
    OBVIOUS
  <2>1. <<>> \in Ended
    BY SolidIsEnded
  <2>2. /\ Clause(f) \in Seq(Chars) /\ FilterText(f, <<>>) \in Solid
        /\ Clause(f) \o <<>> = <<Blank>> \o FilterText(f, <<>>)
    BY <2>1, ScanClause, Zenon
  <2>3. FilterText(f, <<>>) \in Seq(Chars)
    BY <2>2 DEF Solid
  <2>4. Clause(f) \o <<>> = Clause(f)
    BY <2>2, ConcatEmptySeq
  <2>5. \A t \in Seq(Chars) : <<Blank>> \o t # <<>>
    BY SyntaxChars
  <2> QED BY <2>2, <2>3, <2>4, <2>5
<1>3. texts \in [1..n -> C]
  BY <1>1, <1>2 DEF ClausesFrom
<1> HIDE DEF texts
<1>4. texts \in Seq(C) /\ Len(texts) = n
  BY <1>1, <1>3, FunIsSeq
<1>5. FiltersFrom(fs, k) \in Seq(Chars)
  BY FiltersUnfold DEF Ended
<1>6. FiltersFrom(fs, k) = FlattenSeq(texts)
  BY DEF FiltersFrom, texts
<1> QED BY <1>4, <1>5, <1>6, FlattenLength

\* What parseFilters has left when k filters are read.
LEMMA FiltersLeft ==
    ASSUME NEW fs \in Seq(Filters), NEW k \in 0..Len(fs)
    PROVE  TrimSpace(FiltersFrom(fs, k)) =
             IF k = Len(fs) THEN <<>> ELSE FilterText(fs[k + 1], FiltersFrom(fs, k + 1))
<1>1. CASE k = Len(fs)
  <2>1. FiltersFrom(fs, k) = <<>> /\ TrimSpace(<<>>) = <<>>
    BY <1>1, FiltersUnfold DEF TrimSpace
  <2> QED BY <1>1, <2>1
<1>2. CASE k < Len(fs)
  <2>1. k + 1 \in 0..Len(fs) /\ fs[k + 1] \in Filters
    BY <1>2
  <2>2. FiltersFrom(fs, k + 1) \in Ended
    BY <2>1, FiltersUnfold
  <2>3. FilterText(fs[k + 1], FiltersFrom(fs, k + 1)) \in Solid
    BY <2>1, <2>2, ScanClause, Zenon
  <2>4. FiltersFrom(fs, k) = <<Blank>> \o FilterText(fs[k + 1], FiltersFrom(fs, k + 1))
    BY <1>2, FiltersUnfold
  <2>5. TrimSpace(<<Blank>> \o FilterText(fs[k + 1], FiltersFrom(fs, k + 1)))
          = FilterText(fs[k + 1], FiltersFrom(fs, k + 1))
    BY <2>3, TrimCases
  <2> QED BY <1>2, <2>4, <2>5
<1> QED BY <1>1, <1>2

\* The filters of a built query are read back as they were.
LEMMA ParseFiltersOfText ==
    ASSUME NEW fs \in Seq(Filters)
    PROVE  parseFilters(TrimSpace(FiltersFrom(fs, 0))) = {fs}
<1> DEFINE left(k) == TrimSpace(FiltersFrom(fs, k))
           text == left(0)
           K == Len(fs)
           N == Len(text)
           st == [k \in 0..K |-> [out |-> SubSeq(fs, 1, k), rest |-> left(k)]]
<1>1. K \in Nat /\ N \in Nat /\ K \in 0..N /\ \A i \in 1..K : fs[i] \in Filters
  <2>1. CASE K = 0
    <3>1. text = <<>>
      <4>1. 0 \in 0..K /\ 0 = Len(fs)
        BY <2>1
      <4> QED BY <4>1, FiltersLeft, Zenon
    <3> HIDE DEF text
    <3> QED BY <2>1, <3>1
  <2>2. CASE K # 0
    <3>1. K \in Nat /\ 1 \in 0..K /\ 1 \in 1..K /\ fs[1] \in Filters
      BY <2>2
    <3> DEFINE r == FiltersFrom(fs, 1)
               f == fs[1]
    <3>2. text = FilterText(f, r)
      BY <2>2, <3>1, FiltersLeft
    <3>3. r \in Seq(Chars) /\ Len(r) >= K - 1
      BY <3>1, FiltersLength
    <3>4. f.op \in Seq(Chars) /\ f.op # <<>>
      BY <3>1, OpStart DEF Filters
    <3>5. Quote(f.value) \in Seq(Chars)
      <4>1. f.value \in Seq(Chars) /\ <<>> \in Seq(Chars)
        BY <3>1 DEF Filters
      <4> QED BY <4>1, ScanQuoted
    <3>6. PICK o, b, q, t \in Seq(Chars) : o = f.op /\ b = <<Blank>> /\ q = Quote(f.value) /\ t = r
      <4>1. <<Blank>> \in Seq(Chars)
        BY SyntaxChars
      <4> QED BY <3>3, <3>4, <3>5, <4>1, Zenon
    <3>7. Len(o \o (b \o (q \o t))) = Len(o) + (Len(b) + (Len(q) + Len(t)))
      OBVIOUS
    <3>8. Len(o) >= 1 /\ Len(b) \in Nat /\ Len(q) \in Nat /\ Len(t) \in Nat
      BY <3>4, <3>6
    <3>9. text = o \o (b \o (q \o t))
      BY <3>2, <3>6, Zenon DEF FilterText
    <3> HIDE DEF text, r
    <3>10. N = Len(o) + (Len(b) + (Len(q) + Len(t)))
      BY <3>7, <3>9
    <3>11. Len(t) >= K - 1
      BY <3>3, <3>6
    <3> HIDE DEF N, K
    <3>12. N \in Nat /\ N >= K
      BY <3>1, <3>8, <3>10, <3>11
    <3> QED BY <3>1, <3>12 DEF K
  <2> QED BY <2>1, <2>2
<1>2. PICK f : /\ f[0] = {[out |-> <<>>, rest |-> text]}
               /\ \A k \in 1..N : f[k] = FilterPass(f[k - 1])
               /\ parseFilters(text) = {p.out : p \in {x \in f[N] : x.rest = <<>>}}
  <2> HIDE DEF text
  <2> QED BY <1>1, ParseFiltersPasses
<1>3. f[0] = {st[0]}
  <2>1. SubSeq(fs, 1, 0) = <<>>
    OBVIOUS
  <2>2. st[0] = [out |-> <<>>, rest |-> text]
    BY <1>1, <2>1
  <2> HIDE DEF st, text
  <2> QED BY <1>2, <2>2
<1>4. ASSUME NEW k \in 0..K, k < K PROVE FilterPass({st[k]}) = {st[k + 1]}
  <2> DEFINE rest == FiltersFrom(fs, k + 1)
             g == fs[k + 1]
             out == SubSeq(fs, 1, k)
  <2>1. k + 1 \in 0..K /\ k + 1 \in 1..K /\ g \in Filters
    BY <1>1, <1>4
  <2>2. rest \in Ended
    BY <2>1, FiltersUnfold
  <2>3. st[k] = [out |-> out, rest |-> FilterText(g, rest)]
    BY <1>4, FiltersLeft
  <2>4. scanFilter(st[k]) = {[out |-> Append(out, g), rest |-> TrimSpace(rest)]}
    <3> HIDE DEF st, rest, g, out
    <3>1. scanFilter([out |-> out, rest |-> FilterText(g, rest)])
            = {[out |-> Append(out, g), rest |-> TrimSpace(rest)]}
      BY <2>1, <2>2, ScanClause
    <3> QED BY <2>3, <3>1
  <2>5. st[k].rest # <<>>
    <3>1. FilterText(g, rest) \in Solid /\ <<>> \notin Solid
      BY <2>1, <2>2, ScanClause, Zenon DEF Solid
    <3> QED BY <2>3, <3>1
  <2>6. Append(out, g) = SubSeq(fs, 1, k + 1)
    <3>1. SubSeq(fs, 1, k + 1) = SubSeq(fs, 1, (k + 1) - 1) \o <<fs[k + 1]>>
      <4>1. 1 \in 1..K /\ k + 1 \in 1..K
        BY <1>1, <2>1
      <4> QED BY <4>1, SubSeqRecursiveSecond
    <3>2. (k + 1) - 1 = k /\ out \in Seq(Filters)
      BY <1>1, <1>4
    <3> HIDE DEF out, g
    <3>3. Append(out, g) = out \o <<g>>
      BY <2>1, <3>2, AppendIsConcat
    <3> QED BY <3>1, <3>2, <3>3 DEF out, g
  <2>7. st[k + 1] = [out |-> SubSeq(fs, 1, k + 1), rest |-> TrimSpace(rest)]
    BY <2>1
  <2> HIDE DEF st
  <2> QED BY <2>4, <2>5, <2>6, <2>7, PassOne, Zenon
<1>5. FilterPass({st[K]}) = {st[K]} /\ st[K].rest = <<>> /\ st[K].out = fs
  <2>1. st[K] = [out |-> SubSeq(fs, 1, K), rest |-> <<>>]
    <3>1. K \in 0..K /\ K = Len(fs) /\ K \in Nat
      BY <1>1
    <3>2. TrimSpace(FiltersFrom(fs, K)) = <<>>
      BY <3>1, FiltersLeft
    <3> QED BY <3>1, <3>2
  <2>2. SubSeq(fs, 1, K) = fs
    BY SubSeqFull
  <2> HIDE DEF st
  <2>3. st[K].rest = <<>> /\ st[K].out = fs
    BY <2>1, <2>2
  <2> QED BY <2>3, PassOne, Zenon
<1> HIDE DEF st
<1>6. ASSUME NEW n \in 1..N, NEW k \in 0..K, k < K, Only(f, n - 1, st[k])
      PROVE  Only(f, n, st[k + 1])
  BY <1>2, <1>4, <1>6 DEF Only
<1>7. ASSUME NEW n \in 1..N, Only(f, n - 1, st[K]) PROVE Only(f, n, st[K])
  BY <1>2, <1>5, <1>7, Zenon DEF Only
<1>8. Only(f, 0, st[0])
  BY <1>3 DEF Only
<1>9. Only(f, N, st[K])
  <2> HIDE DEF N, K
  <2> QED BY <1>1, <1>6, <1>7, <1>8, ChainEnds, Zenon
<1> QED BY <1>2, <1>5, <1>9 DEF Only
-----------------------------------------------------------------------------
(***************************************************************************)
(* The brace that closes a selector.                                       *)
(***************************************************************************)

\* The texts that begin and end outside of quotes and hold no brace there that
\* would close the selector.
Sealed == {s \in Seq(Chars) :
             LET mode == Reading(s, "outside", DoubleQuote)
             IN  /\ mode[Len(s)] = "outside"
                 /\ \A i \in 1..Len(s) : mode[i - 1] = "outside" => s[i] # RightBrace}

\* Sealed texts next to each other are sealed.
LEMMA SealedConcat ==
    ASSUME NEW a \in Sealed, NEW b \in Sealed
    PROVE  a \o b \in Sealed
<1> DEFINE A == Reading(a, "outside", DoubleQuote)
           B == Reading(b, "outside", DoubleQuote)
           m == Reading(a \o b, "outside", DoubleQuote)
<1>1. /\ A[Len(a)] = "outside" /\ B[Len(b)] = "outside"
      /\ \A i \in 1..Len(a) : A[i - 1] = "outside" => a[i] # RightBrace
      /\ \A i \in 1..Len(b) : B[i - 1] = "outside" => b[i] # RightBrace
      /\ a \in Seq(Chars) /\ b \in Seq(Chars)
  BY DEF Sealed
<1>2. /\ \A i \in 0..Len(a) : m[i] = A[i]
      /\ \A i \in 0..Len(b) : m[Len(a) + i] = B[i]
  <2>1. "outside" \in Modes
    BY DEF Modes
  <2> QED BY <1>1, <2>1, ReadingConcat
<1>3. /\ Len(a) \in Nat /\ Len(b) \in Nat /\ Len(a \o b) = Len(a) + Len(b)
      /\ a \o b \in Seq(Chars)
      /\ \A i \in 1..Len(a) : (a \o b)[i] = a[i]
      /\ \A i \in 1..Len(b) : (a \o b)[Len(a) + i] = b[i]
  BY <1>1
<1> HIDE DEF A, B, m
<1>4. ASSUME NEW i \in 1..Len(a \o b), m[i - 1] = "outside" PROVE (a \o b)[i] # RightBrace
  <2>1. CASE i <= Len(a)
    <3>1. i \in 1..Len(a) /\ m[i - 1] = A[i - 1] /\ (a \o b)[i] = a[i]
      BY <1>2, <1>3, <2>1
    <3> QED BY <1>1, <1>4, <3>1
  <2>2. CASE i > Len(a)
    <3> DEFINE j == i - Len(a)
    <3>1. j \in 1..Len(b) /\ i = Len(a) + j /\ i - 1 = Len(a) + (j - 1) /\ j - 1 \in 0..Len(b)
      BY <1>3, <2>2
    <3> HIDE DEF j
    <3>2. m[i - 1] = B[j - 1] /\ (a \o b)[i] = b[j]
      BY <1>2, <1>3, <3>1
    <3> QED BY <1>1, <1>4, <3>1, <3>2
  <2> QED BY <1>3, <2>1, <2>2
<1>5. m[Len(a \o b)] = "outside"
  BY <1>1, <1>2, <1>3
<1> QED BY <1>3, <1>4, <1>5, Zenon DEF Sealed, m

\* A text without quotes and closing braces.
LEMMA PlainIsSealed ==
    ASSUME NEW s \in Seq(Chars), \A i \in 1..Len(s) : s[i] \notin {QuoteMark, RightBrace}
    PROVE  s \in Sealed /\ \A i \in 0..Len(s) : Reading(s, "outside", DoubleQuote)[i] = "outside"
<1> DEFINE m == Reading(s, "outside", DoubleQuote)
<1>1. "outside" \in Modes /\ Len(s) \in Nat
  BY DEF Modes
<1>2. m[0] = "outside" /\ \A i \in 1..Len(s) : m[i] = After(m[i - 1], s[i], DoubleQuote)
  BY <1>1, ReadingSteps
<1> HIDE DEF m
<1> DEFINE G == {n \in Nat : n <= Len(s) => m[n] = "outside"}
<1>3. 0 \in G
  BY <1>2
<1>4. ASSUME NEW n \in Nat, n \in G PROVE n + 1 \in G
  <2> SUFFICES ASSUME n + 1 <= Len(s) PROVE m[n + 1] = "outside"
    OBVIOUS
  <2>1. m[n + 1] = After("outside", s[n + 1], DoubleQuote) /\ s[n + 1] \notin DoubleQuote
    <3>1. n + 1 \in 1..Len(s) /\ (n + 1) - 1 = n /\ m[n] = "outside"
      BY <1>1, <1>4
    <3> QED BY <1>2, <3>1, Zenon DEF DoubleQuote
  <2> QED BY <2>1 DEF After
<1>5. \A n \in Nat : n \in G
  <2> HIDE DEF G
  <2> QED BY <1>3, <1>4, Induction
<1>6. \A n \in 0..Len(s) : m[n] = "outside"
  BY <1>1, <1>5
<1> QED BY <1>1, <1>6 DEF Sealed, m

\* What strconv.Quote writes is sealed, whatever the value holds.
LEMMA QuoteIsSealed ==
    ASSUME NEW v \in Seq(Chars)
    PROVE  Quote(v) \in Sealed
<1> DEFINE q == <<QuoteMark>>
           e == Escape(v, Escapable)
           u == q \o e
           s == u \o q
           M == Reading(q, "outside", DoubleQuote)
           E == Reading(e, "inside", DoubleQuote)
           U == Reading(u, "outside", DoubleQuote)
           C == Reading(q, "inside", DoubleQuote)
           m == Reading(s, "outside", DoubleQuote)
<1>1. QuoteMark \in Chars /\ "outside" \in Modes /\ "inside" \in Modes
  BY DEF Chars, Modes
<1>2. q \in Seq(Chars) /\ Len(q) = 1 /\ q[1] = QuoteMark /\ q # <<>>
  BY <1>1
<1>3. e \in Seq(Chars) /\ Quoted(v, e)
  BY EscapeIsQuoted
<1>4. E[Len(e)] = "inside" /\ \A i \in 1..Len(e) : E[i] # "outside"
  BY <1>3 DEF Quoted
<1>5. M[0] = "outside" /\ M[1] = "inside" /\ C[0] = "inside" /\ C[1] = "outside"
  <2>1. M[0] = "outside" /\ M[1] = After(M[0], QuoteMark, DoubleQuote)
    BY <1>1, <1>2, ReadingSteps
  <2>2. C[0] = "inside" /\ C[1] = After(C[0], QuoteMark, DoubleQuote)
    BY <1>1, <1>2, ReadingSteps
  <2>3. QuoteMark # "\\" /\ QuoteMark \in DoubleQuote
    BY DEF QuoteMark, DoubleQuote
  <2> HIDE DEF M, C
  <2> QED BY <2>1, <2>2, <2>3 DEF After
<1>6. s = Quote(v)
  BY DEF Quote
<1> HIDE DEF e, q
<1>0. q \in Seq(Chars) /\ e \in Seq(Chars) /\ "outside" \in Modes
  BY <1>1, <1>2, <1>3
<1>7. u \in Seq(Chars) /\ Len(u) = 1 + Len(e) /\ Len(e) \in Nat /\ u[1] = QuoteMark
  <2>1. u \in Seq(Chars) /\ Len(u) = Len(q) + Len(e) /\ Len(e) \in Nat
    BY <1>0
  <2>2. u[1] = q[1]
    <3>1. q # <<>>
      BY <1>2
    <3> QED BY <1>0, <3>1
  <2> HIDE DEF u
  <2> QED BY <1>2, <2>1, <2>2
<1>8. U[0] = "outside" /\ U[1] = "inside" /\ \A i \in 0..Len(e) : U[1 + i] = E[i]
  <2>1. M[Len(q)] = "inside"
    BY <1>2, <1>5
  <2>2. /\ \A i \in 0..Len(q) : U[i] = M[i]
        /\ \A i \in 0..Len(e) : U[Len(q) + i] = Reading(e, M[Len(q)], DoubleQuote)[i]
    BY <1>0, ReadingConcat
  <2> HIDE DEF U, M
  <2> QED BY <1>2, <1>5, <2>1, <2>2
<1> HIDE DEF u
<1>9. /\ \A i \in 0..Len(u) : m[i] = U[i]
      /\ m[Len(u) + 1] = C[1]
  <2>1. U[Len(u)] = "inside"
    <3> HIDE DEF U, E
    <3>1. Len(e) \in 0..Len(e)
      BY <1>7
    <3> QED BY <1>4, <1>7, <1>8, <3>1
  <2>2. /\ \A i \in 0..Len(u) : m[i] = U[i]
        /\ \A i \in 0..Len(q) : m[Len(u) + i] = Reading(q, U[Len(u)], DoubleQuote)[i]
    <3>1. u \in Seq(Chars)
      BY <1>7
    <3> QED BY <1>0, <3>1, ReadingConcat
  <2> HIDE DEF U, m
  <2> QED BY <1>2, <2>1, <2>2
<1>10. s \in Seq(Chars) /\ Len(s) = Len(u) + 1 /\ s[1] = QuoteMark
  <2>1. u \in Seq(Chars) /\ u # <<>>
    BY <1>7
  <2>2. s \in Seq(Chars) /\ Len(s) = Len(u) + Len(q)
    BY <1>0, <2>1
  <2>3. s[1] = u[1]
    BY <1>0, <2>1
  <2> HIDE DEF s
  <2> QED BY <1>2, <1>7, <2>2, <2>3
<1> HIDE DEF s, m, U, E, C, M
<1>11. m[Len(s)] = "outside"
  BY <1>5, <1>9, <1>10
<1>12. ASSUME NEW i \in 1..Len(s), m[i - 1] = "outside" PROVE s[i] # RightBrace
  <2>1. CASE i = 1
    <3>1. QuoteMark # RightBrace
      BY DEF QuoteMark, RightBrace
    <3> QED BY <1>10, <2>1, <3>1
  <2>2. CASE i # 1
    <3>1. m[i - 1] = U[i - 1] /\ i - 1 \in 1..Len(u)
      BY <1>7, <1>9, <1>10, <2>2
    <3>2. i - 1 = 1 \/ i - 2 \in 1..Len(e)
      BY <1>7, <3>1
    <3>3. CASE i - 1 = 1
      BY <1>8, <1>12, <3>1, <3>3
    <3>4. CASE i - 2 \in 1..Len(e)
      <4>1. i - 1 = 1 + (i - 2) /\ i - 2 \in 0..Len(e)
        BY <1>7, <3>4
      <4>2. U[i - 1] = E[i - 2]
        BY <1>8, <4>1
      <4> QED BY <1>4, <1>12, <3>1, <3>4, <4>2
    <3> QED BY <3>2, <3>3, <3>4
  <2> QED BY <2>1, <2>2
<1>13. s \in Sealed
  BY <1>10, <1>11, <1>12 DEF Sealed, m
<1> QED BY <1>6, <1>13

\* The first closing brace after a sealed text closes the selector.
LEMMA ClosingBraceIs ==
    ASSUME NEW x \in Sealed, NEW rest \in Seq(Chars)
    PROVE  closingBrace(x \o (<<RightBrace>> \o rest)) = Len(x) + 1
<1> DEFINE r == <<RightBrace>> \o rest
           s == x \o r
           X == Reading(x, "outside", DoubleQuote)
           m == Reading(s, "outside", DoubleQuote)
           ends == ClosingBraces(s)
<1>1. RightBrace \in Chars /\ "outside" \in Modes
  BY SyntaxChars DEF Modes
<1>2. /\ x \in Seq(Chars) /\ X[Len(x)] = "outside"
      /\ \A i \in 1..Len(x) : X[i - 1] = "outside" => x[i] # RightBrace
  BY DEF Sealed
<1>3. r \in Seq(Chars) /\ Len(r) >= 1 /\ r[1] = RightBrace /\ Len(r) \in Nat
  BY <1>1
<1> HIDE DEF r
<1>4. /\ s \in Seq(Chars) /\ Len(s) = Len(x) + Len(r) /\ Len(x) \in Nat
      /\ DOMAIN s = 1..Len(s)
      /\ \A i \in 1..Len(x) : s[i] = x[i]
      /\ s[Len(x) + 1] = RightBrace
  BY <1>2, <1>3
<1>5. \A i \in 0..Len(x) : m[i] = X[i]
  BY <1>1, <1>2, <1>3, ReadingConcat
<1>6. ends = {i \in DOMAIN s : m[i - 1] = "outside" /\ s[i] = RightBrace}
  BY DEF ClosingBraces
<1> HIDE DEF ends, m, X, s
<1>7. Len(x) + 1 \in ends
  <2>1. Len(x) + 1 \in DOMAIN s /\ (Len(x) + 1) - 1 = Len(x) /\ Len(x) \in 0..Len(x)
    BY <1>3, <1>4
  <2> QED BY <1>2, <1>4, <1>5, <1>6, <2>1
<1>8. ASSUME NEW i \in ends PROVE Len(x) + 1 <= i
  <2>1. i \in 1..Len(s) /\ m[i - 1] = "outside" /\ s[i] = RightBrace
    BY <1>4, <1>6
  <2>2. SUFFICES ASSUME i <= Len(x) PROVE FALSE
    BY <1>3, <1>4, <2>1
  <2>3. i \in 1..Len(x) /\ i - 1 \in 0..Len(x)
    BY <1>3, <1>4, <2>1, <2>2
  <2> QED BY <1>2, <1>4, <1>5, <2>1, <2>3
<1>9. ends \subseteq Nat /\ ends # {}
  BY <1>3, <1>4, <1>6, <1>7
<1>10. Min(ends) = Len(x) + 1
  BY <1>7, <1>8, <1>9, MinIsLeast
<1> QED BY <1>9, <1>10 DEF closingBrace, ends, s, r

\* The text of matchers is in every class of texts that is closed under
\* concatenation and holds what the text is made of.
LEMMA MatchersClosed ==
    ASSUME NEW C \in SUBSET Seq(Chars), <<>> \in C, \A a, b \in C : a \o b \in C,
           Separator \in C, MatcherOps \subseteq C, Seq(Letters) \subseteq C,
           \A v \in Seq(Chars) : Quote(v) \in C, NEW ms \in Seq(Matchers)
    PROVE  MatchersFrom(ms, 0) \in C
<1>1. ASSUME NEW m \in Matchers PROVE Part(m) \in C
  <2>1. m.label \in Seq(Letters) /\ m.op \in MatcherOps /\ m.value \in Seq(Chars)
    BY DEF Matchers
  <2>2. m.label \in C /\ m.op \in C /\ Quote(m.value) \in C
    BY <2>1
  <2>3. m.label \o m.op \in C
    BY <2>2
  <2> QED BY <2>2, <2>3 DEF Part
<1> DEFINE texts == PartsFrom(ms, 0)
           pieces == Pieces(texts, Separator)
<1>7. Len(ms) \in Nat /\ \A i \in 1..Len(ms) : ms[i] \in Matchers
  OBVIOUS
<1>8. texts \in [1..Len(ms) -> C]
  BY <1>1, <1>7, SMTT(20) DEF PartsFrom
<1> HIDE DEF texts
<1>9. texts \in Seq(C) /\ DOMAIN texts = 1..Len(ms)
  BY <1>7, <1>8, FunIsSeq, Zenon
<1>10. texts \in Seq(Seq(Chars)) /\ Separator \in Seq(Chars)
  BY <1>9, SeqMonotonic
<1>11. Join(texts, Separator) = FlattenSeq(pieces)
  BY <1>10, PiecesType
<1>12. pieces \in [1..Len(ms) -> C]
  <2>1. \A i \in 1..Len(ms) : texts[i] \in C /\ Separator \o texts[i] \in C
    BY <1>8, Zenon
  <2> QED BY <1>9, <2>1 DEF Pieces
<1> HIDE DEF pieces
<1>13. pieces \in Seq(C)
  BY <1>7, <1>12, FunIsSeq, Zenon
<1>14. FlattenSeq(pieces) \in C
  BY <1>13, FlattenClosed, Zenon
<1> QED BY <1>11, <1>14 DEF MatchersFrom, texts

\* What String puts between the braces is sealed.
LEMMA MatchersAreSealed ==
    ASSUME NEW ms \in Seq(Matchers)
    PROVE  MatchersFrom(ms, 0) \in Sealed
<1>1. Sealed \in SUBSET Seq(Chars) /\ <<>> \in Sealed
  <2>1. <<>> \in Seq(Chars) /\ \A i \in 1..Len(<<>>) : <<>>[i] \notin {QuoteMark, RightBrace}
    OBVIOUS
  <2>2. <<>> \in Sealed
    BY <2>1, PlainIsSealed, Zenon
  <2> QED BY <2>2 DEF Sealed
<1>2. \A a, b \in Sealed : a \o b \in Sealed
  BY SealedConcat
<1>3. Separator \in Sealed
  <2>1. Separator \in Seq(Chars)
    BY SyntaxChars DEF Separator
  <2>2. \A i \in 1..Len(Separator) : Separator[i] \in {Comma, Blank}
    BY DEF Separator
  <2>3. Comma \notin {QuoteMark, RightBrace} /\ Blank \notin {QuoteMark, RightBrace}
    BY DEF Comma, Blank, QuoteMark, RightBrace
  <2> QED BY <2>1, <2>2, <2>3, PlainIsSealed
<1>4. MatcherOps \subseteq Sealed
  <2> SUFFICES ASSUME NEW op \in MatcherOps PROVE op \in Sealed
    OBVIOUS
  <2>1. op \in Seq(Chars)
    BY OpsAreChars DEF MatcherOps
  <2>2. \A i \in 1..Len(op) : op[i] \in {"=", "!", "~"}
    BY DEF MatcherOps, Equal, NotEqual, Regexp, NotRegexp
  <2>3. \A c \in {"=", "!", "~"} : c \notin {QuoteMark, RightBrace}
    BY DEF QuoteMark, RightBrace
  <2> QED BY <2>1, <2>2, <2>3, PlainIsSealed
<1>5. Seq(Letters) \subseteq Sealed
  <2> SUFFICES ASSUME NEW l \in Seq(Letters) PROVE l \in Sealed
    OBVIOUS
  <2>1. l \in Seq(Chars)
    BY SyntaxChars, SeqMonotonic
  <2>2. \A i \in 1..Len(l) : l[i] \in Letters
    OBVIOUS
  <2>3. \A c \in Letters : c \notin {QuoteMark, RightBrace}
    BY DEF QuoteMark, RightBrace, Letters
  <2> QED BY <2>1, <2>2, <2>3, PlainIsSealed
<1> QED BY <1>1, <1>2, <1>3, <1>4, <1>5, QuoteIsSealed, MatchersClosed, Zenon

\* The text that String returns.
LEMMA StringIs ==
    ASSUME NEW sel, sel.matchers \in Seq(Matchers), sel.filters \in Seq(Filters)
    PROVE  String(sel) = ((<<LeftBrace>> \o MatchersFrom(sel.matchers, 0)) \o <<RightBrace>>)
                           \o FiltersFrom(sel.filters, 0)
<1> DEFINE ms == sel.matchers
           fs == sel.filters
           part(m) == m.label \o m.op \o Quote(m.value)
           clause(f) == <<Blank>> \o f.op \o <<Blank>> \o Quote(f.value)
           parts == [i \in DOMAIN ms |-> part(ms[i])]
           clauses == [i \in DOMAIN fs |-> clause(fs[i])]
<1>1. String(sel) = ((<<LeftBrace>> \o Join(parts, <<Comma, Blank>>)) \o <<RightBrace>>)
                      \o FlattenSeq(clauses)
  BY DEF String
<1>2. parts = PartsFrom(ms, 0)
  <2>1. DOMAIN ms = 1..(Len(ms) - 0) /\ \A i \in 1..Len(ms) : 0 + i = i
    OBVIOUS
  <2>2. \A m : part(m) = Part(m)
    BY DEF Part
  <2> HIDE DEF part
  <2> QED BY <2>1, <2>2 DEF PartsFrom
<1>3. clauses = ClausesFrom(fs, 0)
  <2>1. DOMAIN fs = 1..(Len(fs) - 0) /\ \A i \in 1..Len(fs) : 0 + i = i
    OBVIOUS
  <2>2. \A f : clause(f) = Clause(f)
    BY DEF Clause
  <2> HIDE DEF clause
  <2> QED BY <2>1, <2>2 DEF ClausesFrom
<1> HIDE DEF parts, clauses
<1> QED BY <1>1, <1>2, <1>3 DEF MatchersFrom, FiltersFrom, Separator

\* The query API reads the text of a built query as the matchers and filters it
\* was built from, and refuses it when there is no matcher.
LEMMA ParseOfString ==
    ASSUME NEW sel, sel.matchers \in Seq(Matchers), sel.filters \in Seq(Filters)
    PROVE  Parse(String(sel)) =
             IF sel.matchers = <<>> THEN {}
             ELSE {[matchers |-> sel.matchers, filters |-> sel.filters]}
<1> DEFINE ms == sel.matchers
           fs == sel.filters
           M == MatchersFrom(ms, 0)
           F == FiltersFrom(fs, 0)
           x == <<LeftBrace>> \o M
           s == (x \o <<RightBrace>>) \o F
           end == Len(x) + 1
<1>1. String(sel) = s
  BY StringIs
<1>2. /\ M \in Sealed /\ M \in Seq(Chars) /\ F \in Seq(Chars) /\ F \in Ended
      /\ parseMatchers(M) = {ms} /\ parseFilters(TrimSpace(F)) = {fs}
  <2>1. 0 \in 0..Len(fs)
    OBVIOUS
  <2>2. F \in Ended
    BY <2>1, FiltersUnfold
  <2>3. F \in Seq(Chars)
    BY <2>2 DEF Ended
  <2> QED BY <2>2, <2>3, MatchersAreSealed, MatchersLength, ParseMatchersOfText, ParseFiltersOfText
<1>3. /\ LeftBrace \in Chars /\ RightBrace \in Chars /\ LeftBrace # Blank /\ RightBrace # Blank
      /\ LeftBrace \notin {QuoteMark, RightBrace}
  <2>1. LeftBrace \notin {QuoteMark, RightBrace}
    BY DEF LeftBrace, QuoteMark, RightBrace
  <2> QED BY <2>1, SyntaxChars
<1>4. PICK l, r \in Seq(Chars) : l = <<LeftBrace>> /\ r = <<RightBrace>>
  <2>1. <<LeftBrace>> \in Seq(Chars) /\ <<RightBrace>> \in Seq(Chars)
    BY <1>3
  <2> QED BY <2>1, Zenon
<1>5. l \in Sealed
  <2>1. \A i \in 1..Len(l) : l[i] = LeftBrace
    BY <1>4
  <2> QED BY <1>3, <2>1, PlainIsSealed
<1> HIDE DEF M, F
<1>6. x \in Sealed /\ x \in Seq(Chars) /\ Len(x) = 1 + Len(M) /\ Len(M) \in Nat /\ x[1] = LeftBrace
  <2>1. l \o M \in Sealed
    BY <1>2, <1>5, SealedConcat
  <2>2. l # <<>> /\ Len(l) = 1 /\ l[1] = LeftBrace
    BY <1>4
  <2>3. M \in Seq(Chars)
    BY <1>2
  <2>4. l \o M \in Seq(Chars) /\ Len(l \o M) = Len(l) + Len(M) /\ Len(M) \in Nat
    BY <2>3
  <2>5. (l \o M)[1] = l[1]
    BY <2>2, <2>3, ConcatEnds
  <2> QED BY <1>4, <2>1, <2>2, <2>4, <2>5
<1>7. PICK y \in Seq(Chars) : y = x
  BY <1>6, Zenon
<1>8. PICK f \in Seq(Chars) : f = F
  BY <1>2
<1>9. s = y \o (r \o f)
  <2>1. (y \o r) \o f = y \o (r \o f)
    OBVIOUS
  <2> QED BY <1>4, <1>7, <1>8, <2>1
<1>10. closingBrace(s) = end
  BY <1>4, <1>6, <1>7, <1>8, <1>9, ClosingBraceIs, Zenon
<1>11. /\ y \o r \in Seq(Chars) /\ Len(y \o r) = end /\ (y \o r)[1] = LeftBrace
       /\ (y \o r)[end] = RightBrace /\ y # <<>>
  <2>1. y # <<>> /\ y[1] = LeftBrace /\ Len(r) = 1 /\ r[1] = RightBrace /\ r # <<>>
    BY <1>4, <1>6, <1>7
  <2>2. y \o r \in Seq(Chars) /\ Len(y \o r) = Len(y) + Len(r)
    OBVIOUS
  <2>3. (y \o r)[1] = y[1] /\ (y \o r)[Len(y) + 1] = r[1]
    BY <2>1, ConcatEnds
  <2> QED BY <1>7, <2>1, <2>2, <2>3
<1>12. s \in Solid
  <2>1. s = (y \o r) \o f
    BY <1>4, <1>7, <1>8
  <2>2. PICK z \in Seq(Chars) : z = y \o r
    BY <1>11, Zenon
  <2>3. z # <<>> /\ z[1] # Blank /\ z[Len(z)] # Blank
    <3>1. Len(z) = end /\ end >= 1
      BY <1>6, <1>11, <2>2
    <3> HIDE DEF end
    <3> QED BY <1>3, <1>11, <2>2, <3>1
  <2>4. CASE f = <<>>
    <3>1. z \o f = z
      BY <2>4
    <3>2. z \in Solid
      BY <2>3 DEF Solid
    <3> QED BY <2>1, <2>2, <3>1, <3>2, Zenon
  <2>5. CASE f # <<>>
    <3>1. f[Len(f)] # Blank
      BY <1>2, <1>8, <2>5 DEF Ended
    <3>2. /\ z \o f \in Seq(Chars) /\ Len(z \o f) = Len(z) + Len(f) /\ (z \o f)[1] = z[1]
          /\ (z \o f)[Len(z) + Len(f)] = f[Len(f)]
      BY <2>3, <2>5
    <3>3. PICK w \in Seq(Chars) : w = z \o f
      BY <3>2, Zenon
    <3>4. w # <<>> /\ w[1] # Blank /\ w[Len(w)] # Blank
      BY <2>3, <3>1, <3>2, <3>3
    <3>5. w \in Solid
      BY <3>4 DEF Solid
    <3> QED BY <2>1, <2>2, <3>3, <3>5, Zenon
  <2> QED BY <2>4, <2>5
<1>13. TrimSpace(s) = s
  BY <1>12, TrimCases, Zenon
<1>14. DropChars(s, end) = f
  <2>1. PICK z \in Seq(Chars) : z = y \o r
    BY <1>11, Zenon
  <2>2. DropChars(z \o f, Len(z)) = f
    BY DropConcat
  <2> QED BY <1>4, <1>7, <1>8, <1>11, <2>1, <2>2, Zenon
<1>15. SubSeq(s, 2, end - 1) = M
  <2>1. end - 1 = 1 + Len(M) /\ end - 1 \in Int /\ 2 \in Int
    BY <1>6
  <2>2. s \in Seq(Chars)
    BY <1>12 DEF Solid
  <2>3. \A i \in 1..Len(M) : s[1 + i] = M[i] /\ 1 + i \in 1..Len(s)
    <3>1. PICK t \in Seq(Chars) : t = r \o f
      BY ConcatProperties, Zenon
    <3>2. \A i \in 1..Len(y) : (y \o t)[i] = y[i]
      OBVIOUS
    <3>3. Len(y \o t) = Len(y) + Len(t) /\ Len(t) \in Nat
      OBVIOUS
    <3>4. \A i \in 1..Len(M) : (l \o M)[Len(l) + i] = M[i]
      <4>1. M \in Seq(Chars)
        BY <1>2
      <4> QED BY <4>1
    <3>5. Len(l) = 1 /\ y = l \o M /\ s = y \o t
      BY <1>4, <1>7, <1>9, <3>1
    <3>6. Len(y) = 1 + Len(M) /\ Len(M) \in Nat
      BY <1>6, <1>7
    <3> HIDE DEF s, x
    <3> QED BY <3>2, <3>3, <3>4, <3>5, <3>6
  <2> HIDE DEF s, end
  <2>4. \A i \in 2..(end - 1) : s[i] \in Chars
    <3> SUFFICES ASSUME NEW i \in 2..(end - 1) PROVE s[i] \in Chars
      OBVIOUS
    <3>1. i - 1 \in 1..Len(M) /\ 1 + (i - 1) = i
      BY <1>6, <2>1
    <3>2. i \in 1..Len(s)
      BY <2>3, <3>1
    <3> QED BY <2>2, <3>2
  <2> DEFINE u == SubSeq(s, 2, end - 1)
  <2>5. /\ u \in Seq(Chars) /\ Len(u) = IF 2 <= end - 1 THEN (end - 1) - 2 + 1 ELSE 0
        /\ \A i \in 1..((end - 1) - 2 + 1) : u[i] = s[2 + i - 1]
    BY <2>1, <2>4, SubSeqProperties
  <2> HIDE DEF u
  <2>6. Len(u) = Len(M) /\ \A i \in 1..Len(M) : u[i] = M[i]
    <3>1. (end - 1) - 2 + 1 = Len(M) /\ \A i \in 1..Len(M) : 2 + i - 1 = 1 + i
      BY <1>6, <2>1
    <3>2. Len(u) = Len(M)
      BY <1>6, <2>1, <2>5
    <3> QED BY <2>3, <2>5, <3>1, <3>2
  <2>7. M \in Seq(Chars)
    BY <1>2
  <2>8. u = M
    BY <2>5, <2>6, <2>7, SeqEqual
  <2> QED BY <2>8 DEF u
<1>16. s # <<>> /\ s[1] = LeftBrace
  <2>1. PICK z \in Seq(Chars) : z = y \o r
    BY <1>11, Zenon
  <2>2. z # <<>> /\ z[1] = LeftBrace
    BY <1>6, <1>11, <2>1
  <2>3. (z \o f)[1] = z[1] /\ z \o f # <<>>
    BY <2>2
  <2> QED BY <1>4, <1>7, <1>8, <2>1, <2>2, <2>3
<1>17. end # 0
  BY <1>6
<1> HIDE DEF s, end, ms, fs
<1>18. Parse(s) = {[matchers |-> a, filters |-> b] : a \in {ms} \ {<<>>}, b \in {fs}}
  <2> DEFINE t == TrimSpace(s)
             e == closingBrace(t)
             A == parseMatchers(SubSeq(t, 2, e - 1))
             B == parseFilters(TrimSpace(DropChars(t, e)))
  <2>1. A = {ms} /\ B = {fs}
    BY <1>2, <1>8, <1>10, <1>13, <1>14, <1>15, Zenon
  <2>2. ~(t = <<>> \/ t[1] # LeftBrace \/ e = 0)
    BY <1>10, <1>13, <1>16, <1>17
  <2>3. Parse(s) = IF t = <<>> \/ t[1] # LeftBrace \/ e = 0 THEN {}
                   ELSE {[matchers |-> a, filters |-> b] : a \in A \ {<<>>}, b \in B}
    BY DEF Parse
  <2> HIDE DEF t, e, A, B
  <2> QED BY <2>1, <2>2, <2>3
<1> QED BY <1>1, <1>18 DEF ms, fs
-----------------------------------------------------------------------------
(***************************************************************************)
(* The values that are kept.                                               *)
(***************************************************************************)

\* A part of a text.
LEMMA PartOf ==
    ASSUME NEW S, NEW s \in Seq(S), NEW i \in 1..(Len(s) + 1), NEW j \in 0..Len(s), i <= j + 1
    PROVE  /\ SubSeq(s, i, j) \in Seq(S) /\ Len(SubSeq(s, i, j)) = (j + 1) - i
           /\ \A k \in 1..((j + 1) - i) : SubSeq(s, i, j)[k] = s[(i - 1) + k]
<1>1. Len(s) \in Nat /\ i \in Int /\ j \in Int /\ \A k \in i..j : s[k] \in S
  OBVIOUS
<1>2. /\ SubSeq(s, i, j) \in Seq(S) /\ Len(SubSeq(s, i, j)) = IF i <= j THEN j - i + 1 ELSE 0
      /\ \A k \in 1..(j - i + 1) : SubSeq(s, i, j)[k] = s[i + k - 1]
  BY <1>1, SubSeqProperties
<1>3. j - i + 1 = (j + 1) - i /\ \A k \in Int : i + k - 1 = (i - 1) + k
  BY <1>1
<1>4. Len(SubSeq(s, i, j)) = (j + 1) - i
  BY <1>1, <1>2, <1>3
<1>5. ASSUME NEW k \in 1..((j + 1) - i) PROVE SubSeq(s, i, j)[k] = s[(i - 1) + k]
  BY <1>2, <1>3
<1> QED BY <1>2, <1>4, <1>5

\* A text is what TrimSpace leaves of it with blanks around.
LEMMA TrimSplits ==
    ASSUME NEW s \in Seq(Chars)
    PROVE  /\ TrimSpace(s) \in Solid \cup {<<>>} /\ TrimSpace(s) \in Seq(Chars)
           /\ \E a, b \in Blanks : s = a \o (TrimSpace(s) \o b)
<1> DEFINE solid == {i \in DOMAIN s : s[i] # Blank}
           n == Len(s)
<1>1. DOMAIN s = 1..n /\ n \in Nat /\ \A i \in 1..n : s[i] \in Chars
  OBVIOUS
<1>2. <<>> \in Blanks /\ <<>> \in Seq(Chars)
  BY DEF Blanks
<1>3. CASE solid = {}
  <2>1. TrimSpace(s) = <<>>
    BY <1>3 DEF TrimSpace
  <2>2. s \in Blanks
    <3>1. \A i \in 1..n : s[i] \in {Blank}
      BY <1>1, <1>3
    <3>2. s = [i \in 1..n |-> s[i]]
      BY <1>1
    <3>3. s \in [1..n -> {Blank}]
      BY <3>1, <3>2
    <3>4. s \in Seq({Blank})
      BY <1>1, <3>3, FunIsSeq
    <3> QED BY <3>4 DEF Blanks
  <2>3. s = s \o (<<>> \o <<>>)
    OBVIOUS
  <2> QED BY <1>2, <2>1, <2>2, <2>3
<1>4. CASE solid # {}
  <2> DEFINE i == Min(solid)
             j == Max(solid)
             a == SubSeq(s, 1, i - 1)
             t == SubSeq(s, i, j)
             b == SubSeq(s, j + 1, n)
  <2>1. solid \in SUBSET Nat /\ \A k \in solid : k <= n
    BY <1>1
  <2>2. i \in solid /\ \A k \in solid : i <= k
    BY <1>4, <2>1, MinIsLeast, Zenon
  <2>3. j \in solid /\ \A k \in solid : k <= j
    BY <1>1, <1>4, <2>1, MaxIsGreatest, Zenon
  <2>4. TrimSpace(s) = t
    BY <1>4, Zenon DEF TrimSpace
  <2>5. i \in 1..n /\ j \in 1..n /\ i <= j /\ s[i] # Blank /\ s[j] # Blank
    BY <1>1, <2>2, <2>3
  <2>6. (\A k \in 1..(i - 1) : s[k] = Blank) /\ \A k \in (j + 1)..n : s[k] = Blank
    <3>1. \A k \in 1..n : s[k] # Blank => i <= k /\ k <= j
      BY <1>1, <2>2, <2>3
    <3> HIDE DEF i, j
    <3> QED BY <1>1, <2>5, <3>1
  <2> HIDE DEF i, j, solid
  <2>7. /\ a \in Seq(Chars) /\ Len(a) = i - 1 /\ \A k \in 1..(i - 1) : a[k] = s[k]
    <3>1. /\ a \in Seq(Chars) /\ Len(a) = ((i - 1) + 1) - 1
          /\ \A k \in 1..(((i - 1) + 1) - 1) : a[k] = s[(1 - 1) + k]
      BY <1>1, <2>5, PartOf
    <3>2. ((i - 1) + 1) - 1 = i - 1 /\ \A k \in 1..(i - 1) : (1 - 1) + k = k
      BY <2>5
    <3> HIDE DEF a
    <3> QED BY <3>1, <3>2
  <2>8. /\ t \in Seq(Chars) /\ Len(t) = (j + 1) - i
        /\ \A k \in 1..((j + 1) - i) : t[k] = s[(i - 1) + k]
    BY <1>1, <2>5, PartOf
  <2>9. /\ b \in Seq(Chars) /\ Len(b) = n - j
        /\ \A k \in 1..(n - j) : b[k] = s[j + k]
    <3>1. /\ b \in Seq(Chars) /\ Len(b) = (n + 1) - (j + 1)
          /\ \A k \in 1..((n + 1) - (j + 1)) : b[k] = s[((j + 1) - 1) + k]
      BY <1>1, <2>5, PartOf
    <3>2. (n + 1) - (j + 1) = n - j /\ (j + 1) - 1 = j
      BY <1>1, <2>5
    <3> HIDE DEF b
    <3> QED BY <3>1, <3>2
  <2> HIDE DEF a, t, b
  <2>10. a \in Blanks /\ b \in Blanks
    <3>1. a \in [1..(i - 1) -> {Blank}] /\ i - 1 \in Nat
      <4>1. a \in [1..Len(a) -> Chars] /\ \A k \in 1..Len(a) : a[k] \in {Blank}
        BY <2>6, <2>7
      <4> QED BY <2>5, <2>7, <4>1
    <3>2. b \in [1..(n - j) -> {Blank}] /\ n - j \in Nat
      <4>1. ASSUME NEW k \in 1..(n - j) PROVE b[k] = Blank
        <5>1. j + k \in (j + 1)..n
          BY <1>1, <2>5
        <5> QED BY <2>6, <2>9, <5>1
      <4>2. b \in [1..Len(b) -> Chars]
        BY <2>9
      <4> QED BY <1>1, <2>5, <2>9, <4>1, <4>2
    <3> QED BY <3>1, <3>2, FunIsSeq, Zenon DEF Blanks
  <2>11. t \in Solid
    <3>1. Len(t) >= 1 /\ Len(t) \in Nat /\ t # <<>>
      BY <2>5, <2>8
    <3>2. t[1] = s[i] /\ t[Len(t)] = s[j]
      <4>1. 1 \in 1..((j + 1) - i) /\ (i - 1) + 1 = i /\ Len(t) \in 1..((j + 1) - i) /\ (i - 1) + Len(t) = j
        BY <2>5, <2>8
      <4> QED BY <2>8, <4>1
    <3> QED BY <2>5, <2>8, <3>1, <3>2 DEF Solid
  <2>12. s = a \o (t \o b)
    <3> DEFINE u == t \o b
               w == a \o u
    <3>1. /\ u \in Seq(Chars) /\ Len(u) = Len(t) + Len(b)
          /\ (\A k \in 1..Len(t) : u[k] = t[k]) /\ \A k \in 1..Len(b) : u[Len(t) + k] = b[k]
      <4>1. t \in Seq(Chars) /\ b \in Seq(Chars)
        BY <2>8, <2>9
      <4> QED BY <4>1
    <3> HIDE DEF u
    <3>2. /\ w \in Seq(Chars) /\ Len(w) = Len(a) + Len(u)
          /\ (\A k \in 1..Len(a) : w[k] = a[k]) /\ \A k \in 1..Len(u) : w[Len(a) + k] = u[k]
      <4>1. a \in Seq(Chars) /\ u \in Seq(Chars)
        BY <2>7, <3>1
      <4> QED BY <4>1
    <3> HIDE DEF w
    <3>3. Len(w) = n
      <4>1. /\ Len(a) = i - 1 /\ Len(t) = (j + 1) - i /\ Len(b) = n - j
            /\ Len(w) = Len(a) + (Len(t) + Len(b))
        BY <2>7, <2>8, <2>9, <3>1, <3>2
      <4>2. i \in Int /\ j \in Int /\ n \in Int
        BY <1>1, <2>5
      <4> HIDE DEF n
      <4> QED BY <4>1, <4>2
    <3>4. ASSUME NEW k \in 1..n PROVE w[k] = s[k]
      <4>1. CASE k <= i - 1
        <5>1. k \in 1..Len(a) /\ k \in 1..(i - 1)
          BY <2>5, <2>7, <4>1
        <5> QED BY <2>7, <3>2, <5>1
      <4>2. CASE k > i - 1 /\ k <= j
        <5> DEFINE h == k - (i - 1)
        <5>1. h \in 1..Len(t) /\ h \in 1..Len(u) /\ k = Len(a) + h /\ k = (i - 1) + h
          BY <1>1, <2>5, <2>7, <2>8, <2>9, <3>1, <4>2
        <5> HIDE DEF h
        <5> QED BY <2>8, <3>1, <3>2, <5>1
      <4>3. CASE k > j
        <5> DEFINE h == k - j
        <5>1. /\ h \in 1..Len(b) /\ Len(t) + h \in 1..Len(u) /\ k = Len(a) + (Len(t) + h)
              /\ k = j + h
          BY <1>1, <2>5, <2>7, <2>8, <2>9, <3>1, <4>3
        <5> HIDE DEF h
        <5> QED BY <2>9, <3>1, <3>2, <5>1
      <4> QED BY <2>5, <4>1, <4>2, <4>3
    <3>5. w = s
      BY <3>2, <3>3, <3>4, SeqEqual
    <3> QED BY <3>5 DEF w, u
  <2>13. t \in Seq(Chars)
    BY <2>8
  <2> QED BY <2>4, <2>10, <2>11, <2>12, <2>13, Zenon
<1> QED BY <1>3, <1>4, Zenon
=============================================================================
