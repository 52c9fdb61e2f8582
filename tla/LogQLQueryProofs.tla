-------------------------- MODULE LogQLQueryProofs --------------------------
(***************************************************************************)
(* Proofs about LogQLQuery, for any labels, values, lists of values and    *)
(* typed texts: the query API reads a built query as the conditions that   *)
(* were asked for, and the logs command reads the labels that the API      *)
(* requires.                                                               *)
(***************************************************************************)
EXTENDS LogQLQuery, LogQLHintsProofs

-----------------------------------------------------------------------------
(***************************************************************************)
(* Regular expressions.                                                    *)
(***************************************************************************)
AtomSet == [kind : {"any", "bar", "literal"}, char : Chars]

Literal(c) == [kind |-> "literal", char |-> c]
Bar == [kind |-> "bar", char |-> "|"]

Literals(w) == [i \in 1..Len(w) |-> Literal(w[i])]

\* What the characters of a pattern contribute to its atoms.
Marks(p, mode) ==
    [i \in 1..Len(p) |-> IF mode[i] = "escaped" THEN <<>>
                         ELSE <<Atom(p[i], mode[i - 1] = "escaped")>>]

\* The pattern p compiles to these atoms.
PatternOf(atoms, p) ==
    LET mode == Reading(p, "inside", {})
    IN  /\ mode[Len(p)] = "inside"
        /\ \A i \in 1..Len(p) : mode[i - 1] = "escaped" => p[i] \notin Letters
        /\ FlattenSeq(Marks(p, mode)) = atoms

\* A character of a pattern is an atom.
LEMMA AtomType ==
    ASSUME NEW c \in Chars, NEW e
    PROVE  Atom(c, e) \in AtomSet
BY DEF Atom, AtomSet

\* The atoms of a pattern, piece by piece.
LEMMA MarksType ==
    ASSUME NEW p \in Seq(Chars), NEW mode
    PROVE  /\ Marks(p, mode) \in [1..Len(p) -> Seq(AtomSet)]
           /\ Marks(p, mode) \in Seq(Seq(AtomSet)) /\ Len(Marks(p, mode)) = Len(p)
<1>1. Marks(p, mode) \in [1..Len(p) -> Seq(AtomSet)] /\ Len(p) \in Nat
  <2>1. ASSUME NEW i \in 1..Len(p)
        PROVE  /\ <<Atom(p[i], mode[i - 1] = "escaped")>> \in Seq(AtomSet)
               /\ <<>> \in Seq(AtomSet)
    <3>1. Atom(p[i], mode[i - 1] = "escaped") \in AtomSet
      BY AtomType
    <3> QED BY <3>1
  <2> HIDE DEF AtomSet
  <2> QED BY <2>1 DEF Marks
<1> QED BY <1>1, FunIsSeq

\* Patterns one after the other compile to their atoms one after the other.
LEMMA PatternConcat ==
    ASSUME NEW a \in Seq(Chars), NEW b \in Seq(Chars),
           NEW v \in Seq(AtomSet), NEW w \in Seq(AtomSet), PatternOf(v, a), PatternOf(w, b)
    PROVE  PatternOf(v \o w, a \o b)
<1> DEFINE A == Reading(a, "inside", {})
           B == Reading(b, "inside", {})
           m == Reading(a \o b, "inside", {})
<1>1. /\ A[Len(a)] = "inside" /\ B[Len(b)] = "inside"
      /\ \A i \in 1..Len(a) : A[i - 1] = "escaped" => a[i] \notin Letters
      /\ \A i \in 1..Len(b) : B[i - 1] = "escaped" => b[i] \notin Letters
      /\ FlattenSeq(Marks(a, A)) = v /\ FlattenSeq(Marks(b, B)) = w
  BY DEF PatternOf
<1>2. /\ \A i \in 0..Len(a) : m[i] = A[i]
      /\ \A i \in 0..Len(b) : m[Len(a) + i] = B[i]
  <2>1. "inside" \in Modes
    BY DEF Modes
  <2> QED BY <1>1, <2>1, ReadingConcat
<1>3. /\ Len(a) \in Nat /\ Len(b) \in Nat /\ Len(a \o b) = Len(a) + Len(b)
      /\ a \o b \in Seq(Chars)
      /\ \A i \in 1..Len(a) : (a \o b)[i] = a[i]
      /\ \A i \in 1..Len(b) : (a \o b)[Len(a) + i] = b[i]
  OBVIOUS
<1> HIDE DEF A, B, m
<1>4. ASSUME NEW i \in 1..Len(a \o b), m[i - 1] = "escaped"
      PROVE  (a \o b)[i] \notin Letters
  <2>1. CASE i <= Len(a)
    <3>1. i \in 1..Len(a) /\ i - 1 \in 0..Len(a)
      BY <1>3, <2>1
    <3>2. m[i - 1] = A[i - 1] /\ (a \o b)[i] = a[i]
      BY <1>2, <1>3, <3>1
    <3> QED BY <1>1, <1>4, <3>1, <3>2
  <2>2. CASE i > Len(a)
    <3> DEFINE j == i - Len(a)
    <3>1. j \in 1..Len(b) /\ i = Len(a) + j /\ i - 1 = Len(a) + (j - 1) /\ j - 1 \in 0..Len(b)
      BY <1>3, <2>2
    <3> HIDE DEF j
    <3>2. m[i - 1] = B[j - 1] /\ (a \o b)[i] = b[j]
      BY <1>2, <1>3, <3>1
    <3> QED BY <1>1, <1>4, <3>1, <3>2
  <2> QED BY <1>3, <2>1, <2>2
<1>5. FlattenSeq(Marks(a \o b, m)) = v \o w
  <2> DEFINE X == Marks(a, A)
             Y == Marks(b, B)
             W == Marks(a \o b, m)
  <2>1. /\ X \in Seq(Seq(AtomSet)) /\ Len(X) = Len(a)
        /\ Y \in Seq(Seq(AtomSet)) /\ Len(Y) = Len(b)
        /\ W \in [1..(Len(a) + Len(b)) -> Seq(AtomSet)]
    BY <1>3, MarksType, Zenon
  <2>2. ASSUME NEW i \in 1..Len(a) PROVE W[i] = X[i]
    <3>1. /\ i \in 1..Len(a \o b) /\ m[i] = A[i] /\ m[i - 1] = A[i - 1]
          /\ (a \o b)[i] = a[i]
      BY <1>2, <1>3
    <3> QED BY <3>1 DEF Marks
  <2>3. ASSUME NEW i \in 1..Len(b) PROVE W[Len(a) + i] = Y[i]
    <3>1. /\ Len(a) + i \in 1..Len(a \o b) /\ (Len(a) + i) - 1 = Len(a) + (i - 1)
          /\ i \in 0..Len(b) /\ i - 1 \in 0..Len(b)
      BY <1>3
    <3>2. /\ m[Len(a) + i] = B[i] /\ m[(Len(a) + i) - 1] = B[i - 1]
          /\ (a \o b)[Len(a) + i] = b[i]
      BY <1>2, <1>3, <3>1
    <3> QED BY <3>1, <3>2 DEF Marks
  <2> HIDE DEF X, Y, W, AtomSet
  <2>4. W \in [1..(Len(X) + Len(Y)) -> Seq(AtomSet)]
    BY <2>1
  <2>5. \A i \in 1..Len(X) : W[i] = X[i]
    BY <2>1, <2>2
  <2>6. \A i \in 1..Len(Y) : W[Len(X) + i] = Y[i]
    BY <2>1, <2>3
  <2>7. FlattenSeq(W) = FlattenSeq(X) \o FlattenSeq(Y)
    BY <2>1, <2>4, <2>5, <2>6, FlattenParts, ZenonT(30)
  <2> QED BY <1>1, <2>7 DEF X, Y, W
<1>6. m[Len(a \o b)] = "inside"
  BY <1>1, <1>2, <1>3
<1> QED BY <1>4, <1>5, <1>6 DEF PatternOf, m

\* A bar, a character without a meaning, and an escaped one.
LEMMA PatternChar ==
    ASSUME NEW c \in Chars
    PROVE  /\ PatternOf(<<>>, <<>>)
           /\ PatternOf(<<Bar>>, <<"|">>)
           /\ c \notin MetaChars => PatternOf(<<Literal(c)>>, <<c>>)
           /\ c \in MetaChars => PatternOf(<<Literal(c)>>, <<"\\", c>>)
<1>1. "inside" \in Modes
  BY DEF Modes
<1>2. FlattenSeq(<<>>) = <<>>
  BY DEF FlattenSeq
<1>3. PatternOf(<<>>, <<>>)
  <2> DEFINE m == Reading(<<>>, "inside", {})
  <2>1. Len(<<>>) = 0 /\ Len(<<>>) \in Nat
    OBVIOUS
  <2>2. m[0] = "inside"
    BY <1>1, <2>1, ReadingSteps
  <2> HIDE DEF m
  <2>3. Marks(<<>>, m) = <<>>
    BY DEF Marks
  <2> QED BY <1>2, <2>1, <2>2, <2>3 DEF PatternOf, m
<1>4. ASSUME NEW d \in Chars, d # "\\" PROVE PatternOf(<<Atom(d, FALSE)>>, <<d>>)
  <2> DEFINE s == <<d>>
             m == Reading(s, "inside", {})
             x == Atom(d, FALSE)
  <2>1. Len(s) = 1 /\ s[1] = d
    OBVIOUS
  <2> HIDE DEF s
  <2>2. m[0] = "inside" /\ m[1] = After(m[0], s[1], {})
    BY <1>1, <2>1, ReadingSteps
  <2> HIDE DEF m
  <2>3. m[1] = "inside"
    BY <1>4, <2>1, <2>2 DEF After
  <2>4. Marks(s, m) = <<<<x>>>>
    <3>1. (m[0] = "escaped") = FALSE
      BY <2>2
    <3>2. \A i \in 1..1 : i = 1 /\ i - 1 = 0
      OBVIOUS
    <3>3. Atom(s[1], m[0] = "escaped") = x
      BY <2>1, <3>1, Zenon
    <3> HIDE DEF x
    <3> QED BY <2>1, <2>3, <3>2, <3>3 DEF Marks
  <2>5. x \in AtomSet
    BY AtomType, Zenon
  <2> HIDE DEF x, AtomSet
  <2>6. FlattenSeq(<<<<x>>>>) = <<x>>
    <3>1. <<x>> \in Seq(AtomSet) /\ <<>> \in Seq(Seq(AtomSet))
      BY <2>5
    <3> QED BY <3>1, FlattenOne, Zenon
  <2>7. \A i \in 1..1 : m[i - 1] # "escaped"
    <3>1. \A i \in 1..1 : i - 1 = 0
      OBVIOUS
    <3> QED BY <2>2, <3>1
  <2> QED BY <2>1, <2>3, <2>4, <2>6, <2>7, Zenon DEF PatternOf, m, s, x
<1>5. ASSUME c \in MetaChars PROVE PatternOf(<<Atom(c, TRUE)>>, <<"\\", c>>)
  <2> DEFINE s == <<"\\", c>>
             m == Reading(s, "inside", {})
             x == Atom(c, TRUE)
  <2>1. Len(s) = 2 /\ s[1] = "\\" /\ s[2] = c
    OBVIOUS
  <2> HIDE DEF s
  <2>2. m[0] = "inside" /\ m[1] = After(m[0], s[1], {}) /\ m[2] = After(m[1], s[2], {})
    BY <1>1, <2>1, ReadingSteps
  <2> HIDE DEF m
  <2>3. m[1] = "escaped" /\ m[2] = "inside"
    BY <2>1, <2>2 DEF After
  <2>4. Marks(s, m) = <<<<>>, <<x>>>>
    <3>1. (m[1] = "escaped") = TRUE
      BY <2>3
    <3>2. Atom(s[2], m[1] = "escaped") = x
      BY <2>1, <3>1, Zenon
    <3>3. \A i \in 1..2 : (i = 1 /\ i - 1 = 0) \/ (i = 2 /\ i - 1 = 1)
      OBVIOUS
    <3> HIDE DEF x
    <3> QED BY <2>1, <2>3, <3>2, <3>3 DEF Marks
  <2>5. x \in AtomSet
    BY AtomType, Zenon
  <2> HIDE DEF x, AtomSet
  <2>6. FlattenSeq(<<<<>>, <<x>>>>) = <<x>>
    <3>1. /\ <<x>> \in Seq(AtomSet) /\ <<>> \in Seq(AtomSet) /\ <<<<x>>>> \in Seq(Seq(AtomSet))
          /\ <<<<>>, <<x>>>> = <<<<>>>> \o <<<<x>>>>
      BY <2>5
    <3>2. FlattenSeq(<<<<>>, <<x>>>>) = <<>> \o FlattenSeq(<<<<x>>>>)
      BY <3>1, FlattenOne, Zenon
    <3>3. FlattenSeq(<<<<x>>>>) = <<x>>
      BY <3>1, FlattenOne, Zenon
    <3> QED BY <3>2, <3>3
  <2>7. c \notin Letters
    BY <1>5 DEF MetaChars, Letters, LeftBrace, RightBrace
  <2>8. \A i \in 1..2 : m[i - 1] = "escaped" => s[i] \notin Letters
    <3>1. \A i \in 1..2 : (i = 1 /\ i - 1 = 0) \/ (i = 2 /\ i - 1 = 1)
      OBVIOUS
    <3> QED BY <2>1, <2>2, <2>7, <3>1
  <2> QED BY <2>1, <2>3, <2>4, <2>6, <2>8, Zenon DEF PatternOf, m, s, x
<1>6. "|" \in Chars /\ Atom("|", FALSE) = Bar
  BY DEF Chars, MetaChars, Atom, Bar
<1>7. Atom(c, TRUE) = Literal(c) /\ (c \notin MetaChars => Atom(c, FALSE) = Literal(c) /\ c # "\\")
  BY DEF Atom, Literal, MetaChars
<1> QED BY <1>3, <1>4, <1>5, <1>6, <1>7, Zenon

\* The characters of a value as atoms.
LEMMA LiteralsType ==
    ASSUME NEW w \in Seq(Chars)
    PROVE  /\ Literals(w) \in Seq(AtomSet) /\ Len(Literals(w)) = Len(w)
           /\ \A i \in 1..Len(w) : Literals(w)[i] = Literal(w[i]) /\ Literal(w[i]) \in AtomSet
<1>1. \A i \in 1..Len(w) : Literal(w[i]) \in AtomSet
  BY DEF Literal, AtomSet
<1> HIDE DEF AtomSet
<1>2. Literals(w) \in [1..Len(w) -> AtomSet] /\ Len(w) \in Nat
  BY <1>1 DEF Literals
<1>3. \A i \in 1..Len(w) : Literals(w)[i] = Literal(w[i])
  BY DEF Literals
<1> QED BY <1>1, <1>2, <1>3, FunIsSeq

\* The bar between two alternatives.
LEMMA BarType == <<Bar>> \in Seq(AtomSet) /\ <<"|">> \in Seq(Chars) /\ "|" \in Chars
<1>1. Bar \in AtomSet /\ "|" \in Chars
  BY DEF Bar, AtomSet, Chars, MetaChars
<1> QED BY <1>1

\* Pairs of atoms and a pattern that compiles to them.
Patterns == {p \in Seq(AtomSet) \X Seq(Chars) : PatternOf(p[1], p[2])}

\* Patterns next to each other are patterns.
LEMMA PatternsClosed ==
    /\ <<<<>>, <<>>>> \in Patterns
    /\ \A a, c \in Seq(AtomSet), b, d \in Seq(Chars) :
          <<a, b>> \in Patterns /\ <<c, d>> \in Patterns => <<a \o c, b \o d>> \in Patterns
<1>1. <<<<>>, <<>>>> \in Patterns
  <2>1. <<>> \in Seq(AtomSet) /\ <<>> \in Seq(Chars)
    OBVIOUS
  <2> QED BY <2>1, BarType, PatternChar, Zenon DEF Patterns
<1>2. ASSUME NEW a \in Seq(AtomSet), NEW c \in Seq(AtomSet), NEW b \in Seq(Chars), NEW d \in Seq(Chars),
             <<a, b>> \in Patterns, <<c, d>> \in Patterns
      PROVE  <<a \o c, b \o d>> \in Patterns
  <2>0. PatternOf(a, b) /\ PatternOf(c, d)
    BY <1>2 DEF Patterns
  <2>1. PatternOf(a \o c, b \o d)
    BY <2>0, PatternConcat
  <2>2. a \o c \in Seq(AtomSet) /\ b \o d \in Seq(Chars)
    OBVIOUS
  <2> QED BY <2>1, <2>2, Zenon DEF Patterns
<1> QED BY <1>1, <1>2, Zenon

\* An escaped value compiles to the value's characters as literals.
LEMMA QuoteMetaIsPattern ==
    ASSUME NEW w \in Seq(Chars)
    PROVE  QuoteMeta(w) \in Seq(Chars) /\ <<Literals(w), QuoteMeta(w)>> \in Patterns
<1> DEFINE v == Literals(w)
           s == [i \in DOMAIN v |-> <<v[i]>>]
           t == [i \in DOMAIN w |-> IF w[i] \in MetaChars THEN <<"\\", w[i]>> ELSE <<w[i]>>]
<1>1. DOMAIN w = 1..Len(w) /\ Len(w) \in Nat /\ \A i \in 1..Len(w) : w[i] \in Chars
  OBVIOUS
<1>2. "\\" \in Chars
  BY DEF Chars, MetaChars
<1>3. v \in Seq(AtomSet) /\ DOMAIN v = 1..Len(w) /\ \A i \in 1..Len(w) : v[i] = Literal(w[i]) /\ v[i] \in AtomSet
  BY LiteralsType
<1> HIDE DEF v
<1>4. s \in [1..Len(w) -> Seq(AtomSet)] /\ t \in [1..Len(w) -> Seq(Chars)]
  <2>1. \A i \in 1..Len(w) : <<w[i]>> \in Seq(Chars) /\ <<"\\", w[i]>> \in Seq(Chars)
    BY <1>1, <1>2
  <2>2. \A i \in 1..Len(w) : <<v[i]>> \in Seq(AtomSet)
    BY <1>3
  <2> QED BY <1>1, <1>3, <2>1, <2>2
<1>5. ASSUME NEW i \in 1..Len(w) PROVE <<s[i], t[i]>> \in Patterns
  <2>1. PatternOf(s[i], t[i])
    <3>1. s[i] = <<Literal(w[i])>> /\ t[i] = IF w[i] \in MetaChars THEN <<"\\", w[i]>> ELSE <<w[i]>>
      BY <1>1, <1>3
    <3> QED BY <1>1, <3>1, PatternChar, Zenon
  <2>2. s[i] \in Seq(AtomSet) /\ t[i] \in Seq(Chars)
    BY <1>4
  <2> HIDE DEF s, t
  <2> QED BY <2>1, <2>2 DEF Patterns
<1>6. FlattenSeq(t) = QuoteMeta(w) /\ FlattenSeq(s) = v
  BY <1>3, FlattenSingles DEF Escape, QuoteMeta
<1> HIDE DEF s, t
<1>7. /\ s \in Seq(Seq(AtomSet)) /\ t \in Seq(Seq(Chars)) /\ Len(s) = Len(w) /\ Len(t) = Len(w)
  BY <1>1, <1>4, FunIsSeq
<1>8. <<FlattenSeq(s), FlattenSeq(t)>> \in Patterns
  BY <1>5, <1>7, PatternsClosed, FlattenPair, Zenon
<1> QED BY <1>6, <1>8 DEF v, Patterns

LiteralsOf(values) == [i \in 1..Len(values) |-> Literals(values[i])]

\* The alternation of values compiles to their literals with bars between them.
LEMMA AlternationIsPattern ==
    ASSUME NEW values \in Seq(Seq(Chars))
    PROVE  /\ LiteralsOf(values) \in Seq(Seq(AtomSet)) /\ Len(LiteralsOf(values)) = Len(values)
           /\ Alternation(values) \in Seq(Chars)
           /\ PatternOf(Join(LiteralsOf(values), <<Bar>>), Alternation(values))
<1> DEFINE n == Len(values)
           L == LiteralsOf(values)
           T == [i \in DOMAIN values |-> QuoteMeta(values[i])]
           s == Pieces(L, <<Bar>>)
           t == Pieces(T, <<"|">>)
<1>1. n \in Nat /\ DOMAIN values = 1..n /\ \A i \in 1..n : values[i] \in Seq(Chars)
  OBVIOUS
<1>2. ASSUME NEW i \in 1..n
      PROVE  /\ Literals(values[i]) \in Seq(AtomSet) /\ QuoteMeta(values[i]) \in Seq(Chars)
             /\ <<Literals(values[i]), QuoteMeta(values[i])>> \in Patterns
  BY <1>1, LiteralsType, QuoteMetaIsPattern
<1>3. L \in [1..n -> Seq(AtomSet)] /\ T \in [1..n -> Seq(Chars)]
  BY <1>1, <1>2, Zenon DEF LiteralsOf
<1>4. \A i \in 1..n : L[i] = Literals(values[i]) /\ T[i] = QuoteMeta(values[i])
  BY <1>1 DEF LiteralsOf
<1>5. Alternation(values) = Join(T, <<"|">>)
  BY DEF Alternation
<1> HIDE DEF L, T
<1>6. /\ L \in Seq(Seq(AtomSet)) /\ Len(L) = n /\ DOMAIN L = 1..n
      /\ T \in Seq(Seq(Chars)) /\ Len(T) = n /\ DOMAIN T = 1..n
  BY <1>1, <1>3, FunIsSeq, Zenon
<1>7. /\ s \in Seq(Seq(AtomSet)) /\ Len(s) = n /\ Join(L, <<Bar>>) = FlattenSeq(s)
      /\ Join(L, <<Bar>>) \in Seq(AtomSet)
  BY <1>6, BarType, PiecesType, Zenon
<1>8. /\ t \in Seq(Seq(Chars)) /\ Len(t) = n /\ Join(T, <<"|">>) = FlattenSeq(t)
      /\ Join(T, <<"|">>) \in Seq(Chars)
  BY <1>6, BarType, PiecesType, Zenon
<1>9. <<<<Bar>>, <<"|">>>> \in Patterns
  BY BarType, PatternChar, Zenon DEF Patterns
<1>10. ASSUME NEW i \in 1..n PROVE <<s[i], t[i]>> \in Patterns
  <2>1. <<L[i], T[i]>> \in Patterns /\ L[i] \in Seq(AtomSet) /\ T[i] \in Seq(Chars)
    BY <1>2, <1>4
  <2>2. <<<<Bar>> \o L[i], <<"|">> \o T[i]>> \in Patterns
    BY <1>9, <2>1, BarType, PatternsClosed, Zenon
  <2>3. /\ s[i] = IF i = 1 THEN L[i] ELSE <<Bar>> \o L[i]
        /\ t[i] = IF i = 1 THEN T[i] ELSE <<"|">> \o T[i]
    BY <1>6 DEF Pieces
  <2> QED BY <2>1, <2>2, <2>3, Zenon
<1> HIDE DEF s, t
<1>11. <<FlattenSeq(s), FlattenSeq(t)>> \in Patterns
  BY <1>7, <1>8, <1>10, PatternsClosed, FlattenPair, Zenon
<1>12. PatternOf(FlattenSeq(s), FlattenSeq(t))
  BY <1>11 DEF Patterns
<1> QED BY <1>5, <1>6, <1>7, <1>8, <1>12 DEF L

\* A pattern compiles to the alternatives of its atoms.
LEMMA CompilePattern ==
    ASSUME NEW p \in Seq(Chars), NEW atoms, PatternOf(atoms, p)
    PROVE  Compile(p) = {Alternatives(atoms)}
<1> DEFINE mode == Reading(p, "inside", {})
           isError == \/ mode[Len(p)] = "escaped"
                      \/ \E i \in DOMAIN p : mode[i - 1] = "escaped" /\ p[i] \in Letters
           marks == [i \in DOMAIN p |-> IF mode[i] = "escaped" THEN <<>>
                                        ELSE <<Atom(p[i], mode[i - 1] = "escaped")>>]
<1>1. DOMAIN p = 1..Len(p)
  OBVIOUS
<1>2. marks = Marks(p, mode)
  BY <1>1 DEF Marks
<1>3. ~isError /\ FlattenSeq(marks) = atoms
  BY <1>1, <1>2, Zenon DEF PatternOf
<1>4. Atoms(p) = IF isError THEN {} ELSE {FlattenSeq(marks)}
  BY DEF Atoms
<1> HIDE DEF isError, marks, mode
<1>5. Atoms(p) = {atoms}
  BY <1>3, <1>4
<1> QED BY <1>5 DEF Compile

\* The places where the alternatives of a pattern end and begin.
Cuts(atoms) == {0, Len(atoms) + 1} \cup {i \in DOMAIN atoms : atoms[i].kind = "bar"}

Neighbours(cuts, i, j) == i < j /\ \A k \in cuts : ~(i < k /\ k < j)

\* The alternatives lie between neighbouring bars.
LEMMA AlternativesIff ==
    ASSUME NEW atoms, NEW x
    PROVE  x \in Alternatives(atoms) <=>
             \E i, j \in Cuts(atoms) : Neighbours(Cuts(atoms), i, j) /\ x = SubSeq(atoms, i + 1, j - 1)
<1> DEFINE cuts == Cuts(atoms)
           next(i) == {j \in cuts : i < j /\ \A k \in cuts : ~(i < k /\ k < j)}
           piece(i, j) == SubSeq(atoms, i + 1, j - 1)
           R1(i) == {piece(i, j) : j \in next(i)}
<1>1. Alternatives(atoms) = UNION {R1(i) : i \in cuts}
  BY Zenon DEF Alternatives, Cuts
<1>2. \A i, j : j \in next(i) <=> j \in cuts /\ Neighbours(cuts, i, j)
  BY Zenon DEF Neighbours
<1>3. \A i : x \in R1(i) <=> \E j \in next(i) : x = piece(i, j)
  <2> HIDE DEF next, piece
  <2> QED BY Zenon
<1>4. x \in Alternatives(atoms) <=> \E i \in cuts : x \in R1(i)
  <2> HIDE DEF R1, cuts
  <2> QED BY <1>1, Zenon
<1> HIDE DEF R1, cuts, next, piece
<1>5. x \in Alternatives(atoms) <=> \E i, j \in cuts : Neighbours(cuts, i, j) /\ x = piece(i, j)
  BY <1>2, <1>3, <1>4, Zenon
<1> QED BY <1>5 DEF cuts, piece

\* Atoms without a bar.
Barless == {b \in Seq(AtomSet) : \A i \in 1..Len(b) : b[i].kind # "bar"}

\* Atoms without a bar are one alternative.
LEMMA OneAlternative ==
    ASSUME NEW b \in Barless, NEW x
    PROVE  x \in Alternatives(b) <=> x = b
<1>1. b \in Seq(AtomSet) /\ Len(b) \in Nat /\ DOMAIN b = 1..Len(b)
      /\ \A i \in 1..Len(b) : b[i].kind # "bar"
  BY DEF Barless
<1>2. Cuts(b) = {0, Len(b) + 1}
  BY <1>1 DEF Cuts
<1>3. \A i, j \in Cuts(b) : Neighbours(Cuts(b), i, j) <=> i = 0 /\ j = Len(b) + 1
  BY <1>1, <1>2 DEF Neighbours
<1>4. 0 + 1 = 1 /\ (Len(b) + 1) - 1 = Len(b) /\ SubSeq(b, 1, Len(b)) = b
  BY <1>1, SubSeqFull
<1>5. SubSeq(b, 0 + 1, (Len(b) + 1) - 1) = b
  BY <1>4
<1>6. x \in Alternatives(b) <=>
        \E i, j \in Cuts(b) : Neighbours(Cuts(b), i, j) /\ x = SubSeq(b, i + 1, j - 1)
  BY AlternativesIff
<1>7. 0 \in Cuts(b) /\ Len(b) + 1 \in Cuts(b)
  BY <1>2
<1> QED BY <1>3, <1>5, <1>6, <1>7

\* A bar and atoms without one are one alternative more.
LEMMA OneMoreAlternative ==
    ASSUME NEW a \in Seq(AtomSet), NEW b \in Barless, NEW x
    PROVE  x \in Alternatives(Cat(a, Cat(<<Bar>>, b))) <=> x \in Alternatives(a) \/ x = b
<1> DEFINE c == <<Bar>> \o b
           s == a \o c
           p == Len(a) + 1
           N == Len(s) + 1
<1>1. b \in Seq(AtomSet) /\ Len(b) \in Nat /\ \A i \in 1..Len(b) : b[i].kind # "bar"
  BY DEF Barless
<1>2. c \in Seq(AtomSet) /\ Len(c) = 1 + Len(b) /\ c[1] = Bar /\ \A i \in 1..Len(b) : c[1 + i] = b[i]
  <2>1. PICK y \in Seq(AtomSet) : y = <<Bar>>
    BY BarType, Zenon
  <2>2. Len(y) = 1 /\ y[1] = Bar /\ y # <<>>
    BY <2>1
  <2>3. y \o b \in Seq(AtomSet) /\ Len(y \o b) = Len(y) + Len(b)
        /\ \A i \in 1..Len(b) : (y \o b)[Len(y) + i] = b[i]
    BY <1>1
  <2>4. (y \o b)[1] = y[1]
    BY <1>1, <2>2, ConcatEnds
  <2> QED BY <2>1, <2>2, <2>3, <2>4
<1> HIDE DEF c
<1>3. /\ s \in Seq(AtomSet) /\ Len(s) = Len(a) + Len(c) /\ Len(a) \in Nat
      /\ \A i \in 1..Len(a) : s[i] = a[i]
      /\ \A i \in 1..Len(c) : s[Len(a) + i] = c[i]
  <2>1. c \in Seq(AtomSet)
    BY <1>2
  <2> QED BY <2>1
<1> HIDE DEF s
<1>4. /\ p \in Nat /\ N \in Nat /\ N = p + Len(b) + 1 /\ p < N
      /\ s[p] = Bar /\ \A i \in 1..Len(b) : s[p + i] = b[i]
  <2>1. N = p + Len(b) + 1
    BY <1>1, <1>2, <1>3
  <2>2. s[p] = Bar
    <3>1. 1 \in 1..Len(c)
      BY <1>1, <1>2
    <3> QED BY <1>2, <1>3, <3>1
  <2>3. ASSUME NEW i \in 1..Len(b) PROVE s[p + i] = b[i]
    <3>1. 1 + i \in 1..Len(c) /\ p + i = Len(a) + (1 + i)
      BY <1>1, <1>2, <1>3
    <3> QED BY <1>2, <1>3, <3>1
  <2> QED BY <1>1, <1>3, <2>1, <2>2, <2>3
<1>5. Bar.kind = "bar"
  BY DEF Bar
<1>6. ASSUME NEW k PROVE k \in Cuts(s) <=> k \in Cuts(a) \/ k = N
  <2>1. k \in Cuts(s) <=> k = 0 \/ k = N \/ (k \in 1..Len(s) /\ s[k].kind = "bar")
    BY <1>3 DEF Cuts
  <2>2. k \in Cuts(a) <=> k = 0 \/ k = p \/ (k \in 1..Len(a) /\ a[k].kind = "bar")
    BY DEF Cuts
  <2>3. k \in 1..Len(s) <=> k \in 1..Len(a) \/ k = p \/ k \in (p + 1)..(p + Len(b))
    BY <1>1, <1>3, <1>4
  <2>4. ASSUME k \in (p + 1)..(p + Len(b)) PROVE s[k].kind # "bar"
    <3>1. k - p \in 1..Len(b) /\ k = p + (k - p)
      BY <1>1, <1>4, <2>4
    <3> QED BY <1>1, <1>4, <3>1, Zenon
  <2>5. k \in 1..Len(a) => s[k] = a[k]
    BY <1>3
  <2> HIDE DEF p, N
  <2> QED BY <1>4, <1>5, <2>1, <2>2, <2>3, <2>4, <2>5
<1>7. p \in Cuts(a) /\ \A k \in Cuts(a) : k \in Nat /\ k <= p
  BY <1>3 DEF Cuts
<1>8. ASSUME NEW i \in Cuts(s), NEW j \in Cuts(s)
      PROVE  Neighbours(Cuts(s), i, j) <=>
               \/ i \in Cuts(a) /\ j \in Cuts(a) /\ Neighbours(Cuts(a), i, j)
               \/ i = p /\ j = N
  <2> HIDE DEF p, N
  <2>1. p \in Nat /\ N \in Nat /\ p < N
    BY <1>4
  <2>2. \A k \in Cuts(s) : k \in Nat /\ (k \in Cuts(a) \/ k = N)
    BY <1>6, <1>7, <2>1
  <2>3. \A k \in Cuts(a) : k \in Cuts(s) /\ k \in Nat /\ k <= p
    BY <1>6, <1>7
  <2>4. CASE i = N
    <3>1. ~(i < j) /\ i # p /\ i \notin Cuts(a)
      BY <2>1, <2>2, <2>3, <2>4
    <3> QED BY <3>1 DEF Neighbours
  <2>5. CASE i \in Cuts(a) /\ j = N
    <3>1. j \notin Cuts(a) /\ i \in Nat /\ i <= p /\ i < j
      BY <2>1, <2>3, <2>5
    <3>2. i = p => Neighbours(Cuts(s), i, j)
      <4> SUFFICES ASSUME i = p, NEW k \in Cuts(s) PROVE ~(i < k /\ k < j)
        BY <3>1 DEF Neighbours
      <4>1. k = N \/ k <= p
        BY <2>2, <2>3
      <4>2. k \in Nat
        BY <2>2
      <4> QED BY <2>1, <2>5, <4>1, <4>2
    <3>3. i # p => ~Neighbours(Cuts(s), i, j)
      <4>1. p \in Cuts(s)
        BY <1>7, <2>3
      <4>2. i # p => i < p /\ p < j
        BY <2>1, <2>5, <3>1
      <4> QED BY <4>1, <4>2 DEF Neighbours
    <3> QED BY <2>5, <3>1, <3>2, <3>3
  <2>6. CASE i \in Cuts(a) /\ j \in Cuts(a)
    <3>1. j # N /\ ~(N < j)
      BY <2>1, <2>3, <2>6
    <3>2. (\A k \in Cuts(s) : ~(i < k /\ k < j)) <=> \A k \in Cuts(a) : ~(i < k /\ k < j)
      BY <2>2, <2>3, <3>1
    <3> QED BY <2>6, <3>1, <3>2 DEF Neighbours
  <2> QED BY <2>2, <2>4, <2>5, <2>6
<1>9. ASSUME NEW i \in Cuts(a), NEW j \in Cuts(a), i < j
      PROVE  SubSeq(s, i + 1, j - 1) = SubSeq(a, i + 1, j - 1)
  <2>1. i \in Nat /\ j \in Nat /\ j - 1 <= Len(a) /\ i + 1 >= 1
    BY <1>3, <1>7
  <2>2. \A k \in (i + 1)..(j - 1) : k \in 1..Len(a) /\ s[k] = a[k] /\ a[k] \in AtomSet /\ s[k] \in AtomSet
    <3> SUFFICES ASSUME NEW k \in (i + 1)..(j - 1)
                 PROVE  k \in 1..Len(a) /\ s[k] = a[k] /\ a[k] \in AtomSet
      OBVIOUS
    <3>1. k \in 1..Len(a)
      BY <1>3, <2>1
    <3> QED BY <1>3, <3>1
  <2> HIDE DEF AtomSet
  <2> DEFINE u == SubSeq(s, i + 1, j - 1)
             w == SubSeq(a, i + 1, j - 1)
             n == (j - 1) - (i + 1) + 1
  <2>3. i + 1 \in Int /\ j - 1 \in Int
    BY <2>1
  <2>4. /\ u \in Seq(AtomSet) /\ Len(u) = IF i + 1 <= j - 1 THEN n ELSE 0
        /\ \A k \in 1..n : u[k] = s[(i + 1) + k - 1]
    BY <2>2, <2>3, SubSeqProperties
  <2>5. /\ w \in Seq(AtomSet) /\ Len(w) = IF i + 1 <= j - 1 THEN n ELSE 0
        /\ \A k \in 1..n : w[k] = a[(i + 1) + k - 1]
    BY <2>2, <2>3, SubSeqProperties
  <2> HIDE DEF u, w
  <2>6. Len(u) = n /\ Len(w) = n
    BY <1>9, <2>1, <2>4, <2>5
  <2>7. ASSUME NEW k \in 1..Len(u) PROVE u[k] = w[k]
    <3>1. k \in 1..n /\ (i + 1) + k - 1 \in (i + 1)..(j - 1)
      BY <2>1, <2>6
    <3> QED BY <2>2, <2>4, <2>5, <3>1
  <2>8. u = w
    BY <2>4, <2>5, <2>6, <2>7, SeqEqual
  <2> QED BY <2>8, Zenon DEF u, w
<1>10. SubSeq(s, p + 1, N - 1) = b
  <2>1. p + 1 \in Int /\ N - 1 \in Int /\ N - 1 = p + Len(b)
    BY <1>1, <1>4
  <2>2. \A k \in (p + 1)..(N - 1) : s[k] \in AtomSet
    BY <1>1, <1>3, <1>4
  <2> HIDE DEF AtomSet, p, N
  <2> DEFINE u == SubSeq(s, p + 1, N - 1)
             n == (N - 1) - (p + 1) + 1
  <2>3. /\ u \in Seq(AtomSet) /\ Len(u) = IF p + 1 <= N - 1 THEN n ELSE 0
        /\ \A k \in 1..n : u[k] = s[(p + 1) + k - 1]
    BY <2>1, <2>2, SubSeqProperties
  <2>4. n = Len(b) /\ \A k \in 1..n : (p + 1) + k - 1 = p + k
    BY <1>1, <1>4, <2>1
  <2>5. Len(u) = Len(b)
    BY <1>1, <1>4, <2>1, <2>3, <2>4
  <2> HIDE DEF u
  <2>6. \A k \in 1..Len(u) : u[k] = b[k]
    BY <1>4, <2>3, <2>4, <2>5, Zenon
  <2>7. u = b
    BY <1>1, <2>3, <2>5, <2>6, SeqEqual
  <2> QED BY <2>7 DEF u
<1>11. x \in Alternatives(s) <=>
         \E i, j \in Cuts(s) : Neighbours(Cuts(s), i, j) /\ x = SubSeq(s, i + 1, j - 1)
  BY AlternativesIff
<1>12. x \in Alternatives(a) <=>
         \E i, j \in Cuts(a) : Neighbours(Cuts(a), i, j) /\ x = SubSeq(a, i + 1, j - 1)
  BY AlternativesIff
<1>13. \A i, j : Neighbours(Cuts(a), i, j) => i < j
  BY DEF Neighbours
<1> HIDE DEF p, N
<1>14. x \in Alternatives(s) => x \in Alternatives(a) \/ x = b
  <2> SUFFICES ASSUME x \in Alternatives(s) PROVE x \in Alternatives(a) \/ x = b
    OBVIOUS
  <2>1. PICK i, j \in Cuts(s) : Neighbours(Cuts(s), i, j) /\ x = SubSeq(s, i + 1, j - 1)
    BY <1>11
  <2>2. CASE i = p /\ j = N
    BY <1>10, <2>1, <2>2
  <2>3. CASE i \in Cuts(a) /\ j \in Cuts(a) /\ Neighbours(Cuts(a), i, j)
    <3>1. x = SubSeq(a, i + 1, j - 1)
      BY <1>9, <1>13, <2>1, <2>3, Zenon
    <3> QED BY <1>12, <2>3, <3>1, Zenon
  <2> QED BY <1>8, <2>1, <2>2, <2>3
<1>15. x \in Alternatives(a) => x \in Alternatives(s)
  <2> SUFFICES ASSUME x \in Alternatives(a) PROVE x \in Alternatives(s)
    OBVIOUS
  <2>1. PICK i, j \in Cuts(a) : Neighbours(Cuts(a), i, j) /\ x = SubSeq(a, i + 1, j - 1)
    BY <1>12
  <2>2. i \in Cuts(s) /\ j \in Cuts(s) /\ i < j
    BY <1>6, <1>13, <2>1
  <2>3. Neighbours(Cuts(s), i, j) /\ x = SubSeq(s, i + 1, j - 1)
    BY <1>8, <1>9, <2>1, <2>2, Zenon
  <2> QED BY <1>11, <2>2, <2>3, Zenon
<1>16. x = b => x \in Alternatives(s)
  <2>1. p \in Cuts(s) /\ N \in Cuts(s)
    BY <1>6, <1>7
  <2>2. Neighbours(Cuts(s), p, N)
    BY <1>8, <2>1
  <2> QED BY <1>10, <1>11, <2>1, <2>2
<1>17. Cat(a, Cat(<<Bar>>, b)) = s
  BY DEF Cat, s, c
<1> QED BY <1>14, <1>15, <1>16, <1>17

\* The literals of a value match that value only.
LEMMA SpellsLiterals ==
    ASSUME NEW w \in Seq(Chars), NEW v \in Seq(Chars)
    PROVE  /\ Literals(w) \in Barless
           /\ Spells(Literals(w), v) <=> w = v
           /\ \A u \in Seq(Chars) : Literals(w) = Literals(u) => w = u
<1>1. /\ Literals(w) \in Seq(AtomSet) /\ Len(Literals(w)) = Len(w)
      /\ \A i \in 1..Len(w) : Literals(w)[i] = Literal(w[i])
  BY LiteralsType
<1>2. \A c : Literal(c).kind = "literal" /\ Literal(c).char = c
  BY DEF Literal
<1>3. Literals(w) \in Barless
  BY <1>1, <1>2 DEF Barless
<1>4. Spells(Literals(w), v) <=> Len(w) = Len(v) /\ \A i \in 1..Len(v) : w[i] = v[i]
  <2>1. DOMAIN v = 1..Len(v)
    OBVIOUS
  <2> QED BY <1>1, <1>2, <2>1 DEF Spells
<1>5. (Len(w) = Len(v) /\ \A i \in 1..Len(v) : w[i] = v[i]) <=> w = v
  <2>1. ASSUME Len(w) = Len(v), \A i \in 1..Len(v) : w[i] = v[i] PROVE w = v
    BY <2>1, SeqEqual
  <2> QED BY <2>1
<1>6. ASSUME NEW u \in Seq(Chars), Literals(w) = Literals(u) PROVE w = u
  <2>1. /\ Len(Literals(u)) = Len(u)
        /\ \A i \in 1..Len(u) : Literals(u)[i] = Literal(u[i])
    BY LiteralsType
  <2>2. Len(w) = Len(u) /\ \A i \in 1..Len(w) : Literal(w[i]) = Literal(u[i])
    BY <1>1, <1>6, <2>1
  <2>3. \A i \in 1..Len(w) : w[i] = u[i]
    BY <1>2, <2>2
  <2> QED BY <2>2, <2>3, SeqEqual
<1> QED BY <1>3, <1>4, <1>5, <1>6

\* The alternatives of an alternation are its values' literals.
LEMMA AlternativesOfJoin ==
    ASSUME NEW values \in Seq(Seq(Chars)), values # <<>>, NEW x
    PROVE  x \in Alternatives(Join(LiteralsOf(values), <<Bar>>))
             <=> \E i \in 1..Len(values) : x = Literals(values[i])
<1> DEFINE alts(vs) == Alternatives(Join(LiteralsOf(vs), <<Bar>>))
           P == {vs \in Seq(Seq(Chars)) :
                   vs # <<>> => (x \in alts(vs) <=> \E i \in 1..Len(vs) : x = Literals(vs[i]))}
<1>1. <<>> \in P
  OBVIOUS
<1>2. ASSUME NEW vs \in Seq(Seq(Chars)), NEW w \in Seq(Chars), vs \in P PROVE Append(vs, w) \in P
  <2> DEFINE ws == Append(vs, w)
             L == LiteralsOf(vs)
             y == Literals(w)
  <2>1. /\ L \in Seq(Seq(AtomSet)) /\ Len(L) = Len(vs) /\ Len(vs) \in Nat
        /\ \A i \in 1..Len(vs) : L[i] = Literals(vs[i])
    <3>1. L \in Seq(Seq(AtomSet)) /\ Len(L) = Len(vs)
      BY AlternationIsPattern
    <3>2. \A i \in 1..Len(vs) : L[i] = Literals(vs[i])
      BY DEF LiteralsOf
    <3>3. Len(vs) \in Nat
      OBVIOUS
    <3> QED BY <3>1, <3>2, <3>3
  <2>2. y \in Seq(AtomSet) /\ y \in Barless
    BY LiteralsType, SpellsLiterals
  <2>3. /\ ws \in Seq(Seq(Chars)) /\ Len(ws) = Len(vs) + 1
        /\ \A i \in 1..Len(vs) : ws[i] = vs[i]
        /\ ws[Len(vs) + 1] = w
    BY AppendProperties
  <2>4. /\ LiteralsOf(ws) \in Seq(Seq(AtomSet)) /\ Len(LiteralsOf(ws)) = Len(ws)
        /\ \A i \in 1..Len(ws) : LiteralsOf(ws)[i] = Literals(ws[i])
    <3> HIDE DEF ws
    <3> QED BY <2>3, AlternationIsPattern, Zenon DEF LiteralsOf
  <2> HIDE DEF L, ws, y, AtomSet
  <2>5. LiteralsOf(ws) = Append(L, y)
    <3>1. /\ Append(L, y) \in Seq(Seq(AtomSet)) /\ Len(Append(L, y)) = Len(L) + 1
          /\ \A i \in 1..Len(L) : Append(L, y)[i] = L[i]
          /\ Append(L, y)[Len(L) + 1] = y
      BY <2>1, <2>2, AppendProperties
    <3> DEFINE A == Append(L, y)
               B == LiteralsOf(ws)
    <3>2. Len(A) = Len(B) /\ \A i \in 1..Len(A) : A[i] = B[i]
      <4>1. ASSUME NEW i \in 1..Len(A) PROVE A[i] = B[i]
        <5>1. CASE i = Len(vs) + 1
          BY <2>1, <2>3, <2>4, <3>1, <5>1 DEF y
        <5>2. CASE i \in 1..Len(vs)
          BY <2>1, <2>3, <2>4, <3>1, <5>2, Zenon
        <5>3. Len(A) = Len(vs) + 1 /\ Len(vs) \in Nat
          BY <2>1, <3>1
        <5> HIDE DEF A, B
        <5> QED BY <5>1, <5>2, <5>3
      <4> QED BY <2>1, <2>3, <2>4, <3>1, <4>1
    <3> HIDE DEF A, B
    <3>3. A \in Seq(Seq(AtomSet)) /\ B \in Seq(Seq(AtomSet))
      BY <2>4, <3>1 DEF A, B
    <3>4. A = B
      BY <3>2, <3>3, SeqEqual
    <3> QED BY <3>4 DEF A, B
  <2>6. Join(Append(L, y), <<Bar>>) =
          IF L = <<>> THEN y ELSE Cat(Join(L, <<Bar>>), Cat(<<Bar>>, y))
    <3>1. PICK sep \in Seq(AtomSet) : sep = <<Bar>>
      BY BarType, Zenon
    <3>2. L \in Seq(Seq(AtomSet)) /\ y \in Seq(AtomSet)
      BY <2>1, <2>2
    <3>3. Join(Append(L, y), sep) = IF L = <<>> THEN y ELSE Cat(Join(L, sep), Cat(sep, y))
      BY <3>2, JoinAppend
    <3> QED BY <3>1, <3>3
  <2>7. Join(L, <<Bar>>) \in Seq(AtomSet)
    BY <2>1, BarType, PiecesType, Zenon
  <2>8. x \in alts(ws) <=> \E i \in 1..Len(ws) : x = Literals(ws[i])
    <3>1. CASE vs = <<>>
      <4>1. L = <<>> /\ Len(ws) = 1 /\ ws[1] = w
        BY <2>1, <2>3, <3>1
      <4>2. alts(ws) = Alternatives(y)
        BY <2>5, <2>6, <4>1
      <4>3. x \in Alternatives(y) <=> x = y
        BY <2>2, OneAlternative
      <4> QED BY <4>1, <4>2, <4>3 DEF y
    <3>2. CASE vs # <<>>
      <4>1. L # <<>>
        BY <2>1, <3>2
      <4>2. alts(ws) = Alternatives(Cat(Join(L, <<Bar>>), Cat(<<Bar>>, y)))
        BY <2>5, <2>6, <4>1
      <4>3. x \in alts(ws) <=> x \in Alternatives(Join(L, <<Bar>>)) \/ x = y
        BY <2>2, <2>7, <4>2, OneMoreAlternative
      <4>4. x \in Alternatives(Join(L, <<Bar>>)) <=> \E i \in 1..Len(vs) : x = Literals(vs[i])
        BY <1>2, <3>2 DEF L
      <4> HIDE DEF alts
      <4>5. (\E i \in 1..Len(ws) : x = Literals(ws[i]))
              <=> (\E i \in 1..Len(vs) : x = Literals(vs[i])) \/ x = Literals(w)
        <5>1. \A i \in 1..Len(ws) : i \in 1..Len(vs) \/ i = Len(vs) + 1
          BY <2>1, <2>3
        <5>2. Len(vs) + 1 \in 1..Len(ws) /\ \A i \in 1..Len(vs) : i \in 1..Len(ws)
          BY <2>1, <2>3
        <5> QED BY <2>3, <5>1, <5>2
      <4> QED BY <4>3, <4>4, <4>5 DEF y
    <3> QED BY <3>1, <3>2
  <2> QED BY <2>3, <2>8, Zenon DEF ws
<1>3. \A vs \in Seq(Seq(Chars)) : vs \in P
  <2> HIDE DEF P
  <2> QED BY <1>1, <1>2, SeqInduction
<1> QED BY <1>3, Zenon

\* The alternation of values compiles, and matches these values and no others.
LEMMA AlternationMatches ==
    ASSUME NEW values \in Seq(Seq(Chars)), values # <<>>
    PROVE  /\ Alternation(values) \in Seq(Chars) /\ Compile(Alternation(values)) # {}
           /\ \A v \in Seq(Chars) :
                AnchoredMatch(Alternation(values), v) <=> \E i \in 1..Len(values) : values[i] = v
<1> DEFINE p == Alternation(values)
           atoms == Join(LiteralsOf(values), <<Bar>>)
<1>1. p \in Seq(Chars) /\ PatternOf(atoms, p)
  BY AlternationIsPattern, Zenon
<1>2. Compile(p) = {Alternatives(atoms)}
  BY <1>1, CompilePattern
<1>3. \A x : x \in Alternatives(atoms) <=> \E i \in 1..Len(values) : x = Literals(values[i])
  BY AlternativesOfJoin, Zenon
<1> HIDE DEF p, atoms
<1>4. ASSUME NEW v \in Seq(Chars)
      PROVE  AnchoredMatch(p, v) <=> \E i \in 1..Len(values) : values[i] = v
  <2>1. AnchoredMatch(p, v) <=> \E x \in Alternatives(atoms) : Spells(x, v)
    BY <1>2 DEF AnchoredMatch
  <2>2. ASSUME NEW i \in 1..Len(values) PROVE Spells(Literals(values[i]), v) <=> values[i] = v
    <3>1. values[i] \in Seq(Chars)
      OBVIOUS
    <3> QED BY <3>1, SpellsLiterals
  <2> QED BY <1>3, <2>1, <2>2
<1> QED BY <1>1, <1>2, <1>4 DEF p

\* x is an element of the sequence s.
Holds(s, x) == \E i \in 1..Len(s) : s[i] = x

\* The values of two lists put together.
LEMMA HoldsConcat ==
    ASSUME NEW S, NEW a \in Seq(S), NEW b \in Seq(S), NEW x
    PROVE  Holds(a \o b, x) <=> Holds(a, x) \/ Holds(b, x)
<1>1. /\ Len(a) \in Nat /\ Len(b) \in Nat /\ Len(a \o b) = Len(a) + Len(b)
      /\ \A i \in 1..Len(a) : (a \o b)[i] = a[i]
      /\ \A i \in 1..Len(b) : (a \o b)[Len(a) + i] = b[i]
  OBVIOUS
<1>2. ASSUME Holds(a \o b, x) PROVE Holds(a, x) \/ Holds(b, x)
  <2>1. PICK i \in 1..Len(a \o b) : (a \o b)[i] = x
    BY <1>2 DEF Holds
  <2>2. CASE i <= Len(a)
    <3>1. i \in 1..Len(a) /\ a[i] = x
      BY <1>1, <2>1, <2>2
    <3> QED BY <3>1 DEF Holds
  <2>3. CASE i > Len(a)
    <3> DEFINE j == i - Len(a)
    <3>1. j \in 1..Len(b) /\ i = Len(a) + j
      BY <1>1, <2>3
    <3> HIDE DEF j
    <3>2. b[j] = x
      BY <1>1, <2>1, <3>1
    <3> QED BY <3>1, <3>2 DEF Holds
  <2> QED BY <1>1, <2>2, <2>3
<1>3. ASSUME Holds(a, x) PROVE Holds(a \o b, x)
  <2>1. PICK i \in 1..Len(a) : a[i] = x
    BY <1>3 DEF Holds
  <2>2. i \in 1..Len(a \o b) /\ (a \o b)[i] = x
    BY <1>1, <2>1
  <2> QED BY <2>2 DEF Holds
<1>4. ASSUME Holds(b, x) PROVE Holds(a \o b, x)
  <2>1. PICK i \in 1..Len(b) : b[i] = x
    BY <1>4 DEF Holds
  <2>2. Len(a) + i \in 1..Len(a \o b) /\ (a \o b)[Len(a) + i] = x
    BY <1>1, <2>1
  <2> QED BY <2>2 DEF Holds
<1> QED BY <1>2, <1>3, <1>4

\* A flattened sequence holds what its pieces hold.
LEMMA FlattenHolds ==
    ASSUME NEW S, NEW s \in Seq(Seq(S)), NEW x
    PROVE  Holds(FlattenSeq(s), x) <=> \E j \in 1..Len(s) : Holds(s[j], x)
<1> DEFINE P == {t \in Seq(Seq(S)) : Holds(FlattenSeq(t), x) <=> \E j \in 1..Len(t) : Holds(t[j], x)}
<1>1. <<>> \in P
  <2>1. FlattenSeq(<<>>) = <<>> /\ <<>> \in Seq(Seq(S))
    BY DEF FlattenSeq
  <2> QED BY <2>1 DEF Holds
<1>2. ASSUME NEW t \in Seq(Seq(S)), NEW y \in Seq(S), t \in P PROVE Append(t, y) \in P
  <2> DEFINE u == Append(t, y)
  <2>1. /\ u \in Seq(Seq(S)) /\ Len(u) = Len(t) + 1 /\ Len(t) \in Nat
        /\ (\A i \in 1..Len(t) : u[i] = t[i]) /\ u[Len(t) + 1] = y
    BY AppendProperties
  <2>2. FlattenSeq(u) = FlattenSeq(t) \o y
    BY FlattenAppend
  <2>3. FlattenSeq(t) \in Seq(S)
    BY FlattenType
  <2>4. Holds(FlattenSeq(u), x) <=> Holds(FlattenSeq(t), x) \/ Holds(y, x)
    BY <2>2, <2>3, HoldsConcat
  <2>5. Holds(FlattenSeq(t), x) <=> \E j \in 1..Len(t) : Holds(t[j], x)
    BY <1>2
  <2> HIDE DEF u
  <2>6. (\E j \in 1..Len(u) : Holds(u[j], x)) <=> (\E j \in 1..Len(t) : Holds(t[j], x)) \/ Holds(y, x)
    <3>1. \A i \in 1..Len(u) : i \in 1..Len(t) \/ i = Len(t) + 1
      BY <2>1
    <3>2. Len(t) + 1 \in 1..Len(u) /\ \A i \in 1..Len(t) : i \in 1..Len(u)
      BY <2>1
    <3> QED BY <2>1, <3>1, <3>2, Zenon
  <2>7. u \in P
    BY <2>1, <2>4, <2>5, <2>6
  <2> QED BY <2>7 DEF u
<1>3. \A t \in Seq(Seq(S)) : t \in P
  <2> HIDE DEF P
  <2> QED BY <1>1, <1>2, SeqInduction
<1> QED BY <1>3

\* dedupe keeps the values the caller means.
LEMMA DedupeKeeps ==
    ASSUME NEW values \in Seq(Seq(Chars))
    PROVE  /\ dedupe(values) \in Seq(Seq(Chars))
           /\ \A x : Holds(dedupe(values), x) <=> x \in Named(values)
<1> DEFINE n == Len(values)
           trimmed == [i \in DOMAIN values |-> TrimSpace(values[i])]
           isNew(i) == trimmed[i] # <<>> /\ \A j \in 1..(i - 1) : trimmed[j] # trimmed[i]
           s == [i \in DOMAIN values |-> IF isNew(i) THEN <<trimmed[i]>> ELSE <<>>]
<1>1. n \in Nat /\ DOMAIN values = 1..n /\ \A i \in 1..n : values[i] \in Seq(Chars)
  OBVIOUS
<1>2. \A i \in 1..n : trimmed[i] = TrimSpace(values[i]) /\ trimmed[i] \in Seq(Chars)
  BY <1>1, TrimSplits
<1>3. dedupe(values) = FlattenSeq(s)
  BY DEF dedupe
<1>4. Named(values) = {trimmed[i] : i \in 1..n} \ {<<>>}
  BY <1>1, <1>2, Zenon DEF Named
<1> HIDE DEF trimmed
<1>5. s \in [1..n -> Seq(Seq(Chars))]
  <2>1. \A i \in 1..n : <<trimmed[i]>> \in Seq(Seq(Chars)) /\ <<>> \in Seq(Seq(Chars))
    BY <1>2
  <2> HIDE DEF isNew
  <2> QED BY <1>1, <2>1
<1>6. s \in Seq(Seq(Seq(Chars))) /\ Len(s) = n
  BY <1>1, <1>5, FunIsSeq
<1>7. FlattenSeq(s) \in Seq(Seq(Chars))
  <2> HIDE DEF s
  <2> QED BY <1>6, FlattenType
<1>8. ASSUME NEW x PROVE Holds(FlattenSeq(s), x) <=> x \in Named(values)
  <2>1. Holds(FlattenSeq(s), x) <=> \E j \in 1..n : Holds(s[j], x)
    <3> HIDE DEF s
    <3> QED BY <1>6, FlattenHolds
  <2>2. ASSUME NEW j \in 1..n PROVE Holds(s[j], x) <=> isNew(j) /\ trimmed[j] = x
    <3>1. s[j] = IF isNew(j) THEN <<trimmed[j]>> ELSE <<>>
      BY <1>1
    <3>2. (\A y : Holds(<<y>>, x) <=> y = x) /\ ~Holds(<<>>, x)
      BY DEF Holds
    <3> HIDE DEF isNew, s
    <3> QED BY <3>1, <3>2
  <2>3. ASSUME NEW j \in 1..n, isNew(j), trimmed[j] = x PROVE x \in Named(values)
    BY <1>4, <2>3
  <2>4. ASSUME x \in Named(values) PROVE \E j \in 1..n : isNew(j) /\ trimmed[j] = x
    <3> DEFINE T == {i \in 1..n : trimmed[i] = x}
    <3>1. T # {} /\ x # <<>> /\ T \in SUBSET Nat
      BY <1>4, <2>4
    <3>2. Min(T) \in T /\ \A k \in T : Min(T) <= k
      BY <3>1, MinIsLeast, Zenon
    <3>3. PICK j \in 1..n : j = Min(T) /\ trimmed[j] = x
      BY <3>2, Zenon
    <3>4. ASSUME NEW k \in 1..(j - 1) PROVE trimmed[k] # trimmed[j]
      <4>1. k \in 1..n /\ ~(j <= k)
        BY <1>1
      <4> QED BY <3>2, <3>3, <4>1
    <3>5. isNew(j)
      BY <3>1, <3>3, <3>4
    <3> QED BY <3>3, <3>5
  <2> HIDE DEF isNew, s
  <2> QED BY <2>1, <2>2, <2>3, <2>4
<1> QED BY <1>3, <1>7, <1>8, Zenon
-----------------------------------------------------------------------------
(***************************************************************************)
(* A built query is read as the conditions asked for.                      *)
(***************************************************************************)

\* What the conditions, and the matchers, say of a value of the label l.
AskedValue(conditions, l, v) ==
    \A i \in 1..Len(conditions) : conditions[i].on = l => HoldsOfValue(conditions[i], v)
MatchedValue(ms, l, v) == \A i \in 1..Len(ms) : ms[i].label = l => MatcherMatches(ms[i], v)

\* What the conditions, and the filters, say of a line.
AskedLine(conditions, line) ==
    \A i \in 1..Len(conditions) : conditions[i].on = Line => HoldsOfLine(conditions[i], line)
MatchedLine(fs, line) == \A i \in 1..Len(fs) : FilterMatches(fs[i], line)

\* The selector says what the conditions say.
Agree(conditions, ms, fs) ==
    /\ \A l \in Labels, v \in Seq(Chars) : AskedValue(conditions, l, v) <=> MatchedValue(ms, l, v)
    /\ \A line \in Seq(Chars) : AskedLine(conditions, line) <=> MatchedLine(fs, line)

Conditions == [on : Seq(Letters), wanted : BOOLEAN, texts : SUBSET Seq(Chars)]

\* The inductive invariant.
BuiltAsAsked ==
    /\ selector \in [matchers : Seq(Matchers), filters : Seq(Filters)]
    /\ asked \in Seq(Conditions)
    /\ Agree(asked, selector.matchers, selector.filters)

\* One more condition.
LEMMA OneMoreCondition ==
    ASSUME NEW S, NEW xs \in Seq(S), NEW x \in S, NEW l, NEW v
    PROVE  /\ AskedValue(Append(xs, x), l, v)
                <=> AskedValue(xs, l, v) /\ (x.on = l => HoldsOfValue(x, v))
           /\ AskedLine(Append(xs, x), v)
                <=> AskedLine(xs, v) /\ (x.on = Line => HoldsOfLine(x, v))
<1> DEFINE s == Append(xs, x)
<1>1. /\ \A i \in 1..Len(xs) : i \in 1..Len(s) /\ s[i] = xs[i]
      /\ Len(xs) + 1 \in 1..Len(s) /\ s[Len(xs) + 1] = x
      /\ \A i \in 1..Len(s) : i \in 1..Len(xs) \/ i = Len(xs) + 1
  <2>1. Len(s) = Len(xs) + 1 /\ Len(xs) \in Nat
    BY AppendProperties
  <2>2. \A i \in 1..Len(xs) : s[i] = xs[i]
    BY AppendProperties
  <2>3. s[Len(xs) + 1] = x
    BY AppendProperties
  <2> HIDE DEF s
  <2>4. \A i \in 1..Len(xs) : i \in 1..Len(s)
    BY <2>1
  <2>5. Len(xs) + 1 \in 1..Len(s)
    BY <2>1
  <2>6. \A i \in 1..Len(s) : i \in 1..Len(xs) \/ i = Len(xs) + 1
    BY <2>1
  <2> QED BY <2>2, <2>3, <2>4, <2>5, <2>6
<1> HIDE DEF s
<1>2. AskedValue(s, l, v) <=> AskedValue(xs, l, v) /\ (x.on = l => HoldsOfValue(x, v))
  BY <1>1 DEF AskedValue
<1>3. AskedLine(s, v) <=> AskedLine(xs, v) /\ (x.on = Line => HoldsOfLine(x, v))
  BY <1>1 DEF AskedLine
<1> QED BY <1>2, <1>3 DEF s

\* One more matcher.
LEMMA OneMoreMatcher ==
    ASSUME NEW S, NEW xs \in Seq(S), NEW x \in S, NEW l, NEW v
    PROVE  MatchedValue(Append(xs, x), l, v)
             <=> MatchedValue(xs, l, v) /\ (x.label = l => MatcherMatches(x, v))
<1> DEFINE s == Append(xs, x)
<1>1. /\ \A i \in 1..Len(xs) : i \in 1..Len(s) /\ s[i] = xs[i]
      /\ Len(xs) + 1 \in 1..Len(s) /\ s[Len(xs) + 1] = x
      /\ \A i \in 1..Len(s) : i \in 1..Len(xs) \/ i = Len(xs) + 1
  <2>1. Len(s) = Len(xs) + 1 /\ Len(xs) \in Nat
    BY AppendProperties
  <2>2. \A i \in 1..Len(xs) : s[i] = xs[i]
    BY AppendProperties
  <2>3. s[Len(xs) + 1] = x
    BY AppendProperties
  <2> HIDE DEF s
  <2>4. \A i \in 1..Len(xs) : i \in 1..Len(s)
    BY <2>1
  <2>5. Len(xs) + 1 \in 1..Len(s)
    BY <2>1
  <2>6. \A i \in 1..Len(s) : i \in 1..Len(xs) \/ i = Len(xs) + 1
    BY <2>1
  <2> QED BY <2>2, <2>3, <2>4, <2>5, <2>6
<1> HIDE DEF s
<1>2. MatchedValue(s, l, v) <=> MatchedValue(xs, l, v) /\ (x.label = l => MatcherMatches(x, v))
  BY <1>1 DEF MatchedValue
<1> QED BY <1>2 DEF s

\* One more line filter.
LEMMA OneMoreFilter ==
    ASSUME NEW S, NEW xs \in Seq(S), NEW x \in S, NEW line
    PROVE  MatchedLine(Append(xs, x), line) <=> MatchedLine(xs, line) /\ FilterMatches(x, line)
<1> DEFINE s == Append(xs, x)
<1>1. /\ \A i \in 1..Len(xs) : i \in 1..Len(s) /\ s[i] = xs[i]
      /\ Len(xs) + 1 \in 1..Len(s) /\ s[Len(xs) + 1] = x
      /\ \A i \in 1..Len(s) : i \in 1..Len(xs) \/ i = Len(xs) + 1
  <2>1. Len(s) = Len(xs) + 1 /\ Len(xs) \in Nat
    BY AppendProperties
  <2>2. \A i \in 1..Len(xs) : s[i] = xs[i]
    BY AppendProperties
  <2>3. s[Len(xs) + 1] = x
    BY AppendProperties
  <2> HIDE DEF s
  <2>4. \A i \in 1..Len(xs) : i \in 1..Len(s)
    BY <2>1
  <2>5. Len(xs) + 1 \in 1..Len(s)
    BY <2>1
  <2>6. \A i \in 1..Len(s) : i \in 1..Len(xs) \/ i = Len(xs) + 1
    BY <2>1
  <2> QED BY <2>2, <2>3, <2>4, <2>5, <2>6
<1> HIDE DEF s
<1>2. MatchedLine(s, line) <=> MatchedLine(xs, line) /\ FilterMatches(x, line)
  BY <1>1 DEF MatchedLine
<1> QED BY <1>2 DEF s

\* A condition and a matcher that say the same of the values of a label.
LEMMA AddMatcher ==
    ASSUME NEW cs \in Seq(Conditions), NEW ms \in Seq(Matchers), NEW fs, Agree(cs, ms, fs),
           NEW c \in Conditions, NEW m \in Matchers, c.on = m.label, c.on # Line,
           \A v \in Seq(Chars) : HoldsOfValue(c, v) <=> MatcherMatches(m, v)
    PROVE  Agree(Append(cs, c), Append(ms, m), fs)
<1> HIDE DEF Conditions, Matchers
<1>1. ASSUME NEW l \in Labels, NEW v \in Seq(Chars)
      PROVE  AskedValue(Append(cs, c), l, v) <=> MatchedValue(Append(ms, m), l, v)
  <2>1. AskedValue(cs, l, v) <=> MatchedValue(ms, l, v)
    BY DEF Agree
  <2>2. AskedValue(Append(cs, c), l, v) <=> AskedValue(cs, l, v) /\ (c.on = l => HoldsOfValue(c, v))
    BY OneMoreCondition
  <2>3. MatchedValue(Append(ms, m), l, v)
          <=> MatchedValue(ms, l, v) /\ (m.label = l => MatcherMatches(m, v))
    BY OneMoreMatcher
  <2> QED BY <2>1, <2>2, <2>3
<1>2. ASSUME NEW line \in Seq(Chars)
      PROVE  AskedLine(Append(cs, c), line) <=> MatchedLine(fs, line)
  <2>1. AskedLine(cs, line) <=> MatchedLine(fs, line)
    BY DEF Agree
  <2>2. AskedLine(Append(cs, c), line) <=> AskedLine(cs, line) /\ (c.on = Line => HoldsOfLine(c, line))
    BY OneMoreCondition
  <2> QED BY <2>1, <2>2
<1> QED BY <1>1, <1>2 DEF Agree

\* A condition and a filter that say the same of the lines.
LEMMA AddFilter ==
    ASSUME NEW cs \in Seq(Conditions), NEW ms, NEW fs \in Seq(Filters), Agree(cs, ms, fs),
           NEW c \in Conditions, NEW f \in Filters, c.on = Line,
           \A line \in Seq(Chars) : HoldsOfLine(c, line) <=> FilterMatches(f, line)
    PROVE  Agree(Append(cs, c), ms, Append(fs, f))
<1> HIDE DEF Conditions, Filters
<1>1. ASSUME NEW l \in Labels, NEW v \in Seq(Chars)
      PROVE  AskedValue(Append(cs, c), l, v) <=> MatchedValue(ms, l, v)
  <2>1. AskedValue(cs, l, v) <=> MatchedValue(ms, l, v)
    BY DEF Agree
  <2>2. AskedValue(Append(cs, c), l, v) <=> AskedValue(cs, l, v) /\ (c.on = l => HoldsOfValue(c, v))
    BY OneMoreCondition
  <2>3. c.on # l
    BY QueryAssumption DEF Line
  <2> QED BY <2>1, <2>2, <2>3
<1>2. ASSUME NEW line \in Seq(Chars)
      PROVE  AskedLine(Append(cs, c), line) <=> MatchedLine(Append(fs, f), line)
  <2>1. AskedLine(cs, line) <=> MatchedLine(fs, line)
    BY DEF Agree
  <2>2. AskedLine(Append(cs, c), line) <=> AskedLine(cs, line) /\ (c.on = Line => HoldsOfLine(c, line))
    BY OneMoreCondition
  <2>3. MatchedLine(Append(fs, f), line) <=> MatchedLine(fs, line) /\ FilterMatches(f, line)
    BY OneMoreFilter
  <2> QED BY <2>1, <2>2, <2>3
<1> QED BY <1>1, <1>2 DEF Agree

\* What each operator makes of a matcher, and of a filter.
LEMMA OperatorMeaning ==
    ASSUME NEW l, NEW w, NEW v
    PROVE  /\ MatcherMatches([label |-> l, op |-> Equal, value |-> w], v) <=> v = w
           /\ MatcherMatches([label |-> l, op |-> NotEqual, value |-> w], v) <=> v # w
           /\ MatcherMatches([label |-> l, op |-> Regexp, value |-> w], v) <=> AnchoredMatch(w, v)
           /\ MatcherMatches([label |-> l, op |-> NotRegexp, value |-> w], v) <=> ~AnchoredMatch(w, v)
           /\ FilterMatches([op |-> LineContains, value |-> w], v) <=> w \in Substrings(v)
           /\ FilterMatches([op |-> NotEqual, value |-> w], v) <=> w \notin Substrings(v)
<1>1. /\ Equal # NotEqual /\ Equal # Regexp /\ Equal # NotRegexp
      /\ NotEqual # Regexp /\ NotEqual # NotRegexp /\ Regexp # NotRegexp
      /\ LineContains # NotEqual /\ LineContains # LineMatches /\ LineContains # NotRegexp
      /\ NotEqual # LineMatches
  BY DEF Equal, NotEqual, Regexp, NotRegexp, LineContains, LineMatches
<1> QED BY <1>1 DEF MatcherMatches, FilterMatches

\* The values that AnyOf keeps, one by one or in an alternation.
LEMMA KeptValues ==
    ASSUME NEW values \in Seq(Seq(Chars))
    PROVE  LET kept == dedupe(values)
           IN  /\ Len(kept) \in Nat /\ Named(values) \in SUBSET Seq(Chars)
               /\ Len(kept) = 0 <=> Named(values) = {}
               /\ Len(kept) = 1 => Named(values) = {kept[1]} /\ kept[1] \in Seq(Chars)
               /\ Len(kept) \notin {0, 1} =>
                    /\ Alternation(kept) \in Seq(Chars) /\ Compile(Alternation(kept)) # {}
                    /\ \A v \in Seq(Chars) : AnchoredMatch(Alternation(kept), v) <=> v \in Named(values)
<1> DEFINE kept == dedupe(values)
           named == Named(values)
<1>1. kept \in Seq(Seq(Chars)) /\ \A x : Holds(kept, x) <=> x \in named
  BY DedupeKeeps
<1> HIDE DEF kept, named
<1>2. Len(kept) \in Nat /\ \A x \in named : x \in Seq(Chars)
  BY <1>1 DEF Holds
<1>3. Len(kept) = 0 <=> named = {}
  <2>1. Len(kept) = 0 => \A x : ~Holds(kept, x)
    BY DEF Holds
  <2>2. Len(kept) # 0 => Holds(kept, kept[1])
    BY <1>2 DEF Holds
  <2> QED BY <1>1, <2>1, <2>2
<1>4. ASSUME Len(kept) = 1 PROVE named = {kept[1]} /\ kept[1] \in Seq(Chars)
  <2>1. \A x : Holds(kept, x) <=> x = kept[1]
    BY <1>4 DEF Holds
  <2> QED BY <1>1, <1>2, <2>1
<1>5. ASSUME Len(kept) \notin {0, 1}
      PROVE  /\ Alternation(kept) \in Seq(Chars) /\ Compile(Alternation(kept)) # {}
             /\ \A v \in Seq(Chars) : AnchoredMatch(Alternation(kept), v) <=> v \in named
  <2>1. kept # <<>>
    BY <1>5
  <2>2. /\ Alternation(kept) \in Seq(Chars) /\ Compile(Alternation(kept)) # {}
        /\ \A v \in Seq(Chars) :
             AnchoredMatch(Alternation(kept), v) <=> \E i \in 1..Len(kept) : kept[i] = v
    BY <1>1, <2>1, AlternationMatches
  <2> QED BY <1>1, <2>2 DEF Holds
<1> QED BY <1>2, <1>3, <1>4, <1>5 DEF kept, named

\* add makes the selector's matchers longer by one.
LEMMA AddIs ==
    ASSUME selector \in [matchers : Seq(Matchers), filters : Seq(Filters)],
           NEW l, NEW op, NEW v, add(l, op, v), [label |-> l, op |-> op, value |-> v] \in Matchers
    PROVE  /\ selector' \in [matchers : Seq(Matchers), filters : Seq(Filters)]
           /\ selector'.matchers = Append(selector.matchers, [label |-> l, op |-> op, value |-> v])
           /\ selector'.filters = selector.filters
<1> HIDE DEF Matchers, Filters
<1> DEFINE m == [label |-> l, op |-> op, value |-> v]
<1>1. selector' = [selector EXCEPT !.matchers = Append(selector.matchers, m)]
  BY DEF add
<1>2. m \in Matchers
  OBVIOUS
<1> HIDE DEF m
<1>3. Append(selector.matchers, m) \in Seq(Matchers)
  BY <1>2
<1>4. selector' = [matchers |-> Append(selector.matchers, m), filters |-> selector.filters]
  BY <1>1, Zenon
<1> QED BY <1>3, <1>4 DEF m

\* A call that asks for one condition on a label and adds one matcher.
LEMMA LabelCall ==
    ASSUME BuiltAsAsked, NEW l \in Labels, NEW wanted \in BOOLEAN, NEW texts \in SUBSET Seq(Chars),
           NEW op \in MatcherOps, NEW v \in Seq(Chars), Compiles(op, v),
           Call(Asks(l, wanted, texts)), add(l, op, v),
           \A w \in Seq(Chars) : (wanted <=> w \in texts)
                                   <=> MatcherMatches([label |-> l, op |-> op, value |-> v], w)
    PROVE  BuiltAsAsked'
<1> DEFINE c == [on |-> l, wanted |-> wanted, texts |-> texts]
           m == [label |-> l, op |-> op, value |-> v]
<1>1. l \in Seq(Letters) \ {<<>>}
  BY QueryAssumption
<1>2. c \in Conditions /\ m \in Matchers /\ c.on = l /\ m.label = l /\ c.on # Line
  BY <1>1 DEF Conditions, Matchers, Line
<1>3. \A w : HoldsOfValue(c, w) <=> (wanted <=> w \in texts)
  BY DEF HoldsOfValue
<1>4. asked' = asked \o <<c>>
  BY DEF Call, Asks
<1>5. \A w \in Seq(Chars) : HoldsOfValue(c, w) <=> MatcherMatches(m, w)
  BY <1>3
<1>6. /\ selector' \in [matchers : Seq(Matchers), filters : Seq(Filters)]
      /\ selector'.matchers = Append(selector.matchers, m)
      /\ selector'.filters = selector.filters
  BY <1>2, AddIs DEF BuiltAsAsked
<1>7. /\ selector.matchers \in Seq(Matchers) /\ asked \in Seq(Conditions)
      /\ Agree(asked, selector.matchers, selector.filters)
  BY DEF BuiltAsAsked
<1> HIDE DEF c, m
<1>8. asked' = Append(asked, c) /\ Append(asked, c) \in Seq(Conditions)
  <2> HIDE DEF Conditions
  <2> QED BY <1>2, <1>4, <1>7, AppendIsConcat
<1>9. Agree(Append(asked, c), Append(selector.matchers, m), selector.filters)
  BY <1>2, <1>5, <1>7, AddMatcher
<1> QED BY <1>6, <1>8, <1>9 DEF BuiltAsAsked, Agree

\* OneOf and NoneOf.
LEMMA AnyOfCall ==
    ASSUME BuiltAsAsked, NEW l \in Labels, NEW values \in Lists, NEW wanted \in BOOLEAN,
           NEW one \in {Equal, NotEqual}, NEW several \in {Regexp, NotRegexp},
           wanted <=> one = Equal, wanted <=> several = Regexp,
           AnyOf(l, values, wanted, one, several)
    PROVE  BuiltAsAsked'
<1> DEFINE kept == dedupe(values)
           named == Named(values)
<1>1. values \in Seq(Seq(Chars))
  BY QueryAssumption
<1>2. /\ Len(kept) \in Nat /\ named \in SUBSET Seq(Chars)
      /\ Len(kept) = 0 <=> named = {}
      /\ Len(kept) = 1 => named = {kept[1]} /\ kept[1] \in Seq(Chars)
      /\ Len(kept) \notin {0, 1} =>
           /\ Alternation(kept) \in Seq(Chars) /\ Compile(Alternation(kept)) # {}
           /\ \A v \in Seq(Chars) : AnchoredMatch(Alternation(kept), v) <=> v \in named
  BY <1>1, KeptValues
<1>3. /\ Call(IF named = {} THEN <<>> ELSE Asks(l, wanted, named))
      /\ CASE Len(kept) = 0 -> UNCHANGED selector
           [] Len(kept) = 1 -> add(l, one, kept[1])
           [] OTHER -> add(l, several, Alternation(kept))
  BY DEF AnyOf
<1> HIDE DEF kept, named
<1>4. CASE Len(kept) = 0
  <2>1. selector' = selector /\ Call(<<>>)
    BY <1>2, <1>3, <1>4
  <2>2. asked' = asked
    <3>1. asked' = asked \o <<>> /\ asked \in Seq(Conditions)
      BY <2>1 DEF Call, BuiltAsAsked
    <3> HIDE DEF Conditions
    <3> QED BY <3>1
  <2> QED BY <2>1, <2>2 DEF BuiltAsAsked, Agree
<1>5. CASE Len(kept) = 1
  <2>1. add(l, one, kept[1]) /\ Call(Asks(l, wanted, named)) /\ named = {kept[1]} /\ kept[1] \in Seq(Chars)
    BY <1>2, <1>3, <1>5
  <2>2. one \in MatcherOps /\ Compiles(one, kept[1])
    <3>1. Equal \notin {Regexp, NotRegexp, LineMatches} /\ NotEqual \notin {Regexp, NotRegexp, LineMatches}
      BY DEF Equal, NotEqual, Regexp, NotRegexp, LineMatches
    <3> QED BY <3>1 DEF MatcherOps, Compiles
  <2>3. \A w \in Seq(Chars) : (wanted <=> w \in named)
                                <=> MatcherMatches([label |-> l, op |-> one, value |-> kept[1]], w)
    BY <2>1, OperatorMeaning, Zenon
  <2> QED BY <1>2, <2>1, <2>2, <2>3, LabelCall
<1>6. CASE Len(kept) \notin {0, 1}
  <2>1. add(l, several, Alternation(kept)) /\ Call(Asks(l, wanted, named))
    BY <1>2, <1>3, <1>6
  <2>2. several \in MatcherOps /\ Compiles(several, Alternation(kept)) /\ Alternation(kept) \in Seq(Chars)
    BY <1>2, <1>6 DEF MatcherOps, Compiles
  <2>3. \A w \in Seq(Chars) : (wanted <=> w \in named)
                                <=> MatcherMatches([label |-> l, op |-> several, value |-> Alternation(kept)], w)
    BY <1>2, <1>6, OperatorMeaning, Zenon
  <2> QED BY <1>2, <2>1, <2>2, <2>3, LabelCall
<1> QED BY <1>4, <1>5, <1>6

\* ContainsText and Excludes.
LEMMA FilterCall ==
    ASSUME BuiltAsAsked, NEW text \in Values, NEW wanted \in BOOLEAN, NEW op \in {LineContains, NotEqual},
           wanted <=> op = LineContains, Filtered(text, wanted, op)
    PROVE  BuiltAsAsked'
<1>1. text \in Seq(Chars)
  BY QueryAssumption
<1>2. /\ selector \in [matchers : Seq(Matchers), filters : Seq(Filters)] /\ asked \in Seq(Conditions)
      /\ Agree(asked, selector.matchers, selector.filters)
  BY DEF BuiltAsAsked
<1>3. CASE text = <<>>
  <2>1. selector' = selector /\ asked' = asked \o <<>>
    BY <1>3 DEF Filtered, Call
  <2>2. asked' = asked
    <3> HIDE DEF Conditions
    <3> QED BY <1>2, <2>1
  <2> QED BY <2>1, <2>2 DEF BuiltAsAsked, Agree
<1>4. CASE text # <<>>
  <2> DEFINE c == [on |-> Line, wanted |-> wanted, texts |-> {text}]
             f == [op |-> op, value |-> text]
  <2>1. asked' = asked \o <<c>> /\ selector' = [selector EXCEPT !.filters = Append(selector.filters, f)]
    BY <1>4 DEF Filtered, Call, Asks
  <2>2. c \in Conditions /\ f \in Filters /\ c.on = Line
    <3>1. Line \in Seq(Letters)
      BY DEF Line
    <3> QED BY <1>1, <3>1 DEF Conditions, Filters
  <2>3. ASSUME NEW line \in Seq(Chars) PROVE HoldsOfLine(c, line) <=> FilterMatches(f, line)
    <3>1. HoldsOfLine(c, line) <=> (wanted <=> text \in Substrings(line))
      BY DEF HoldsOfLine
    <3>2. LineContains # NotEqual
      BY DEF LineContains, NotEqual
    <3> QED BY <3>1, <3>2, OperatorMeaning, Zenon
  <2> HIDE DEF c, f, Conditions, Filters, Matchers
  <2>4. asked' = Append(asked, c) /\ Append(asked, c) \in Seq(Conditions)
    BY <1>2, <2>1, <2>2, AppendIsConcat
  <2>5. /\ selector' \in [matchers : Seq(Matchers), filters : Seq(Filters)]
        /\ selector'.matchers = selector.matchers
        /\ selector'.filters = Append(selector.filters, f)
    <3>1. Append(selector.filters, f) \in Seq(Filters)
      BY <1>2, <2>2
    <3>2. selector' = [matchers |-> selector.matchers, filters |-> Append(selector.filters, f)]
      BY <1>2, <2>1, Zenon
    <3> QED BY <1>2, <3>1, <3>2
  <2>6. Agree(Append(asked, c), selector.matchers, Append(selector.filters, f))
    BY <1>2, <2>2, <2>3, AddFilter
  <2> QED BY <2>4, <2>5, <2>6 DEF BuiltAsAsked, Agree
<1> QED BY <1>3, <1>4

\* The invariant holds before the first call.
LEMMA BuiltInit == Init => BuiltAsAsked
<1> SUFFICES ASSUME Init PROVE BuiltAsAsked
  OBVIOUS
<1>1. selector = [matchers |-> <<>>, filters |-> <<>>] /\ asked = <<>>
  BY DEF Init, EmptySelector
<1>2. <<>> \in Seq(Matchers) /\ <<>> \in Seq(Filters) /\ <<>> \in Seq(Conditions)
  OBVIOUS
<1>3. Agree(<<>>, <<>>, <<>>)
  BY DEF Agree, AskedValue, MatchedValue, AskedLine, MatchedLine
<1> QED BY <1>1, <1>2, <1>3 DEF BuiltAsAsked

\* Every call of the builder keeps the invariant.
LEMMA BuiltNext == BuiltAsAsked /\ [Next]_vars => BuiltAsAsked'
<1> SUFFICES ASSUME BuiltAsAsked, [Next]_vars PROVE BuiltAsAsked'
  OBVIOUS
<1>0. /\ Equal \in MatcherOps /\ NotEqual \in MatcherOps /\ Equal # NotEqual /\ Regexp # NotRegexp
      /\ \A v : Compiles(Equal, v) /\ Compiles(NotEqual, v)
  <2>1. Equal \notin {Regexp, NotRegexp, LineMatches} /\ NotEqual \notin {Regexp, NotRegexp, LineMatches}
    BY DEF Equal, NotEqual, Regexp, NotRegexp, LineMatches
  <2>2. Equal # NotEqual /\ Regexp # NotRegexp
    BY DEF Equal, NotEqual, Regexp, NotRegexp
  <2> QED BY <2>1, <2>2 DEF MatcherOps, Compiles
<1>1. ASSUME NEW l \in Labels, NEW v \in Values, Eq(l, v) PROVE BuiltAsAsked'
  <2>1. v \in Seq(Chars) /\ Call(Asks(l, TRUE, {v})) /\ add(l, Equal, v)
    BY <1>1, QueryAssumption, Zenon DEF Eq
  <2>2. \A w \in Seq(Chars) : (TRUE <=> w \in {v})
                                <=> MatcherMatches([label |-> l, op |-> Equal, value |-> v], w)
    BY OperatorMeaning, Zenon
  <2>3. {v} \in SUBSET Seq(Chars)
    BY <2>1
  <2> QED BY <1>0, <2>1, <2>2, <2>3, LabelCall, Zenon
<1>2. ASSUME NEW l \in Labels, NEW v \in Values, Neq(l, v) PROVE BuiltAsAsked'
  <2>1. v \in Seq(Chars) /\ Call(Asks(l, FALSE, {v})) /\ add(l, NotEqual, v)
    BY <1>2, QueryAssumption, Zenon DEF Neq
  <2>2. \A w \in Seq(Chars) : (FALSE <=> w \in {v})
                                <=> MatcherMatches([label |-> l, op |-> NotEqual, value |-> v], w)
    BY OperatorMeaning, Zenon
  <2>3. {v} \in SUBSET Seq(Chars)
    BY <2>1
  <2> QED BY <1>0, <2>1, <2>2, <2>3, LabelCall, Zenon
<1>3. ASSUME NEW l \in Labels, NEW values \in Lists, OneOf(l, values) PROVE BuiltAsAsked'
  BY <1>0, <1>3, AnyOfCall, Zenon DEF OneOf
<1>4. ASSUME NEW l \in Labels, NEW values \in Lists, NoneOf(l, values) PROVE BuiltAsAsked'
  BY <1>0, <1>4, AnyOfCall, Zenon DEF NoneOf
<1>5. ASSUME NEW v \in Values, ContainsText(v) PROVE BuiltAsAsked'
  BY <1>5, FilterCall, Zenon DEF ContainsText
<1>6. ASSUME NEW v \in Values, Excludes(v) PROVE BuiltAsAsked'
  <2>1. NotEqual # LineContains
    BY DEF NotEqual, LineContains
  <2> QED BY <1>6, <2>1, FilterCall, Zenon DEF Excludes
<1>7. ASSUME NEW token \in Tokens, Type(token) PROVE BuiltAsAsked'
  BY <1>7 DEF Type, BuiltAsAsked, Agree
<1>8. ASSUME UNCHANGED vars PROVE BuiltAsAsked'
  BY <1>8 DEF vars, BuiltAsAsked, Agree
<1> QED BY <1>1, <1>2, <1>3, <1>4, <1>5, <1>6, <1>7, <1>8 DEF Next, Build

\* The values and lines that a query is tried with are texts.
LEMMA ProbesAreTexts == Probes \subseteq Seq(Chars)
<1> SUFFICES ASSUME NEW t \in Probes PROVE t \in Seq(Chars)
  OBVIOUS
<1>1. PICK v \in Values : t \in Substrings(v)
  BY DEF Probes
<1>2. PICK i \in 1..(Len(v) + 1), j \in 0..Len(v) : t = SubSeq(v, i, j)
  BY <1>1 DEF Substrings
<1>3. v \in Seq(Chars)
  BY QueryAssumption
<1>4. i \in Int /\ j \in Int /\ \A k \in i..j : v[k] \in Chars
  BY <1>3
<1> QED BY <1>2, <1>4, SubSeqProperties

\* The query API reads the matchers and filters of a built query as they are.
LEMMA BuiltImplies == BuiltAsAsked => AskedIsMatched
<1> SUFFICES ASSUME BuiltAsAsked, typed = <<>>
             PROVE  IF selector.matchers = <<>> THEN Parse(Text) = {}
                    ELSE \E q \in Parse(Text) :
                      /\ \A l \in Labels, v \in Probes :
                            (\A c \in AskedOf(l) : HoldsOfValue(c, v))
                              <=> \A i \in DOMAIN q.matchers :
                                     q.matchers[i].label = l => MatcherMatches(q.matchers[i], v)
                      /\ \A line \in Probes :
                            (\A c \in AskedOf(Line) : HoldsOfLine(c, line))
                              <=> \A i \in DOMAIN q.filters : FilterMatches(q.filters[i], line)
  BY Zenon DEF AskedIsMatched
<1> DEFINE ms == selector.matchers
           fs == selector.filters
           q == [matchers |-> ms, filters |-> fs]
<1>1. ms \in Seq(Matchers) /\ fs \in Seq(Filters) /\ asked \in Seq(Conditions) /\ Agree(asked, ms, fs)
  BY DEF BuiltAsAsked
<1>2. Text = String(selector)
  BY DEF Text
<1>3. Parse(Text) = IF ms = <<>> THEN {} ELSE {q}
  BY <1>1, <1>2, ParseOfString
<1> HIDE DEF ms, fs
<1>4. q.matchers = ms /\ q.filters = fs
  OBVIOUS
<1> HIDE DEF q
<1>5. DOMAIN ms = 1..Len(ms) /\ DOMAIN fs = 1..Len(fs) /\ DOMAIN asked = 1..Len(asked)
  BY <1>1
<1>6. \A on, c : c \in AskedOf(on) <=> \E i \in 1..Len(asked) : asked[i].on = on /\ c = asked[i]
  BY <1>5 DEF AskedOf
<1>7. ASSUME NEW l \in Labels, NEW v \in Probes
      PROVE  (\A c \in AskedOf(l) : HoldsOfValue(c, v))
               <=> \A i \in DOMAIN q.matchers :
                      q.matchers[i].label = l => MatcherMatches(q.matchers[i], v)
  <2>1. AskedValue(asked, l, v) <=> MatchedValue(ms, l, v)
    BY <1>1, ProbesAreTexts DEF Agree
  <2>2. (\A c \in AskedOf(l) : HoldsOfValue(c, v)) <=> AskedValue(asked, l, v)
    BY <1>6 DEF AskedValue
  <2> QED BY <1>4, <1>5, <2>1, <2>2 DEF MatchedValue
<1>8. ASSUME NEW line \in Probes
      PROVE  (\A c \in AskedOf(Line) : HoldsOfLine(c, line))
               <=> \A i \in DOMAIN q.filters : FilterMatches(q.filters[i], line)
  <2>1. AskedLine(asked, line) <=> MatchedLine(fs, line)
    BY <1>1, ProbesAreTexts DEF Agree
  <2>2. (\A c \in AskedOf(Line) : HoldsOfLine(c, line)) <=> AskedLine(asked, line)
    BY <1>6 DEF AskedLine
  <2> QED BY <1>4, <1>5, <2>1, <2>2 DEF MatchedLine
<1>9. CASE ms = <<>>
  BY <1>3, <1>9 DEF ms
<1>10. CASE ms # <<>>
  <2>1. q \in Parse(Text)
    BY <1>3, <1>10
  <2> QED BY <1>7, <1>8, <1>10, <2>1, Zenon DEF ms
<1> QED BY <1>9, <1>10

\* The query API reads every built query as exactly the conditions asked for,
\* whatever labels, values and lists of values the builder's methods are called
\* with: quoting, escaping and joining in Selector.String and OneOf are undone
\* by Parse, and the regexps match the listed values and no others.
THEOREM BuiltQueryIsRead == Spec => []AskedIsMatched
<1>1. Init => BuiltAsAsked
  BY BuiltInit
<1>2. BuiltAsAsked /\ [Next]_vars => BuiltAsAsked'
  BY BuiltNext
<1>3. BuiltAsAsked => AskedIsMatched
  BY BuiltImplies
<1> QED BY <1>1, <1>2, <1>3, PTL DEF Spec

-----------------------------------------------------------------------------
(***************************************************************************)
(* The labels a query requires.                                            *)
(***************************************************************************)

\* No backquote is left in the selector once the logs command has taken out
\* its double-quoted strings.
NoBackquoteLeft == unquotedSelector(Text) \in Clean

TypedTokens == typed \in Seq(Tokens)

\* Nothing is typed at first.
LEMMA TypedInit == Init => TypedTokens
BY DEF Init, TypedTokens

\* The user types tokens only.
LEMMA TypedNext == TypedTokens /\ [Next]_vars => TypedTokens'
<1> SUFFICES ASSUME TypedTokens, [Next]_vars PROVE TypedTokens'
  OBVIOUS
<1>1. ASSUME NEW token \in Tokens, Type(token) PROVE TypedTokens'
  BY <1>1 DEF Type, TypedTokens
<1>2. ASSUME NEW conditions, Call(conditions) PROVE TypedTokens'
  BY <1>2 DEF Call, TypedTokens
<1>3. ASSUME Build PROVE TypedTokens'
  BY <1>2, <1>3, Zenon DEF Build, Eq, Neq, OneOf, NoneOf, AnyOf, ContainsText, Excludes, Filtered
<1>4. ASSUME UNCHANGED vars PROVE TypedTokens'
  BY <1>4 DEF vars, TypedTokens
<1> QED BY <1>1, <1>3, <1>4 DEF Next

\* Built and typed queries are texts, and a built one keeps its backquotes in
\* strings.
LEMMA TextType ==
    ASSUME BuiltAsAsked, TypedTokens
    PROVE  Text \in Seq(Chars) /\ (typed = <<>> => NoBackquoteLeft)
<1>1. selector.matchers \in Seq(Matchers) /\ selector.filters \in Seq(Filters)
  BY DEF BuiltAsAsked
<1>2. CASE typed = <<>>
  <2>1. Text = String(selector)
    BY <1>2 DEF Text
  <2> QED BY <1>1, <2>1, BuiltSelector DEF NoBackquoteLeft
<1>3. CASE typed # <<>>
  <2>1. Text = FlattenSeq(typed)
    BY <1>3 DEF Text
  <2>2. typed \in Seq(Seq(Chars))
    BY QueryAssumption, SeqMonotonic DEF TypedTokens
  <2> QED BY <1>3, <2>1, <2>2, FlattenType
<1> QED BY <1>2, <1>3

\* The labels are the right ones when no backquote is left.
LEMMA HintsFollow ==
    ASSUME Text \in Seq(Chars), \A query \in Parse(Text) : NoBackquoteLeft
    PROVE  HintsAreRequired
BY HintsOfText DEF HintsAreRequired, NoBackquoteLeft

\* The logs command reads from a query that the API accepts exactly the labels
\* that it requires, in every reachable state in which no backquote is left in
\* the selector once its double-quoted strings are taken out (requiredLabels
\* and unquotedSelector in cli/internal/command/logs.go against the parser;
\* a backquoted string is one to the parser and not to the logs command).
THEOREM HintsAreRight == Spec => [](NoBackquoteLeft => HintsAreRequired)
<1>1. Init => BuiltAsAsked /\ TypedTokens
  BY BuiltInit, TypedInit
<1>2. BuiltAsAsked /\ TypedTokens /\ [Next]_vars => (BuiltAsAsked /\ TypedTokens)'
  BY BuiltNext, TypedNext
<1>3. BuiltAsAsked /\ TypedTokens => (NoBackquoteLeft => HintsAreRequired)
  BY TextType, HintsFollow
<1> QED BY <1>1, <1>2, <1>3, PTL DEF Spec

\* In particular for every built query, whatever its values hold: Selector.String
\* writes them in double quotes.
THEOREM BuiltHintsAreRight == Spec => [](typed = <<>> => HintsAreRequired)
<1>1. Init => BuiltAsAsked /\ TypedTokens
  BY BuiltInit, TypedInit
<1>2. BuiltAsAsked /\ TypedTokens /\ [Next]_vars => (BuiltAsAsked /\ TypedTokens)'
  BY BuiltNext, TypedNext
<1>3. BuiltAsAsked /\ TypedTokens => (typed = <<>> => HintsAreRequired)
  BY TextType, HintsFollow
<1> QED BY <1>1, <1>2, <1>3, PTL DEF Spec

\* And for every query, typed or built, when the user types no backquotes.
THEOREM TypedHintsAreRight ==
    ASSUME \A token \in Tokens : \A i \in DOMAIN token : token[i] # Backquote
    PROVE  Spec => []HintsAreRequired
<1>1. Init => BuiltAsAsked /\ TypedTokens
  BY BuiltInit, TypedInit
<1>2. BuiltAsAsked /\ TypedTokens /\ [Next]_vars => (BuiltAsAsked /\ TypedTokens)'
  BY BuiltNext, TypedNext
<1>3. Tokens \subseteq Clean
  <2> SUFFICES ASSUME NEW token \in Tokens PROVE token \in Clean
    OBVIOUS
  <2>1. token \in Seq(Chars)
    BY QueryAssumption
  <2>2. token \in [1..Len(token) -> Chars \ {Backquote}] /\ Len(token) \in Nat
    BY <2>1
  <2> QED BY <2>2, FunIsSeq DEF Clean
<1>4. BuiltAsAsked /\ TypedTokens => HintsAreRequired
  <2> SUFFICES ASSUME BuiltAsAsked, TypedTokens, NEW query \in Parse(Text) PROVE NoBackquoteLeft
    BY TextType, HintsFollow
  <2>1. CASE typed = <<>>
    BY <2>1, TextType
  <2>2. CASE typed # <<>>
    <3>1. Text = FlattenSeq(typed)
      BY <2>2 DEF Text
    <3>2. typed \in Seq(Clean)
      BY <1>3, SeqMonotonic DEF TypedTokens
    <3>3. FlattenSeq(typed) \in Clean
      BY <3>2, FlattenType DEF Clean
    <3> QED BY <3>1, <3>3, CleanSelector DEF NoBackquoteLeft
  <2> QED BY <2>1, <2>2
<1> QED BY <1>1, <1>2, <1>4, PTL DEF Spec
=============================================================================
