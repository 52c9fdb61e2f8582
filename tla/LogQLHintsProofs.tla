-------------------------- MODULE LogQLHintsProofs --------------------------
(***************************************************************************)
(* Facts about requiredLabels in LogQL.tla, for texts of any length: the   *)
(* label names it finds in a query that the parser accepts are the ones    *)
(* that the query's matchers require, unless a backquoted string is in the *)
(* way.                                                                    *)
(***************************************************************************)
EXTENDS LogQLProofs

-----------------------------------------------------------------------------
(***************************************************************************)
(* The names that the logs command finds in a text without strings.        *)
(***************************************************************************)

\* An equals sign comes after the first j characters and blanks.
SignAt(u, j) ==
    \E k \in (j + 1)..Len(u) : u[k] = "=" /\ \A m \in (j + 1)..(k - 1) : u[m] = Blank

\* The characters i to j are a name that matcherPattern finds.
IsName(u, i, j) ==
    /\ i <= j /\ (\A n \in i..j : u[n] \in Letters) /\ (i = 1 \/ u[i - 1] \notin Letters)
    /\ SignAt(u, j)

\* MatchedNames in the words of IsName.
LEMMA SignIsPrefix ==
    ASSUME NEW y \in Seq(Chars)
    PROVE  IsPrefix(Equal, TrimSpace(y)) <=> SignAt(y, 0)
<1> DEFINE T == TrimSpace(y)
<1>1. T \in Solid \cup {<<>>} /\ T \in Seq(Chars) /\ \E a, b \in Blanks : y = a \o (T \o b)
  BY TrimSplits, Zenon
<1> HIDE DEF T
<1>2. PICK a \in Blanks, b \in Blanks : y = a \o (T \o b)
  BY <1>1, Zenon
<1>3. /\ a \in Seq(Chars) /\ Len(a) \in Nat /\ (\A i \in 1..Len(a) : a[i] = Blank)
      /\ b \in Seq(Chars) /\ Len(b) \in Nat /\ (\A i \in 1..Len(b) : b[i] = Blank)
  BY BlanksAreChars
<1>4. Len(T) \in Nat /\ Len(y) = Len(a) + Len(T) + Len(b) /\ Len(y) \in Nat
  BY <1>1, <1>2, <1>3
<1>5. \A i \in 1..Len(a) : y[i] = Blank
  BY <1>1, <1>2, <1>3
<1>6. \A i \in 1..Len(T) : y[Len(a) + i] = T[i]
  BY <1>1, <1>2, <1>3
<1>7. \A i \in 1..Len(b) : y[Len(a) + Len(T) + i] = Blank
  BY <1>1, <1>2, <1>3
<1>8. Equal \in Seq(Chars) /\ Len(Equal) = 1 /\ Equal[1] = "=" /\ Blank # "="
  BY OpsAreChars, SyntaxChars DEF Equal
<1>9. IsPrefix(Equal, T) <=> Len(T) >= 1 /\ T[1] = "="
  <2>1. IsPrefix(Equal, T) <=> Len(Equal) <= Len(T) /\ \A i \in 1..Len(Equal) : T[i] = Equal[i]
    BY <1>1, <1>8, PrefixIff
  <2> QED BY <1>4, <1>8, <2>1
<1>10. CASE T = <<>>
  <2>1. \A i \in 1..Len(y) : y[i] = Blank
    <3> SUFFICES ASSUME NEW i \in 1..Len(y) PROVE y[i] = Blank
      OBVIOUS
    <3>1. Len(T) = 0
      BY <1>10
    <3>2. CASE i <= Len(a)
      BY <1>3, <1>5, <3>2
    <3>3. CASE i > Len(a)
      <4>1. i - Len(a) \in 1..Len(b) /\ i = Len(a) + Len(T) + (i - Len(a))
        BY <1>3, <1>4, <3>1, <3>3
      <4> QED BY <1>7, <4>1, Zenon
    <3> QED BY <1>3, <3>2, <3>3
  <2>2. ~SignAt(y, 0)
    BY <1>4, <1>8, <2>1 DEF SignAt
  <2> QED BY <1>9, <1>10, <2>2 DEF T
<1>11. CASE T # <<>>
  <2>1. Len(T) >= 1 /\ T[1] # Blank
    BY <1>1, <1>11, SolidEnds
  <2>2. Len(a) + 1 \in 1..Len(y) /\ y[Len(a) + 1] = T[1]
    BY <1>3, <1>4, <1>6, <2>1
  <2>3. SignAt(y, 0) <=> \E k \in 1..Len(y) : y[k] = "=" /\ \A m \in 1..(k - 1) : y[m] = Blank
    BY DEF SignAt
  <2>4. ASSUME NEW k \in 1..Len(y), y[k] = "=", \A m \in 1..(k - 1) : y[m] = Blank
        PROVE  k = Len(a) + 1
    <3>1. ~(k <= Len(a))
      BY <1>3, <1>5, <1>8, <2>4
    <3>2. ~(k > Len(a) + 1)
      <4> SUFFICES ASSUME k > Len(a) + 1 PROVE FALSE
        OBVIOUS
      <4>1. Len(a) + 1 \in 1..(k - 1)
        BY <1>3, <1>4
      <4> QED BY <2>1, <2>2, <2>4, <4>1
    <3> QED BY <1>3, <1>4, <3>1, <3>2
  <2>5. T[1] = "=" => SignAt(y, 0)
    <3> SUFFICES ASSUME T[1] = "=" PROVE SignAt(y, 0)
      OBVIOUS
    <3>1. \A m \in 1..((Len(a) + 1) - 1) : y[m] = Blank
      BY <1>3, <1>5
    <3> QED BY <2>2, <2>3, <3>1
  <2>6. SignAt(y, 0) => T[1] = "="
    BY <2>2, <2>3, <2>4
  <2> QED BY <1>9, <2>1, <2>5, <2>6 DEF T
<1> QED BY <1>10, <1>11

\* Where an operator follows does not depend on the text before.
LEMMA SignAfter ==
    ASSUME NEW u \in Seq(Chars), NEW j \in 0..Len(u)
    PROVE  SignAt(DropChars(u, j), 0) <=> SignAt(u, j)
<1> DEFINE d == DropChars(u, j)
<1>1. Len(u) \in Nat /\ j \in Nat
  OBVIOUS
<1>2. /\ d \in Seq(Chars) /\ Len(d) = Len(u) - j
      /\ \A i \in 1..(Len(u) - j) : d[i] = u[j + i]
  <2>1. j + 1 \in 1..(Len(u) + 1) /\ Len(u) \in 0..Len(u) /\ j + 1 <= Len(u) + 1
    BY <1>1
  <2>2. (Len(u) + 1) - (j + 1) = Len(u) - j /\ (j + 1) - 1 = j
    BY <1>1
  <2>3. /\ SubSeq(u, j + 1, Len(u)) \in Seq(Chars)
        /\ Len(SubSeq(u, j + 1, Len(u))) = (Len(u) + 1) - (j + 1)
        /\ \A k \in 1..((Len(u) + 1) - (j + 1)) :
              SubSeq(u, j + 1, Len(u))[k] = u[((j + 1) - 1) + k]
    BY <2>1, PartOf
  <2> QED BY <2>2, <2>3 DEF DropChars
<1> HIDE DEF d
<1>3. ASSUME SignAt(d, 0) PROVE SignAt(u, j)
  <2>1. PICK k \in 1..Len(d) : d[k] = "=" /\ \A m \in 1..(k - 1) : d[m] = Blank
    BY <1>3 DEF SignAt
  <2>2. j + k \in (j + 1)..Len(u) /\ u[j + k] = "="
    BY <1>1, <1>2, <2>1
  <2>3. ASSUME NEW m \in (j + 1)..((j + k) - 1) PROVE u[m] = Blank
    <3>1. m - j \in 1..(k - 1) /\ m - j \in 1..(Len(u) - j) /\ j + (m - j) = m
      BY <1>1, <1>2, <2>1, <2>3
    <3> QED BY <1>2, <2>1, <3>1, Zenon
  <2> QED BY <2>2, <2>3 DEF SignAt
<1>4. ASSUME SignAt(u, j) PROVE SignAt(d, 0)
  <2>1. PICK k \in (j + 1)..Len(u) : u[k] = "=" /\ \A m \in (j + 1)..(k - 1) : u[m] = Blank
    BY <1>4 DEF SignAt
  <2>2. k - j \in 1..Len(d) /\ k - j \in 1..(Len(u) - j) /\ j + (k - j) = k
    BY <1>1, <1>2, <2>1
  <2>3. d[k - j] = "="
    BY <1>2, <2>1, <2>2
  <2>4. ASSUME NEW m \in 1..((k - j) - 1) PROVE d[m] = Blank
    <3>1. m \in 1..(Len(u) - j) /\ j + m \in (j + 1)..(k - 1)
      BY <1>1, <2>1, <2>4
    <3> QED BY <1>2, <2>1, <3>1
  <2>5. k - j \in (0 + 1)..Len(d) /\ \A m \in (0 + 1)..((k - j) - 1) : d[m] = Blank
    BY <2>2, <2>4
  <2> QED BY <2>3, <2>5 DEF SignAt
<1> QED BY <1>3, <1>4 DEF d

\* The names found in a text are the runs of letters before an operator.
LEMMA NamesIff ==
    ASSUME NEW u \in Seq(Chars), NEW x
    PROVE  x \in MatchedNames(u) <=>
             \E i, j \in 1..Len(u) : IsName(u, i, j) /\ x = SubSeq(u, i, j)
<1>1. DOMAIN u = 1..Len(u)
  OBVIOUS
<1>2. \A j \in 1..Len(u) : IsPrefix(Equal, TrimSpace(DropChars(u, j))) <=> SignAt(u, j)
  <2> SUFFICES ASSUME NEW j \in 1..Len(u)
               PROVE  IsPrefix(Equal, TrimSpace(DropChars(u, j))) <=> SignAt(u, j)
    OBVIOUS
  <2>1. j \in 0..Len(u)
    OBVIOUS
  <2>2. DropChars(u, j) \in Seq(Chars)
    BY <2>1, SplitAt
  <2> QED BY <2>1, <2>2, SignIsPrefix, SignAfter
<1>3. x \in MatchedNames(u) <=>
        \E r \in (DOMAIN u) \X (DOMAIN u) :
          /\ r[1] <= r[2] /\ (\A n \in r[1]..r[2] : u[n] \in Letters)
          /\ (r[1] = 1 \/ u[r[1] - 1] \notin Letters)
          /\ IsPrefix(Equal, TrimSpace(DropChars(u, r[2])))
          /\ x = SubSeq(u, r[1], r[2])
  BY DEF MatchedNames
<1>4. x \in MatchedNames(u) <=>
        \E i, j \in 1..Len(u) :
          /\ i <= j /\ (\A n \in i..j : u[n] \in Letters)
          /\ (i = 1 \/ u[i - 1] \notin Letters)
          /\ IsPrefix(Equal, TrimSpace(DropChars(u, j)))
          /\ x = SubSeq(u, i, j)
  <2> DEFINE found(i, j) == /\ i <= j /\ (\A n \in i..j : u[n] \in Letters)
                            /\ (i = 1 \/ u[i - 1] \notin Letters)
                            /\ IsPrefix(Equal, TrimSpace(DropChars(u, j)))
                            /\ x = SubSeq(u, i, j)
  <2>1. x \in MatchedNames(u) <=> \E r \in (1..Len(u)) \X (1..Len(u)) : found(r[1], r[2])
    BY <1>1, <1>3, Zenon
  <2> HIDE DEF found
  <2>2. ASSUME NEW r \in (1..Len(u)) \X (1..Len(u)), found(r[1], r[2])
        PROVE  \E i, j \in 1..Len(u) : found(i, j)
    <3>1. r[1] \in 1..Len(u) /\ r[2] \in 1..Len(u)
      OBVIOUS
    <3> QED BY <2>2, <3>1
  <2>3. ASSUME NEW i \in 1..Len(u), NEW j \in 1..Len(u), found(i, j)
        PROVE  \E r \in (1..Len(u)) \X (1..Len(u)) : found(r[1], r[2])
    <3> DEFINE r == <<i, j>>
    <3>1. r \in (1..Len(u)) \X (1..Len(u)) /\ r[1] = i /\ r[2] = j
      OBVIOUS
    <3> HIDE DEF r
    <3>2. found(r[1], r[2])
      BY <2>3, <3>1
    <3> QED BY <3>1, <3>2
  <2>4. x \in MatchedNames(u) <=> \E i, j \in 1..Len(u) : found(i, j)
    BY <2>1, <2>2, <2>3
  <2> QED BY <2>4 DEF found
<1> QED BY <1>2, <1>4 DEF IsName

\* The names of a text are names of it after another text, unless letters meet.
LEMMA Shifted ==
    ASSUME NEW a \in Seq(Chars), NEW u \in Seq(Chars)
    PROVE  /\ \A j \in 0..Len(u) : SignAt(a \o u, Len(a) + j) <=> SignAt(u, j)
           /\ \A i, j \in 1..Len(u) : i # 1 \/ (\A k \in 1..Len(a) : a[k] \notin Letters) =>
                 (IsName(a \o u, Len(a) + i, Len(a) + j) <=> IsName(u, i, j))
           /\ \A i, j \in 1..Len(u) : i <= j =>
                 SubSeq(a \o u, Len(a) + i, Len(a) + j) = SubSeq(u, i, j)
<1> DEFINE w == a \o u
           L == Len(a)
           N == Len(u)
<1>1. w \in Seq(Chars) /\ Len(w) = L + N /\ L \in Nat /\ N \in Nat
  OBVIOUS
<1>2. \A i \in 1..L : w[i] = a[i]
  OBVIOUS
<1>3. \A i \in 1..N : w[L + i] = u[i]
  OBVIOUS
<1> HIDE DEF w, L, N
<1>5. \A i \in (L + 1)..(L + N) : i - L \in 1..N /\ w[i] = u[i - L]
  <2> SUFFICES ASSUME NEW i \in (L + 1)..(L + N) PROVE i - L \in 1..N /\ w[i] = u[i - L]
    OBVIOUS
  <2>1. i - L \in 1..N /\ L + (i - L) = i
    BY <1>1
  <2> QED BY <1>3, <2>1
<1>6. \A j \in 0..N : SignAt(w, L + j) <=> SignAt(u, j)
  <2> SUFFICES ASSUME NEW j \in 0..N PROVE SignAt(w, L + j) <=> SignAt(u, j)
    OBVIOUS
  <2>1. ASSUME SignAt(w, L + j) PROVE SignAt(u, j)
    <3>1. PICK k \in ((L + j) + 1)..(L + N) :
             w[k] = "=" /\ \A m \in ((L + j) + 1)..(k - 1) : w[m] = Blank
      BY <1>1, <2>1 DEF SignAt
    <3>2. k \in (L + 1)..(L + N) /\ k - L \in (j + 1)..N
      BY <1>1, <3>1
    <3>3. ASSUME NEW m \in (j + 1)..((k - L) - 1) PROVE u[m] = Blank
      <4>1. L + m \in ((L + j) + 1)..(k - 1) /\ m \in 1..N
        BY <1>1, <3>1, <3>3
      <4> QED BY <1>3, <3>1, <4>1
    <3>4. u[k - L] = "="
      BY <1>5, <3>1, <3>2
    <3> QED BY <3>2, <3>3, <3>4 DEF SignAt, N
  <2>2. ASSUME SignAt(u, j) PROVE SignAt(w, L + j)
    <3>1. PICK k \in (j + 1)..N : u[k] = "=" /\ \A m \in (j + 1)..(k - 1) : u[m] = Blank
      BY <2>2 DEF SignAt, N
    <3>2. k \in 1..N /\ L + k \in ((L + j) + 1)..(L + N)
      BY <1>1, <3>1
    <3>3. ASSUME NEW m \in ((L + j) + 1)..((L + k) - 1) PROVE w[m] = Blank
      <4>1. m \in (L + 1)..(L + N) /\ m - L \in (j + 1)..(k - 1)
        BY <1>1, <3>1, <3>3
      <4> QED BY <1>5, <3>1, <4>1
    <3>4. w[L + k] = "="
      BY <1>3, <3>1, <3>2
    <3> QED BY <1>1, <3>2, <3>3, <3>4 DEF SignAt
  <2> QED BY <2>1, <2>2
<1>7. \A i, j \in 1..N : i # 1 \/ (\A k \in 1..L : w[k] \notin Letters) =>
         (IsName(w, L + i, L + j) <=> IsName(u, i, j))
  <2> SUFFICES ASSUME NEW i \in 1..N, NEW j \in 1..N, i # 1 \/ \A k \in 1..L : w[k] \notin Letters
               PROVE  IsName(w, L + i, L + j) <=> IsName(u, i, j)
    OBVIOUS
  <2>1. L + i <= L + j <=> i <= j
    BY <1>1
  <2>2. (\A n \in (L + i)..(L + j) : w[n] \in Letters) <=> \A n \in i..j : u[n] \in Letters
    <3>1. \A n \in i..j : n \in 1..N /\ L + n \in (L + i)..(L + j)
      BY <1>1
    <3>2. \A n \in (L + i)..(L + j) : n \in (L + 1)..(L + N) /\ n - L \in i..j
      BY <1>1
    <3> QED BY <1>3, <1>5, <3>1, <3>2, Zenon
  <2>3. (L + i = 1 \/ w[(L + i) - 1] \notin Letters) <=> (i = 1 \/ u[i - 1] \notin Letters)
    <3>1. CASE i = 1
      <4>1. L = 0 \/ (L \in 1..L /\ (L + i) - 1 = L)
        BY <1>1, <3>1
      <4> QED BY <3>1, <4>1
    <3>2. CASE i # 1
      <4>1. i - 1 \in 1..N /\ (L + i) - 1 = L + (i - 1) /\ L + i # 1
        BY <1>1, <3>2
      <4> QED BY <1>3, <3>2, <4>1
    <3> QED BY <3>1, <3>2
  <2>4. SignAt(w, L + j) <=> SignAt(u, j)
    BY <1>1, <1>6
  <2> QED BY <2>1, <2>2, <2>3, <2>4 DEF IsName
<1>8. ASSUME NEW i \in 1..N, NEW j \in 1..N, i <= j
      PROVE  SubSeq(w, L + i, L + j) = SubSeq(u, i, j)
  <2>1. /\ L + i \in 1..(Len(w) + 1) /\ L + j \in 0..Len(w) /\ L + i <= (L + j) + 1
        /\ i \in 1..(Len(u) + 1) /\ j \in 0..Len(u) /\ i <= j + 1
        /\ ((L + j) + 1) - (L + i) = (j + 1) - i
    BY <1>1, <1>8 DEF N
  <2>2. /\ SubSeq(w, L + i, L + j) \in Seq(Chars)
        /\ Len(SubSeq(w, L + i, L + j)) = ((L + j) + 1) - (L + i)
        /\ \A k \in 1..(((L + j) + 1) - (L + i)) : SubSeq(w, L + i, L + j)[k] = w[((L + i) - 1) + k]
    BY <1>1, <2>1, PartOf
  <2>3. /\ SubSeq(u, i, j) \in Seq(Chars) /\ Len(SubSeq(u, i, j)) = (j + 1) - i
        /\ \A k \in 1..((j + 1) - i) : SubSeq(u, i, j)[k] = u[(i - 1) + k]
    BY <2>1, PartOf
  <2>4. \A k \in 1..((j + 1) - i) : (i - 1) + k \in 1..N /\ ((L + i) - 1) + k = L + ((i - 1) + k)
    BY <1>1
  <2>5. \A k \in 1..((j + 1) - i) : w[((L + i) - 1) + k] = u[(i - 1) + k]
    BY <1>3, <2>4
  <2>6. \A k \in 1..((j + 1) - i) : SubSeq(w, L + i, L + j)[k] = SubSeq(u, i, j)[k]
    BY <2>1, <2>2, <2>3, <2>5
  <2> QED BY <2>1, <2>2, <2>3, <2>6, SeqEqual
<1>9. (\A k \in 1..L : a[k] \notin Letters) => \A k \in 1..L : w[k] \notin Letters
  BY <1>2
<1> QED BY <1>6, <1>7, <1>8, <1>9 DEF w, L, N

\* Characters before a text that are no letters add no name ...
LEMMA SkipOther ==
    ASSUME NEW a \in Seq(Chars), \A i \in 1..Len(a) : a[i] \notin Letters, NEW u \in Seq(Chars)
    PROVE  MatchedNames(a \o u) = MatchedNames(u)
<1> DEFINE w == a \o u
           L == Len(a)
           N == Len(u)
<1>1. w \in Seq(Chars) /\ Len(w) = L + N /\ L \in Nat /\ N \in Nat
  OBVIOUS
<1>2. \A i \in 1..L : w[i] = a[i]
  OBVIOUS
<1>3. /\ \A i, j \in 1..N : i # 1 \/ (\A k \in 1..L : a[k] \notin Letters) =>
            (IsName(w, L + i, L + j) <=> IsName(u, i, j))
      /\ \A i, j \in 1..N : i <= j => SubSeq(w, L + i, L + j) = SubSeq(u, i, j)
  BY Shifted, Zenon
<1> HIDE DEF w, L, N
<1>4. \A i \in 1..L : w[i] \notin Letters
  BY <1>2 DEF L
<1>7. \A i, j \in 1..N : IsName(w, L + i, L + j) <=> IsName(u, i, j)
  BY <1>3 DEF L
<1>8. \A i, j \in 1..N : i <= j => SubSeq(w, L + i, L + j) = SubSeq(u, i, j)
  BY <1>3, Zenon
<1>9. \A i, j \in 1..(L + N) : IsName(w, i, j) =>
         i \in (L + 1)..(L + N) /\ j \in (L + 1)..(L + N) /\ i <= j
  <2> SUFFICES ASSUME NEW i \in 1..(L + N), NEW j \in 1..(L + N), IsName(w, i, j)
               PROVE  i \in (L + 1)..(L + N) /\ j \in (L + 1)..(L + N) /\ i <= j
    OBVIOUS
  <2>1. i <= j /\ \A n \in i..j : w[n] \in Letters
    BY DEF IsName
  <2>2. i \in i..j
    BY <1>1, <2>1
  <2>3. ~(i <= L)
    BY <1>1, <1>4, <2>1, <2>2
  <2> QED BY <1>1, <2>1, <2>3
<1>10. ASSUME NEW x PROVE x \in MatchedNames(w) <=> x \in MatchedNames(u)
  <2>1. x \in MatchedNames(w) <=> \E i, j \in 1..(L + N) : IsName(w, i, j) /\ x = SubSeq(w, i, j)
    <3>1. x \in MatchedNames(w) <=> \E i, j \in 1..Len(w) : IsName(w, i, j) /\ x = SubSeq(w, i, j)
      BY <1>1, NamesIff, Zenon
    <3> QED BY <1>1, <3>1
  <2>2. x \in MatchedNames(u) <=> \E i, j \in 1..N : IsName(u, i, j) /\ x = SubSeq(u, i, j)
    BY NamesIff DEF N
  <2>3. ASSUME NEW i \in 1..(L + N), NEW j \in 1..(L + N), IsName(w, i, j), x = SubSeq(w, i, j)
        PROVE  x \in MatchedNames(u)
    <3>1. i \in (L + 1)..(L + N) /\ j \in (L + 1)..(L + N) /\ i <= j
      BY <1>9, <2>3
    <3>2. /\ i - L \in 1..N /\ j - L \in 1..N /\ L + (i - L) = i /\ L + (j - L) = j
          /\ i - L <= j - L
      BY <1>1, <3>1
    <3>3. IsName(u, i - L, j - L) /\ x = SubSeq(u, i - L, j - L)
      BY <1>7, <1>8, <2>3, <3>2, Zenon
    <3> QED BY <2>2, <3>2, <3>3
  <2>4. ASSUME NEW i \in 1..N, NEW j \in 1..N, IsName(u, i, j), x = SubSeq(u, i, j)
        PROVE  x \in MatchedNames(w)
    <3>1. i <= j
      BY <2>4 DEF IsName
    <3>2. IsName(w, L + i, L + j) /\ x = SubSeq(w, L + i, L + j)
      BY <1>7, <1>8, <2>4, <3>1, Zenon
    <3>3. L + i \in 1..(L + N) /\ L + j \in 1..(L + N)
      BY <1>1
    <3> QED BY <2>1, <3>2, <3>3
  <2> QED BY <2>1, <2>2, <2>3, <2>4
<1> QED BY <1>10, Zenon DEF w

\* ... blanks after it add none ...
LEMMA BlanksAfter ==
    ASSUME NEW u \in Seq(Chars), NEW b \in Blanks
    PROVE  MatchedNames(u \o b) = MatchedNames(u)
<1> DEFINE w == u \o b
           N == Len(u)
           B == Len(b)
<1>1. b \in Seq(Chars) /\ B \in Nat /\ \A i \in 1..B : b[i] = Blank
  BY BlanksAreChars
<1>2. w \in Seq(Chars) /\ Len(w) = N + B /\ N \in Nat
  BY <1>1
<1>3. \A i \in 1..N : w[i] = u[i]
  BY <1>1
<1>4. \A i \in 1..B : w[N + i] = Blank
  BY <1>1
<1> HIDE DEF w, N, B
<1>5. \A i \in (N + 1)..(N + B) : w[i] = Blank
  <2> SUFFICES ASSUME NEW i \in (N + 1)..(N + B) PROVE w[i] = Blank
    OBVIOUS
  <2>1. i - N \in 1..B /\ N + (i - N) = i
    BY <1>1, <1>2
  <2> QED BY <1>4, <2>1
<1>6. Blank \notin Letters /\ Blank # "="
  BY SyntaxChars
<1>7. \A j \in 1..N : SignAt(w, j) <=> SignAt(u, j)
  <2> SUFFICES ASSUME NEW j \in 1..N PROVE SignAt(w, j) <=> SignAt(u, j)
    OBVIOUS
  <2>1. ASSUME SignAt(w, j) PROVE SignAt(u, j)
    <3>1. PICK k \in (j + 1)..(N + B) : w[k] = "=" /\ \A m \in (j + 1)..(k - 1) : w[m] = Blank
      BY <1>2, <2>1 DEF SignAt
    <3>2. ~(k \in (N + 1)..(N + B))
      BY <1>5, <1>6, <3>1
    <3>3. k \in (j + 1)..N /\ k \in 1..N /\ \A m \in (j + 1)..(k - 1) : m \in 1..N
      BY <1>1, <1>2, <3>1, <3>2
    <3> QED BY <1>3, <3>1, <3>3 DEF SignAt, N
  <2>2. ASSUME SignAt(u, j) PROVE SignAt(w, j)
    <3>1. PICK k \in (j + 1)..N : u[k] = "=" /\ \A m \in (j + 1)..(k - 1) : u[m] = Blank
      BY <2>2 DEF SignAt, N
    <3>2. k \in (j + 1)..(N + B) /\ k \in 1..N /\ \A m \in (j + 1)..(k - 1) : m \in 1..N
      BY <1>1, <1>2, <3>1
    <3> QED BY <1>2, <1>3, <3>1, <3>2 DEF SignAt
  <2> QED BY <2>1, <2>2
<1>8. \A i, j \in 1..N : IsName(w, i, j) <=> IsName(u, i, j)
  <2> SUFFICES ASSUME NEW i \in 1..N, NEW j \in 1..N PROVE IsName(w, i, j) <=> IsName(u, i, j)
    OBVIOUS
  <2>1. \A n \in i..j : n \in 1..N
    BY <1>2
  <2>2. i = 1 \/ i - 1 \in 1..N
    BY <1>2
  <2> QED BY <1>3, <1>7, <2>1, <2>2 DEF IsName
<1>9. ASSUME NEW i \in 1..N, NEW j \in 1..N
      PROVE  SubSeq(w, i, j) = SubSeq(u, i, j)
  <2>1. i \in Int /\ j \in Int /\ \A k \in i..j : k \in 1..N
    BY <1>2
  <2>2. u \in [1..N -> Chars] /\ w \in [1..(N + B) -> Chars]
    BY <1>2 DEF N
  <2>3. \A k \in i..j : u[k] \in Chars /\ w[k] \in Chars /\ w[k] = u[k]
    BY <1>3, <2>1, <2>2
  <2>4. /\ SubSeq(w, i, j) \in Seq(Chars) /\ Len(SubSeq(w, i, j)) = IF i <= j THEN j - i + 1 ELSE 0
        /\ \A k \in 1..(j - i + 1) : SubSeq(w, i, j)[k] = w[i + k - 1]
    BY <2>1, <2>3, SubSeqProperties
  <2>5. /\ SubSeq(u, i, j) \in Seq(Chars) /\ Len(SubSeq(u, i, j)) = IF i <= j THEN j - i + 1 ELSE 0
        /\ \A k \in 1..(j - i + 1) : SubSeq(u, i, j)[k] = u[i + k - 1]
    BY <2>1, <2>3, SubSeqProperties
  <2>6. \A k \in 1..(j - i + 1) : i + k - 1 \in i..j
    BY <2>1
  <2>7. \A k \in 1..(j - i + 1) : SubSeq(w, i, j)[k] = SubSeq(u, i, j)[k]
    BY <2>3, <2>4, <2>5, <2>6
  <2>8. \A k \in 1..Len(SubSeq(w, i, j)) : k \in 1..(j - i + 1)
    BY <2>1, <2>4
  <2> QED BY <2>4, <2>5, <2>7, <2>8, SeqEqual, Zenon
<1>10. \A i, j \in 1..(N + B) : IsName(w, i, j) => i \in 1..N /\ j \in 1..N
  <2> SUFFICES ASSUME NEW i \in 1..(N + B), NEW j \in 1..(N + B), IsName(w, i, j)
               PROVE  i \in 1..N /\ j \in 1..N
    OBVIOUS
  <2>1. i <= j /\ \A n \in i..j : w[n] \in Letters
    BY DEF IsName
  <2>2. j \in i..j
    BY <1>1, <1>2, <2>1
  <2>3. ~(j \in (N + 1)..(N + B))
    BY <1>5, <1>6, <2>1, <2>2
  <2> QED BY <1>1, <1>2, <2>1, <2>3
<1>11. ASSUME NEW x PROVE x \in MatchedNames(w) <=> x \in MatchedNames(u)
  <2>1. x \in MatchedNames(w) <=> \E i, j \in 1..(N + B) : IsName(w, i, j) /\ x = SubSeq(w, i, j)
    <3>1. x \in MatchedNames(w) <=> \E i, j \in 1..Len(w) : IsName(w, i, j) /\ x = SubSeq(w, i, j)
      BY <1>2, NamesIff
    <3> QED BY <1>2, <3>1
  <2>2. x \in MatchedNames(u) <=> \E i, j \in 1..N : IsName(u, i, j) /\ x = SubSeq(u, i, j)
    BY NamesIff DEF N
  <2>3. \A i \in 1..N : i \in 1..(N + B)
    BY <1>1, <1>2
  <2> QED BY <1>8, <1>9, <1>10, <2>1, <2>2, <2>3
<1> QED BY <1>11, Zenon DEF w

\* ... and a name before what is no letter is found when an equals sign follows.
LEMMA NameFirst ==
    ASSUME NEW l \in Seq(Letters) \ {<<>>},
           NEW y \in Seq(Chars), \A i \in 1..Len(y) : i = 1 => y[i] \notin Letters
    PROVE  MatchedNames(l \o y) = MatchedNames(y) \cup (IF SignAt(y, 0) THEN {l} ELSE {})
<1> DEFINE w == l \o y
           L == Len(l)
           N == Len(y)
<1>0. l \in Seq(Chars)
  BY SyntaxChars, SeqMonotonic
<1>1. w \in Seq(Chars) /\ Len(w) = L + N /\ L \in Nat /\ L >= 1 /\ N \in Nat
  BY <1>0
<1>2. \A i \in 1..L : w[i] \in Letters
  BY <1>0
<1>3. \A i \in 1..N : w[L + i] = y[i]
  BY <1>0
<1>4. /\ \A j \in 0..N : SignAt(w, L + j) <=> SignAt(y, j)
      /\ \A i, j \in 1..N : i # 1 \/ (\A k \in 1..L : l[k] \notin Letters) =>
            (IsName(w, L + i, L + j) <=> IsName(y, i, j))
      /\ \A i, j \in 1..N : i <= j => SubSeq(w, L + i, L + j) = SubSeq(y, i, j)
  BY <1>0, Shifted, Zenon
<1>5. SubSeq(w, 1, L) = l
  BY <1>0, DropConcat
<1> HIDE DEF w, L, N
<1>6. \A i \in 1..N : i = 1 => y[i] \notin Letters
  BY DEF N
<1>7. Blank \notin Letters /\ "=" \notin Letters
  BY SyntaxChars
<1>8. SignAt(w, L) <=> SignAt(y, 0)
  <2>1. 0 \in 0..N /\ L + 0 = L
    BY <1>1
  <2>2. SignAt(w, L + 0) <=> SignAt(y, 0)
    BY <1>4, <2>1
  <2> QED BY <2>1, <2>2
<1>9. ASSUME NEW i \in 1..(L + N), NEW j \in 1..(L + N), i <= L
      PROVE  IsName(w, i, j) <=> i = 1 /\ j = L /\ SignAt(w, L)
  <2>1. ASSUME IsName(w, i, j) PROVE i = 1 /\ j = L /\ SignAt(w, L)
    <3>1. /\ i <= j /\ (\A n \in i..j : w[n] \in Letters) /\ (i = 1 \/ w[i - 1] \notin Letters)
          /\ SignAt(w, j)
      BY <2>1 DEF IsName
    <3>2. i = 1
      <4>1. i = 1 \/ i - 1 \in 1..L
        BY <1>1, <1>9
      <4> QED BY <1>2, <3>1, <4>1
    <3>3. ~(j > L)
      <4> SUFFICES ASSUME j > L PROVE FALSE
        OBVIOUS
      <4>1. 1 \in 1..N /\ L + 1 \in i..j
        BY <1>1, <1>9
      <4> QED BY <1>3, <1>6, <3>1, <4>1
    <3>4. ~(j < L)
      <4> SUFFICES ASSUME j < L PROVE FALSE
        OBVIOUS
      <4>1. PICK k \in (j + 1)..(L + N) : w[k] = "=" /\ \A m \in (j + 1)..(k - 1) : w[m] = Blank
        BY <1>1, <3>1 DEF SignAt
      <4>2. j + 1 \in 1..L /\ (k = j + 1 \/ j + 1 \in (j + 1)..(k - 1))
        BY <1>1, <4>1
      <4> QED BY <1>2, <1>7, <4>1, <4>2
    <3>5. j = L
      BY <1>1, <3>3, <3>4
    <3> QED BY <3>1, <3>2, <3>5
  <2>2. ASSUME i = 1, j = L, SignAt(w, L) PROVE IsName(w, i, j)
    BY <1>1, <1>2, <2>2 DEF IsName
  <2> QED BY <2>1, <2>2
<1>10. ASSUME NEW i \in 1..N, NEW j \in 1..N
       PROVE  IsName(w, L + i, L + j) <=> IsName(y, i, j)
  <2>1. CASE i # 1
    BY <1>4, <2>1
  <2>2. CASE i = 1
    <3>1. ~IsName(y, i, j)
      <4>1. i <= j => i \in i..j
        BY <1>1
      <4> QED BY <1>6, <2>2, <4>1 DEF IsName
    <3>2. ~IsName(w, L + i, L + j)
      <4>1. L + i <= L + j => L + i \in (L + i)..(L + j)
        BY <1>1
      <4>2. w[L + i] \notin Letters
        BY <1>3, <1>6, <2>2
      <4> QED BY <4>1, <4>2 DEF IsName
    <3> QED BY <3>1, <3>2
  <2> QED BY <2>1, <2>2
<1>11. ASSUME NEW x
       PROVE  x \in MatchedNames(w) <=> x \in MatchedNames(y) \/ (SignAt(y, 0) /\ x = l)
  <2>1. x \in MatchedNames(w) <=> \E i, j \in 1..(L + N) : IsName(w, i, j) /\ x = SubSeq(w, i, j)
    <3>1. x \in MatchedNames(w) <=> \E i, j \in 1..Len(w) : IsName(w, i, j) /\ x = SubSeq(w, i, j)
      BY <1>1, NamesIff, Zenon
    <3> QED BY <1>1, <3>1, Zenon
  <2>2. x \in MatchedNames(y) <=> \E i, j \in 1..N : IsName(y, i, j) /\ x = SubSeq(y, i, j)
    BY NamesIff DEF N
  <2>3. ASSUME NEW i \in 1..(L + N), NEW j \in 1..(L + N), IsName(w, i, j), x = SubSeq(w, i, j)
        PROVE  x \in MatchedNames(y) \/ (SignAt(y, 0) /\ x = l)
    <3>1. CASE i <= L
      <4>1. i = 1 /\ j = L /\ SignAt(w, L)
        BY <1>9, <2>3, <3>1
      <4> QED BY <1>5, <1>8, <2>3, <4>1
    <3>2. CASE ~(i <= L)
      <4>1. i <= j
        BY <2>3 DEF IsName
      <4>2. /\ i - L \in 1..N /\ j - L \in 1..N /\ L + (i - L) = i /\ L + (j - L) = j
            /\ i - L <= j - L
        BY <1>1, <3>2, <4>1
      <4>3. IsName(y, i - L, j - L) /\ x = SubSeq(y, i - L, j - L)
        BY <1>4, <1>10, <2>3, <4>2, Zenon
      <4> QED BY <2>2, <4>2, <4>3, Zenon
    <3> QED BY <3>1, <3>2
  <2>4. ASSUME NEW i \in 1..N, NEW j \in 1..N, IsName(y, i, j), x = SubSeq(y, i, j)
        PROVE  x \in MatchedNames(w)
    <3>1. i <= j
      BY <2>4 DEF IsName
    <3>2. IsName(w, L + i, L + j) /\ x = SubSeq(w, L + i, L + j)
      BY <1>4, <1>10, <2>4, <3>1, Zenon
    <3>3. L + i \in 1..(L + N) /\ L + j \in 1..(L + N)
      BY <1>1
    <3> QED BY <2>1, <3>2, <3>3, Zenon
  <2>5. ASSUME SignAt(y, 0), x = l PROVE x \in MatchedNames(w)
    <3>1. 1 \in 1..(L + N) /\ L \in 1..(L + N) /\ 1 <= L
      BY <1>1
    <3>2. IsName(w, 1, L)
      BY <1>8, <1>9, <2>5, <3>1
    <3> QED BY <1>5, <2>1, <2>5, <3>1, <3>2
  <2> QED BY <2>2, <2>3, <2>4, <2>5, <2>1
<1> QED BY <1>11 DEF w
-----------------------------------------------------------------------------
(***************************************************************************)
(* A text without its strings.                                             *)
(***************************************************************************)

\* What WithoutStrings keeps of each character.
Left(s, mode) ==
    [i \in 1..Len(s) |->
        CASE s[i] = QuoteMark /\ mode[i - 1] # "escaped" -> <<Blank>>
          [] s[i] # QuoteMark /\ mode[i - 1] = "outside" -> <<s[i]>>
          [] OTHER -> <<>>]

\* What is left of a text that is read from start on, and how reading goes on.
Stripped(s, start) == WithoutStrings(s, Reading(s, start, DoubleQuote))
Ends(s, start) == Reading(s, start, DoubleQuote)[Len(s)]

\* What is left of a text without its strings, piece by piece.
LEMMA LeftType ==
    ASSUME NEW s \in Seq(Chars), NEW mode
    PROVE  /\ Left(s, mode) \in [1..Len(s) -> Seq(Chars)]
           /\ Left(s, mode) \in Seq(Seq(Chars)) /\ Len(Left(s, mode)) = Len(s)
           /\ WithoutStrings(s, mode) = FlattenSeq(Left(s, mode))
           /\ WithoutStrings(s, mode) \in Seq(Chars)
<1>1. Blank \in Chars
  BY SyntaxChars
<1>2. \A i \in 1..Len(s) : <<s[i]>> \in Seq(Chars) /\ <<>> \in Seq(Chars) /\ <<Blank>> \in Seq(Chars)
  BY <1>1
<1>3. Left(s, mode) \in [1..Len(s) -> Seq(Chars)] /\ Len(s) \in Nat
  BY <1>2 DEF Left
<1>4. Left(s, mode) \in Seq(Seq(Chars)) /\ Len(Left(s, mode)) = Len(s)
  BY <1>3, FunIsSeq
<1>5. WithoutStrings(s, mode) = FlattenSeq(Left(s, mode))
  BY DEF WithoutStrings, Left
<1> QED BY <1>3, <1>4, <1>5, FlattenType

\* A text without its strings is a text.
LEMMA StrippedType ==
    ASSUME NEW s \in Seq(Chars), NEW start \in Modes
    PROVE  /\ Stripped(s, start) \in Seq(Chars) /\ Ends(s, start) \in Modes
           /\ Stripped(<<>>, start) = <<>>
<1>1. Stripped(s, start) \in Seq(Chars)
  BY LeftType DEF Stripped
<1>2. Ends(s, start) \in Modes
  BY ReadingSteps DEF Ends
<1>3. Stripped(<<>>, start) = <<>>
  <2>1. <<>> \in Seq(Chars)
    OBVIOUS
  <2>2. Stripped(<<>>, start) = FlattenSeq(Left(<<>>, Reading(<<>>, start, DoubleQuote)))
    BY <2>1, LeftType, Zenon DEF Stripped
  <2>3. Left(<<>>, Reading(<<>>, start, DoubleQuote)) = <<>>
    <3> DEFINE d == Left(<<>>, Reading(<<>>, start, DoubleQuote))
    <3>1. d \in Seq(Seq(Chars)) /\ Len(d) = Len(<<>>)
      BY <2>1, LeftType, Zenon
    <3> HIDE DEF d
    <3>2. d = <<>>
      BY <3>1
    <3> QED BY <3>2 DEF d
  <2>4. FlattenSeq(<<>>) = <<>>
    <3>1. <<>> \in Seq(Seq(Chars))
      OBVIOUS
    <3> QED BY <2>1, <3>1, FlattenAppend, Zenon
  <2> QED BY <2>2, <2>3, <2>4
<1> QED BY <1>1, <1>2, <1>3

\* A text is stripped part by part.
LEMMA StrippedConcat ==
    ASSUME NEW a \in Seq(Chars), NEW b \in Seq(Chars), NEW start \in Modes
    PROVE  /\ Stripped(Cat(a, b), start) = Cat(Stripped(a, start), Stripped(b, Ends(a, start)))
           /\ Ends(Cat(a, b), start) = Ends(b, Ends(a, start))
<1> DEFINE A == Reading(a, start, DoubleQuote)
           B == Reading(b, Ends(a, start), DoubleQuote)
           w == a \o b
           m == Reading(w, start, DoubleQuote)
           X == Left(a, A)
           Y == Left(b, B)
           W == Left(w, m)
<1>1. /\ Len(a) \in Nat /\ Len(b) \in Nat /\ Len(w) = Len(a) + Len(b) /\ w \in Seq(Chars)
      /\ (\A i \in 1..Len(a) : w[i] = a[i]) /\ \A i \in 1..Len(b) : w[Len(a) + i] = b[i]
  OBVIOUS
<1>2. (\A i \in 0..Len(a) : m[i] = A[i]) /\ \A i \in 0..Len(b) : m[Len(a) + i] = B[i]
  BY ReadingConcat DEF Ends
<1> HIDE DEF A, B, m, w
<1>3. /\ X \in Seq(Seq(Chars)) /\ Len(X) = Len(a) /\ Y \in Seq(Seq(Chars)) /\ Len(Y) = Len(b)
      /\ W \in [1..Len(w) -> Seq(Chars)]
  BY <1>1, LeftType
<1>4. \A i \in 1..Len(a) : W[i] = X[i]
  <2> SUFFICES ASSUME NEW i \in 1..Len(a) PROVE W[i] = X[i]
    OBVIOUS
  <2>1. i \in 1..Len(w) /\ i - 1 \in 0..Len(a)
    BY <1>1
  <2>2. w[i] = a[i] /\ m[i - 1] = A[i - 1]
    BY <1>1, <1>2, <2>1
  <2> QED BY <2>1, <2>2 DEF Left
<1>5. \A i \in 1..Len(b) : W[Len(a) + i] = Y[i]
  <2> SUFFICES ASSUME NEW i \in 1..Len(b) PROVE W[Len(a) + i] = Y[i]
    OBVIOUS
  <2>1. Len(a) + i \in 1..Len(w) /\ i - 1 \in 0..Len(b) /\ (Len(a) + i) - 1 = Len(a) + (i - 1)
    BY <1>1
  <2>2. w[Len(a) + i] = b[i] /\ m[(Len(a) + i) - 1] = B[i - 1]
    BY <1>1, <1>2, <2>1
  <2> QED BY <2>1, <2>2 DEF Left
<1> HIDE DEF X, Y, W
<1>6. FlattenSeq(W) = FlattenSeq(X) \o FlattenSeq(Y)
  <2>1. /\ W \in [1..(Len(X) + Len(Y)) -> Seq(Chars)]
        /\ \A i \in 1..Len(X) : W[i] = X[i]
        /\ \A i \in 1..Len(Y) : W[Len(X) + i] = Y[i]
    BY <1>1, <1>3, <1>4, <1>5
  <2> QED BY <1>3, <2>1, FlattenParts, ZenonT(30)
<1>7. /\ Stripped(w, start) = FlattenSeq(W) /\ Stripped(a, start) = FlattenSeq(X)
      /\ Stripped(b, Ends(a, start)) = FlattenSeq(Y)
  BY <1>1, LeftType DEF Stripped, W, X, Y, m, A, B
<1>8. Ends(w, start) = Ends(b, Ends(a, start))
  <2>1. Len(b) \in 0..Len(b) /\ Len(w) = Len(a) + Len(b)
    BY <1>1
  <2>2. m[Len(w)] = B[Len(b)]
    BY <1>2, <2>1
  <2>3. Ends(w, start) = m[Len(w)] /\ Ends(b, Ends(a, start)) = B[Len(b)]
    BY DEF Ends, m, B
  <2> QED BY <2>2, <2>3
<1> QED BY <1>6, <1>7, <1>8 DEF w, Cat

\* Outside of quotes, a text without quotes is left as it is.
LEMMA PlainStripped ==
    ASSUME NEW s \in Seq(Chars), \A i \in 1..Len(s) : s[i] \notin {QuoteMark, RightBrace}
    PROVE  Stripped(s, "outside") = s /\ Ends(s, "outside") = "outside"
<1> DEFINE m == Reading(s, "outside", DoubleQuote)
<1>1. \A i \in 0..Len(s) : m[i] = "outside"
  BY PlainIsSealed
<1>2. Ends(s, "outside") = "outside"
  BY <1>1 DEF Ends
<1>3. Stripped(s, "outside") = FlattenSeq(Left(s, m))
  BY LeftType DEF Stripped
<1> HIDE DEF m
<1>4. Left(s, m) = [i \in DOMAIN s |-> <<s[i]>>]
  <2>1. DOMAIN s = 1..Len(s)
    OBVIOUS
  <2>2. \A i \in 1..Len(s) : m[i - 1] = "outside" /\ s[i] # QuoteMark
    <3>1. \A i \in 1..Len(s) : i - 1 \in 0..Len(s)
      OBVIOUS
    <3> QED BY <1>1, <3>1
  <2> QED BY <2>1, <2>2 DEF Left
<1> QED BY <1>2, <1>3, <1>4, FlattenSingles

\* The inside of a quoted string is left out.
LEMMA InsideStripped ==
    ASSUME NEW e \in Seq(Chars),
           \A i \in 0..Len(e) : Reading(e, "inside", DoubleQuote)[i] # "outside"
    PROVE  Stripped(e, "inside") = <<>>
<1> DEFINE m == Reading(e, "inside", DoubleQuote)
           X == Left(e, m)
<1>1. "inside" \in Modes /\ Len(e) \in Nat
  BY DEF Modes
<1>2. m \in [0..Len(e) -> Modes] /\ \A i \in 1..Len(e) : m[i] = After(m[i - 1], e[i], DoubleQuote)
  BY <1>1, ReadingSteps
<1>3. Stripped(e, "inside") = FlattenSeq(X)
  BY LeftType DEF Stripped
<1>4. \A i \in 0..Len(e) : m[i] # "outside"
  OBVIOUS
<1> HIDE DEF m
<1>5. ASSUME NEW i \in 1..Len(e) PROVE X[i] = <<>>
  <2>1. i - 1 \in 0..Len(e) /\ i \in 0..Len(e)
    BY <1>1
  <2>2. m[i - 1] # "outside" /\ m[i] # "outside" /\ m[i - 1] \in Modes
    BY <1>2, <1>4, <2>1
  <2>3. m[i - 1] = "inside" => e[i] # QuoteMark
    <3>1. QuoteMark # "\\" /\ QuoteMark \in DoubleQuote
      BY DEF QuoteMark, DoubleQuote
    <3>2. After("inside", QuoteMark, DoubleQuote) = "outside"
      BY <3>1 DEF After
    <3> QED BY <1>2, <2>2, <3>2
  <2>4. ~(e[i] = QuoteMark /\ m[i - 1] # "escaped") /\ ~(e[i] # QuoteMark /\ m[i - 1] = "outside")
    BY <2>2, <2>3 DEF Modes
  <2> QED BY <2>4 DEF Left
<1>6. X \in Seq(Seq({}))
  <2>1. X \in [1..Len(e) -> Seq(Chars)]
    BY LeftType
  <2>2. <<>> \in Seq({})
    OBVIOUS
  <2>3. X \in [1..Len(e) -> Seq({})]
    <3> HIDE DEF X
    <3> QED BY <1>5, <2>1, <2>2
  <2> QED BY <1>1, <2>3, FunIsSeq
<1> HIDE DEF X
<1>7. FlattenSeq(X) \in Seq({})
  BY <1>6, FlattenType
<1> QED BY <1>3, <1>7

\* A quote ends one mode, begins the other and leaves a blank.
LEMMA QuoteStripped ==
    /\ Stripped(<<QuoteMark>>, "outside") = <<Blank>> /\ Ends(<<QuoteMark>>, "outside") = "inside"
    /\ Stripped(<<QuoteMark>>, "inside") = <<Blank>> /\ Ends(<<QuoteMark>>, "inside") = "outside"
<1> DEFINE q == <<QuoteMark>>
<1>1. QuoteMark \in Chars /\ QuoteMark # "\\" /\ QuoteMark \in DoubleQuote /\ Blank \in Chars
  BY SyntaxChars DEF QuoteMark, DoubleQuote
<1>2. q \in Seq(Chars) /\ Len(q) = 1 /\ q[1] = QuoteMark
  BY <1>1
<1> HIDE DEF q
<1>3. /\ After("outside", QuoteMark, DoubleQuote) = "inside"
      /\ After("inside", QuoteMark, DoubleQuote) = "outside"
  BY <1>1 DEF After
<1>4. ASSUME NEW start \in {"outside", "inside"}
      PROVE  /\ Stripped(q, start) = <<Blank>>
             /\ Ends(q, start) = After(start, QuoteMark, DoubleQuote)
  <2> DEFINE m == Reading(q, start, DoubleQuote)
             X == Left(q, m)
  <2>1. start \in Modes /\ Len(q) \in Nat
    BY <1>2 DEF Modes
  <2>2. m[0] = start /\ \A i \in 1..Len(q) : m[i] = After(m[i - 1], q[i], DoubleQuote)
    BY <2>1, ReadingSteps
  <2>3. Ends(q, start) = m[1]
    BY <1>2 DEF Ends
  <2>4. Stripped(q, start) = FlattenSeq(X) /\ X \in Seq(Seq(Chars)) /\ Len(X) = 1
    BY <1>2, LeftType DEF Stripped
  <2> HIDE DEF m
  <2>5. m[1] = After(start, QuoteMark, DoubleQuote)
    BY <1>2, <2>2
  <2>6. X[1] = <<Blank>>
    <3>1. 1 \in 1..Len(q) /\ m[1 - 1] # "escaped"
      BY <1>2, <2>2
    <3> QED BY <1>2, <3>1 DEF Left
  <2> HIDE DEF X
  <2>7. PICK y : y = <<Blank>> /\ y \in Seq(Chars)
    <3>1. <<Blank>> \in Seq(Chars)
      BY <1>1
    <3> QED BY <3>1, Zenon
  <2>8. X = <<y>>
    BY <2>4, <2>6, <2>7
  <2>9. <<>> \in Seq(Seq(Chars))
    OBVIOUS
  <2>10. FlattenSeq(<<y>>) = y
    BY <2>7, <2>9, FlattenOne, Zenon
  <2> QED BY <2>3, <2>4, <2>5, <2>7, <2>8, <2>10
<1>5. "outside" \in {"outside", "inside"} /\ "inside" \in {"outside", "inside"}
  OBVIOUS
<1> QED BY <1>3, <1>4, <1>5 DEF q

\* Nothing but blanks is left of blanks.
LEMMA BlanksStripped ==
    ASSUME NEW b \in Blanks, NEW start \in Modes
    PROVE  Stripped(b, start) \in Blanks
<1> DEFINE X == Left(b, Reading(b, start, DoubleQuote))
<1>1. b \in Seq(Chars) /\ Len(b) \in Nat /\ \A i \in 1..Len(b) : b[i] = Blank
  BY BlanksAreChars
<1>2. Stripped(b, start) = FlattenSeq(X) /\ X \in [1..Len(b) -> Seq(Chars)]
  BY <1>1, LeftType DEF Stripped
<1>3. \A i \in 1..Len(b) : X[i] \in {<<>>, <<Blank>>}
  BY <1>1 DEF Left
<1>4. <<>> \in Seq({Blank}) /\ <<Blank>> \in Seq({Blank})
  OBVIOUS
<1> HIDE DEF X
<1>5. X \in [1..Len(b) -> Seq({Blank})]
  BY <1>2, <1>3, <1>4, Zenon
<1>6. X \in Seq(Seq({Blank}))
  BY <1>1, <1>5, FunIsSeq
<1>7. FlattenSeq(X) \in Seq({Blank})
  BY <1>6, FlattenType
<1> QED BY <1>2, <1>7 DEF Blanks

\* Two blanks are left of a quoted string.
LEMMA StringStripped ==
    ASSUME NEW e \in Seq(Chars),
           \A i \in 0..Len(e) : Reading(e, "inside", DoubleQuote)[i] # "outside",
           Ends(e, "inside") = "inside", NEW t \in Seq(Chars)
    PROVE  Stripped(Cat(<<QuoteMark>>, Cat(e, Cat(<<QuoteMark>>, t))), "outside")
             = Cat(<<Blank>>, Cat(<<Blank>>, Stripped(t, "outside")))
<1> DEFINE u == Cat(<<QuoteMark>>, t)
           v == Cat(e, u)
<1>0. <<QuoteMark>> \in Seq(Chars)
  BY SyntaxChars
<1>1. PICK q \in Seq(Chars) : q = <<QuoteMark>>
  BY <1>0, Zenon
<1>7. /\ Stripped(q, "outside") = <<Blank>> /\ Ends(q, "outside") = "inside"
      /\ Stripped(q, "inside") = <<Blank>> /\ Ends(q, "inside") = "outside"
  BY <1>1, QuoteStripped, Zenon
<1>2. "inside" \in Modes /\ "outside" \in Modes
  BY DEF Modes
<1>3. u \in Seq(Chars) /\ v \in Seq(Chars)
  BY <1>1, CatType, Zenon
<1>4. Stripped(u, "inside") = Cat(<<Blank>>, Stripped(t, "outside"))
  <2>1. Stripped(Cat(q, t), "inside") = Cat(Stripped(q, "inside"), Stripped(t, Ends(q, "inside")))
    BY <1>2, StrippedConcat
  <2> QED BY <1>1, <1>7, <2>1
<1> HIDE DEF u
<1>5. Stripped(v, "inside") = Stripped(u, "inside")
  <2>1. Stripped(v, "inside") = Cat(Stripped(e, "inside"), Stripped(u, Ends(e, "inside")))
    BY <1>2, <1>3, StrippedConcat
  <2>2. Stripped(u, "inside") \in Seq(Chars)
    BY <1>2, <1>3, StrippedType
  <2>3. Stripped(e, "inside") = <<>>
    BY InsideStripped
  <2> QED BY <2>1, <2>2, <2>3, CatEmpty
<1> HIDE DEF v
<1>6. Stripped(Cat(q, v), "outside") = Cat(<<Blank>>, Stripped(v, "inside"))
  <2>1. Stripped(Cat(q, v), "outside") = Cat(Stripped(q, "outside"), Stripped(v, Ends(q, "outside")))
    BY <1>2, <1>3, StrippedConcat
  <2> QED BY <1>7, <2>1
<1> QED BY <1>1, <1>4, <1>5, <1>6 DEF u, v

\* The results of the scanning functions are parts of the text.
LEMMA ScanIdentIs ==
    ASSUME NEW s \in Seq(Chars), NEW id \in scanIdent(s)
    PROVE  /\ id.value \in Seq(Letters) \ {<<>>} /\ id.rest \in Seq(Chars)
           /\ s = Cat(id.value, id.rest)
<1> DEFINE N == {i \in 0..Len(s) : \A j \in 1..i : s[j] \in Letters}
           n == Max(N)
<1>1. N \in SUBSET Nat /\ 0 \in N /\ Len(s) \in Nat /\ \A i \in N : i <= Len(s)
  OBVIOUS
<1>2. n \in N
  <2> HIDE DEF N
  <2> QED BY <1>1, MaxIsGreatest, Zenon
<1>3. scanIdent(s) = IF n = 0 THEN {} ELSE {[value |-> SubSeq(s, 1, n), rest |-> DropChars(s, n)]}
  BY DEF scanIdent
<1>4. n \in 0..Len(s) /\ \A j \in 1..n : s[j] \in Letters
  BY <1>2
<1> HIDE DEF n
<1>5. n # 0 /\ id.value = SubSeq(s, 1, n) /\ id.rest = DropChars(s, n)
  BY <1>3
<1>6. /\ SubSeq(s, 1, n) \in Seq(Chars) /\ Len(SubSeq(s, 1, n)) = n
      /\ DropChars(s, n) \in Seq(Chars) /\ s = SubSeq(s, 1, n) \o DropChars(s, n)
  BY <1>4, SplitAt
<1>7. SubSeq(s, 1, n) \in Seq(Letters)
  BY <1>4, SubSeqProperties
<1>8. SubSeq(s, 1, n) # <<>>
  BY <1>5, <1>6
<1> QED BY <1>5, <1>6, <1>7, <1>8 DEF Cat

\* The operator read and the rest make up the text.
LEMMA ScanOpIs ==
    ASSUME NEW s \in Seq(Chars), NEW op \in scanOp(MatchOps, s)
    PROVE  /\ op.value \in MatcherOps /\ op.rest \in Seq(Chars)
           /\ s = Cat(op.value, op.rest)
<1>1. PICK i \in DOMAIN MatchOps :
         /\ IsPrefix(MatchOps[i], s)
         /\ op = [value |-> MatchOps[i], rest |-> DropChars(s, Len(MatchOps[i]))]
  BY DEF scanOp
<1> DEFINE o == MatchOps[i]
<1>2. o \in MatcherOps
  BY DEF MatchOps, MatcherOps
<1>3. o \in Seq(Chars)
  BY <1>2, OpsAreChars DEF MatcherOps
<1>4. op.value = o /\ op.rest = DropChars(s, Len(o)) /\ IsPrefix(o, s)
  BY <1>1
<1> HIDE DEF o
<1>5. Len(o) <= Len(s) /\ \A k \in 1..Len(o) : s[k] = o[k]
  BY <1>3, <1>4, PrefixIff
<1>6. Len(o) \in 0..Len(s)
  BY <1>3, <1>5
<1>7. /\ SubSeq(s, 1, Len(o)) \in Seq(Chars) /\ Len(SubSeq(s, 1, Len(o))) = Len(o)
      /\ DropChars(s, Len(o)) \in Seq(Chars) /\ s = SubSeq(s, 1, Len(o)) \o DropChars(s, Len(o))
  BY <1>6, SplitAt
<1>8. \A k \in 1..Len(o) : SubSeq(s, 1, Len(o))[k] = s[k]
  BY <1>6
<1>9. SubSeq(s, 1, Len(o)) = o
  BY <1>3, <1>5, <1>7, <1>8, SeqEqual
<1> QED BY <1>2, <1>4, <1>7, <1>9 DEF Cat

\* A string without a backquote at its front is what lies between two quotes,
\* of which the second is the first that is not escaped.
LEMMA ScanStringIs ==
    ASSUME NEW s \in Seq(Chars), s # <<>> => s[1] # Backquote, NEW str \in scanString(s)
    PROVE  /\ str.value \in Seq(Chars) /\ str.rest \in Seq(Chars)
           /\ \E e \in Seq(Chars) :
                /\ \A i \in 0..Len(e) : Reading(e, "inside", DoubleQuote)[i] # "outside"
                /\ Ends(e, "inside") = "inside"
                /\ s = Cat(<<QuoteMark>>, Cat(e, Cat(<<QuoteMark>>, str.rest)))
<1>1. s # <<>> /\ s[1] = QuoteMark /\ str \in unquote(Tail(s))
  BY DEF scanString
<1> DEFINE t == Tail(s)
           mode == Reading(t, "inside", DoubleQuote)
           ends == {i \in DOMAIN t : mode[i] = "outside"}
           end == Min(ends)
           value == FlattenSeq([i \in 1..(end - 1) |->
                                  IF mode[i] = "escaped" THEN <<>> ELSE <<t[i]>>])
<1>2. t \in Seq(Chars) /\ s = <<QuoteMark>> \o t
  BY <1>1
<1>3. ends # {} /\ str = [value |-> value, rest |-> DropChars(t, end)]
  BY <1>1, Zenon DEF unquote
<1> HIDE DEF t
<1>4. "inside" \in Modes /\ Len(t) \in Nat /\ DOMAIN t = 1..Len(t)
  BY <1>2 DEF Modes
<1>5. /\ mode \in [0..Len(t) -> Modes] /\ mode[0] = "inside"
      /\ \A i \in 1..Len(t) : mode[i] = After(mode[i - 1], t[i], DoubleQuote)
  BY <1>4, ReadingSteps
<1> HIDE DEF mode
<1>6. end \in 1..Len(t) /\ mode[end] = "outside" /\ \A i \in 1..(end - 1) : mode[i] # "outside"
  <2>1. ends \in SUBSET Nat
    BY <1>4
  <2>2. end \in ends /\ \A i \in ends : end <= i
    <3> HIDE DEF ends
    <3> QED BY <1>3, <2>1, MinIsLeast
  <2>3. end \in 1..Len(t) /\ mode[end] = "outside"
    BY <1>4, <2>2
  <2> HIDE DEF end
  <2>4. ASSUME NEW i \in 1..(end - 1) PROVE mode[i] # "outside"
    <3>1. i \in 1..Len(t) /\ ~(end <= i)
      BY <1>4, <2>3
    <3> QED BY <1>4, <2>2, <3>1
  <2> QED BY <2>3, <2>4
<1>7. str.value = value /\ str.rest = DropChars(t, end)
  BY <1>3, Zenon
<1> HIDE DEF end, ends
<1>8. value \in Seq(Chars)
  <2> DEFINE X == [i \in 1..(end - 1) |-> IF mode[i] = "escaped" THEN <<>> ELSE <<t[i]>>]
  <2>1. \A i \in 1..(end - 1) : t[i] \in Chars
    BY <1>2, <1>4, <1>6
  <2>2. \A i \in 1..(end - 1) : <<t[i]>> \in Seq(Chars) /\ <<>> \in Seq(Chars)
    BY <2>1
  <2>3. X \in [1..(end - 1) -> Seq(Chars)] /\ end - 1 \in Nat
    BY <1>6, <2>2
  <2> HIDE DEF X
  <2>4. X \in Seq(Seq(Chars))
    BY <2>3, FunIsSeq
  <2>5. FlattenSeq(X) \in Seq(Chars)
    BY <2>4, FlattenType
  <2> QED BY <2>5 DEF X
<1> HIDE DEF value
<1> DEFINE e == SubSeq(t, 1, end - 1)
           r == DropChars(t, end - 1)
<1>9. /\ end - 1 \in 0..Len(t) /\ end \in 0..Len(t) /\ end - 1 \in Nat
  BY <1>4, <1>6
<1>10. /\ e \in Seq(Chars) /\ Len(e) = end - 1 /\ r \in Seq(Chars) /\ Len(r) = Len(t) - (end - 1)
       /\ t = e \o r
  BY <1>2, <1>9, SplitAt, ZenonT(30)
<1>11. DropChars(t, end) \in Seq(Chars)
  BY <1>2, <1>9, SplitAt
<1>12. \A i \in 1..Len(e) : e[i] = t[i]
  BY <1>2, <1>9
<1> HIDE DEF e
<1>13. \A i \in 0..Len(e) : Reading(e, "inside", DoubleQuote)[i] = mode[i]
  <2> HIDE DEF r
  <2>1. \A i \in 0..Len(e) : Reading(e \o r, "inside", DoubleQuote)[i]
                                = Reading(e, "inside", DoubleQuote)[i]
    BY <1>4, <1>10, ReadingConcat
  <2> QED BY <1>10, <2>1 DEF mode
<1>14. \A i \in 0..Len(e) : mode[i] # "outside"
  <2>1. \A i \in 0..Len(e) : i = 0 \/ i \in 1..(end - 1)
    BY <1>9, <1>10
  <2> QED BY <1>5, <1>6, <2>1
<1>15. /\ mode[end - 1] = "inside" /\ t[end] = QuoteMark
  <2>1. mode[end] = After(mode[end - 1], t[end], DoubleQuote) /\ mode[end - 1] \in Modes
    BY <1>5, <1>6, <1>9
  <2>2. mode[end - 1] # "outside"
    <3>1. end - 1 \in 0..Len(e)
      BY <1>9, <1>10
    <3> QED BY <1>14, <3>1
  <2>3. After("escaped", t[end], DoubleQuote) = "inside"
    BY DEF After
  <2>4. mode[end - 1] = "inside"
    BY <1>6, <2>1, <2>2, <2>3 DEF Modes
  <2>5. t[end] \in DoubleQuote
    BY <1>6, <2>1, <2>4 DEF After
  <2> QED BY <2>4, <2>5 DEF DoubleQuote
<1>16. Ends(e, "inside") = "inside"
  <2>1. Len(e) \in 0..Len(e) /\ Len(e) = end - 1
    BY <1>9, <1>10
  <2> QED BY <1>13, <1>15, <2>1 DEF Ends
<1>17. r = <<QuoteMark>> \o DropChars(t, end)
  <2>1. SubSeq(t, end, Len(t)) = <<t[end]>> \o SubSeq(t, end + 1, Len(t))
    <3>1. Len(t) \in end..Len(t)
      BY <1>4, <1>6
    <3> QED BY <1>2, <1>6, <3>1, SubSeqRecursiveFirst
  <2>2. (end - 1) + 1 = end
    BY <1>6
  <2> QED BY <1>15, <2>1, <2>2, Zenon DEF DropChars
<1>18. s = Cat(<<QuoteMark>>, Cat(e, Cat(<<QuoteMark>>, str.rest)))
  BY <1>2, <1>7, <1>10, <1>17, Zenon DEF Cat
<1> QED BY <1>7, <1>8, <1>10, <1>11, <1>13, <1>14, <1>16, <1>18, Zenon

\* Without blanks at its end, a text is trimmed at its front only.
LEMMA TrimEnded ==
    ASSUME NEW s \in Ended
    PROVE  /\ s \in Seq(Chars) /\ TrimSpace(s) \in Ended /\ TrimSpace(s) \in Seq(Chars)
           /\ \E a \in Blanks : s = Cat(a, TrimSpace(s))
<1> DEFINE T == TrimSpace(s)
<1>1. s \in Seq(Chars) /\ (s # <<>> => s[Len(s)] # Blank)
  BY DEF Ended
<1>2. T \in Solid \cup {<<>>} /\ T \in Seq(Chars) /\ \E a, b \in Blanks : s = a \o (T \o b)
  BY <1>1, TrimSplits, Zenon
<1> HIDE DEF T
<1>3. PICK a \in Blanks, b \in Blanks : s = a \o (T \o b)
  BY <1>2, Zenon
<1>4. T \in Ended
  BY <1>2, SolidIsEnded
<1>5. b = <<>>
  <2> SUFFICES ASSUME b # <<>> PROVE FALSE
    OBVIOUS
  <2>1. a \in Seq(Chars) /\ b \in Seq(Chars) /\ \A i \in 1..Len(b) : b[i] = Blank
    BY BlanksAreChars
  <2>2. PICK c \in Seq(Chars) : c = a \o T
    BY <1>2, <2>1, ConcatProperties, Zenon
  <2>3. s = c \o b
    BY <1>2, <1>3, <2>1, <2>2
  <2>4. Len(c) \in Nat /\ Len(b) \in Nat /\ Len(b) >= 1 /\ Len(s) = Len(c) + Len(b)
    BY <2>1, <2>2, <2>3
  <2>5. s[Len(c) + Len(b)] = b[Len(b)]
    BY <2>1, <2>2, <2>3, <2>4
  <2>6. s # <<>> /\ s[Len(s)] = Blank
    BY <1>1, <2>1, <2>4, <2>5
  <2> QED BY <1>1, <2>6
<1>6. T \o b = T
  BY <1>2, <1>5
<1> QED BY <1>1, <1>2, <1>3, <1>4, <1>6, Zenon DEF T, Cat

\* The end of a text that does not end with a blank.
LEMMA EndedSuffix ==
    ASSUME NEW a \in Seq(Chars), NEW b \in Seq(Chars), Cat(a, b) \in Ended
    PROVE  b \in Ended
<1> SUFFICES ASSUME b # <<>> PROVE b[Len(b)] # Blank
  BY DEF Ended
<1> DEFINE s == a \o b
<1>1. s \in Seq(Chars) /\ Len(s) = Len(a) + Len(b) /\ s # <<>> /\ Len(b) \in Nat /\ Len(b) >= 1
  OBVIOUS
<1>2. s[Len(a) + Len(b)] = b[Len(b)]
  BY <1>1
<1>3. s[Len(s)] # Blank
  BY <1>1, Zenon DEF Ended, Cat
<1> QED BY <1>1, <1>2, <1>3

\* What may follow a matcher.
LEMMA AfterMatcherIs ==
    ASSUME NEW s \in Ended, NEW rest \in afterMatcher(s)
    PROVE  /\ rest \in Ended
           /\ \/ s = <<>> /\ rest = <<>>
              \/ \E b \in Blanks : s = Cat(<<Comma>>, Cat(b, rest))
<1>1. CASE s = <<>>
  <2>1. rest = <<>>
    BY <1>1 DEF afterMatcher
  <2> QED BY <1>1, <2>1
<1>2. CASE s # <<>>
  <2>1. s[1] = Comma /\ rest = TrimSpace(Tail(s)) /\ s \in Seq(Chars)
    BY <1>2 DEF afterMatcher, Ended
  <2> DEFINE t == Tail(s)
  <2>2. t \in Seq(Chars) /\ s = <<Comma>> \o t /\ <<Comma>> \in Seq(Chars)
    BY <1>2, <2>1, SyntaxChars
  <2> HIDE DEF t
  <2>3. t \in Ended
    <3>1. Cat(<<Comma>>, t) \in Ended
      BY <2>2 DEF Cat
    <3> QED BY <2>2, <3>1, EndedSuffix, Zenon
  <2>4. TrimSpace(t) \in Ended /\ \E b \in Blanks : t = Cat(b, TrimSpace(t))
    BY <2>3, TrimEnded
  <2>5. PICK b \in Blanks : t = Cat(b, rest)
    BY <2>1, <2>4 DEF t
  <2>6. s = Cat(<<Comma>>, Cat(b, rest))
    BY <2>2, <2>5 DEF Cat
  <2> QED BY <2>1, <2>4, <2>6 DEF t
<1> QED BY <1>1, <1>2
-----------------------------------------------------------------------------
(***************************************************************************)
(* What the logs command finds is what the parser reads.                   *)
(***************************************************************************)

\* Texts without quotes and closing braces, without letters, without backquotes.
Plain == Seq(Chars \ {QuoteMark, RightBrace})
Others == Seq(Chars \ Letters)
Clean == Seq(Chars \ {Backquote})

\* The kinds of texts that the parts of a selector are.
LEMMA KindsOfText ==
    /\ Seq(Letters) \subseteq Plain /\ Blanks \subseteq Plain \cap Others
    /\ MatcherOps \subseteq Plain \cap Others
    /\ <<Comma>> \in Plain \cap Others /\ <<Blank>> \in Plain \cap Others
    /\ <<LeftBrace>> \in Plain \cap Others
    /\ Plain \subseteq Seq(Chars) /\ Others \subseteq Seq(Chars) /\ Clean \subseteq Seq(Chars)
<1> DEFINE P == Chars \ {QuoteMark, RightBrace}
           O == Chars \ Letters
<1>1. QuoteMark \notin Letters /\ RightBrace \notin Letters /\ Letters \subseteq Chars
  BY SyntaxChars
<1>2. {Blank, Comma, LeftBrace, "=", "!", "~"} \subseteq P
  <2>1. /\ Comma \notin {QuoteMark, RightBrace} /\ LeftBrace \notin {QuoteMark, RightBrace}
        /\ "=" \notin {QuoteMark, RightBrace} /\ "!" \notin {QuoteMark, RightBrace}
        /\ "~" \notin {QuoteMark, RightBrace} /\ Blank \notin {QuoteMark, RightBrace}
    BY DEF Comma, QuoteMark, LeftBrace, RightBrace, Blank
  <2> QED BY <2>1, SyntaxChars
<1>3. {Blank, Comma, LeftBrace, "=", "!", "~"} \subseteq O
  BY SyntaxChars
<1>4. Letters \subseteq P /\ {Blank} \subseteq P /\ {Blank} \subseteq O
  BY <1>1, <1>2, <1>3
<1> HIDE DEF P, O
<1>5. Seq(Letters) \subseteq Seq(P) /\ Seq({Blank}) \subseteq Seq(P) /\ Seq({Blank}) \subseteq Seq(O)
  BY <1>4, SeqMonotonic
<1>6. ASSUME NEW T, {Blank, Comma, LeftBrace, "=", "!", "~"} \subseteq T
      PROVE  /\ <<Comma>> \in Seq(T) /\ <<Blank>> \in Seq(T) /\ <<LeftBrace>> \in Seq(T)
             /\ MatcherOps \subseteq Seq(T)
  <2>1. <<Comma>> \in Seq(T) /\ <<Blank>> \in Seq(T) /\ <<LeftBrace>> \in Seq(T)
    BY <1>6
  <2>2. Equal \in Seq(T) /\ NotEqual \in Seq(T) /\ Regexp \in Seq(T) /\ NotRegexp \in Seq(T)
    BY <1>6 DEF Equal, NotEqual, Regexp, NotRegexp
  <2> QED BY <2>1, <2>2 DEF MatcherOps
<1>7. /\ <<Comma>> \in Seq(P) /\ <<Blank>> \in Seq(P) /\ <<LeftBrace>> \in Seq(P)
      /\ MatcherOps \subseteq Seq(P)
  BY <1>2, <1>6
<1>8. /\ <<Comma>> \in Seq(O) /\ <<Blank>> \in Seq(O) /\ <<LeftBrace>> \in Seq(O)
      /\ MatcherOps \subseteq Seq(O)
  BY <1>3, <1>6
<1>9. Plain \subseteq Seq(Chars) /\ Others \subseteq Seq(Chars) /\ Clean \subseteq Seq(Chars)
  <2>1. ASSUME NEW T \in SUBSET Chars PROVE Seq(T) \subseteq Seq(Chars)
    BY SeqMonotonic
  <2> QED BY <2>1 DEF Plain, Others, Clean
<1> QED BY <1>5, <1>7, <1>8, <1>9 DEF Plain, Others, Blanks, P, O

\* A plain text stays in front of what is left of the text after it.
LEMMA PlainThen ==
    ASSUME NEW a \in Plain, NEW t \in Seq(Chars)
    PROVE  /\ Stripped(Cat(a, t), "outside") = Cat(a, Stripped(t, "outside"))
           /\ Stripped(t, "outside") \in Seq(Chars)
<1>1. a \in Seq(Chars) /\ "outside" \in Modes
  BY KindsOfText DEF Modes
<1>2. \A i \in 1..Len(a) : a[i] \notin {QuoteMark, RightBrace}
  BY ElementOfSeq DEF Plain
<1>3. Stripped(a, "outside") = a /\ Ends(a, "outside") = "outside"
  BY <1>1, <1>2, PlainStripped
<1>4. Stripped(Cat(a, t), "outside") = Cat(Stripped(a, "outside"), Stripped(t, Ends(a, "outside")))
  BY <1>1, StrippedConcat
<1> QED BY <1>1, <1>3, <1>4, StrippedType

\* No name is found in a text without letters.
LEMMA SkipCat ==
    ASSUME NEW a \in Others, NEW u \in Seq(Chars)
    PROVE  MatchedNames(Cat(a, u)) = MatchedNames(u)
<1>1. a \in Seq(Chars)
  BY KindsOfText
<1>2. \A i \in 1..Len(a) : a[i] \notin Letters
  BY ElementOfSeq DEF Others
<1> QED BY <1>1, <1>2, SkipOther DEF Cat

\* The end of a text without backquotes has none.
LEMMA CleanSuffix ==
    ASSUME NEW a \in Seq(Chars), NEW u \in Seq(Chars), Cat(a, u) \in Clean
    PROVE  u \in Clean
<1> DEFINE w == a \o u
<1>1. w \in Seq(Chars \ {Backquote})
  BY DEF Cat, Clean
<1>2. Len(w) = Len(a) + Len(u) /\ Len(a) \in Nat /\ Len(u) \in Nat
  OBVIOUS
<1>3. \A i \in 1..Len(u) : w[Len(a) + i] = u[i]
  OBVIOUS
<1> HIDE DEF w
<1>4. \A i \in 1..Len(u) : u[i] \in Chars \ {Backquote}
  <2> SUFFICES ASSUME NEW i \in 1..Len(u) PROVE u[i] \in Chars \ {Backquote}
    OBVIOUS
  <2>1. Len(a) + i \in 1..Len(w)
    BY <1>2
  <2>2. w[Len(a) + i] \in Chars \ {Backquote}
    BY <1>1, <2>1, ElementOfSeq
  <2> QED BY <1>3, <2>2
<1>5. u \in [1..Len(u) -> Chars \ {Backquote}]
  BY <1>4
<1> QED BY <1>2, <1>5, FunIsSeq DEF Clean

\* After a name, blanks and an operator: whether an equals sign follows it.
LEMMA SignFollows ==
    ASSUME NEW b \in Blanks, NEW o \in MatcherOps, NEW y \in Seq(Chars)
    PROVE  /\ SignAt(Cat(b, Cat(o, y)), 0) <=> o \in {Equal, Regexp}
           /\ \A i \in 1..Len(Cat(b, Cat(o, y))) : i = 1 => Cat(b, Cat(o, y))[i] \notin Letters
<1> DEFINE v == o \o y
           w == b \o v
<1>1. b \in Seq(Chars) /\ Len(b) \in Nat /\ \A i \in 1..Len(b) : b[i] = Blank
  BY BlanksAreChars
<1>2. o \in Seq(Chars) /\ o # <<>> /\ o[1] \notin Letters /\ o[1] # Blank
  BY OpStart DEF MatcherOps
<1>3. o[1] = "=" <=> o \in {Equal, Regexp}
  BY DEF MatcherOps, Equal, NotEqual, Regexp, NotRegexp
<1>4. v \in Seq(Chars) /\ v # <<>> /\ v[1] = o[1]
  BY <1>2, ConcatEnds
<1> HIDE DEF v
<1>5. w \in Seq(Chars) /\ Len(w) = Len(b) + Len(v) /\ Len(v) \in Nat /\ Len(v) >= 1
  BY <1>1, <1>4
<1>6. \A i \in 1..Len(b) : w[i] = Blank
  BY <1>1, <1>4
<1>7. w[Len(b) + 1] = o[1]
  BY <1>1, <1>4
<1> HIDE DEF w
<1>8. Blank # "=" /\ Blank \notin Letters
  BY SyntaxChars
<1>9. SignAt(w, 0) <=> \E k \in 1..Len(w) : w[k] = "=" /\ \A m \in 1..(k - 1) : w[m] = Blank
  BY DEF SignAt
<1>10. ASSUME NEW k \in 1..Len(w), w[k] = "=", \A m \in 1..(k - 1) : w[m] = Blank
       PROVE  o[1] = "="
  <2>1. ~(k <= Len(b))
    BY <1>1, <1>6, <1>8, <1>10
  <2>2. ~(k > Len(b) + 1)
    <3> SUFFICES ASSUME k > Len(b) + 1 PROVE FALSE
      OBVIOUS
    <3>1. Len(b) + 1 \in 1..(k - 1)
      BY <1>1, <1>5
    <3> QED BY <1>2, <1>7, <1>10, <3>1
  <2>3. k = Len(b) + 1
    BY <1>1, <1>5, <2>1, <2>2
  <2> QED BY <1>7, <1>10, <2>3
<1>11. ASSUME o[1] = "=" PROVE SignAt(w, 0)
  <2>1. Len(b) + 1 \in 1..Len(w) /\ \A m \in 1..((Len(b) + 1) - 1) : m \in 1..Len(b)
    BY <1>1, <1>5
  <2> QED BY <1>6, <1>7, <1>9, <1>11, <2>1
<1>12. w[1] \notin Letters
  <2>1. CASE Len(b) = 0
    BY <1>2, <1>7, <2>1
  <2>2. CASE Len(b) # 0
    <3>1. 1 \in 1..Len(b)
      BY <1>1, <2>2
    <3> QED BY <1>6, <1>8, <3>1
  <2> QED BY <2>1, <2>2
<1>13. w = Cat(b, Cat(o, y))
  BY DEF w, v, Cat
<1> QED BY <1>3, <1>9, <1>10, <1>11, <1>12, <1>13

\* The records that parseMatchers appends, and the labels that a list of them requires.
Records == [label : Seq(Letters) \ {<<>>}, op : MatcherOps, value : Seq(Chars)]
Required(ms) == {ms[i].label : i \in {j \in 1..Len(ms) : ms[j].op \in {Equal, Regexp}}}
Requires(label, op) == IF op \in {Equal, Regexp} THEN {label} ELSE {}

\* t is a double-quoted string with e between its quotes, blanks b and then r.
IsQuoted(t, e, b, r) ==
    /\ \A i \in 0..Len(e) : Reading(e, "inside", DoubleQuote)[i] # "outside"
    /\ Ends(e, "inside") = "inside"
    /\ t = Cat(<<QuoteMark>>, Cat(e, Cat(<<QuoteMark>>, Cat(b, r))))

\* The text of a matcher: a name, an operator and a string, blanks between them,
\* and what follows.
LEMMA NamesOfPart ==
    ASSUME NEW l \in Seq(Letters) \ {<<>>}, NEW b1 \in Blanks, NEW o \in MatcherOps,
           NEW b2 \in Blanks, NEW t \in Seq(Chars),
           NEW e \in Seq(Chars), NEW b3 \in Blanks, NEW r \in Seq(Chars), IsQuoted(t, e, b3, r)
    PROVE  /\ MatchedNames(Stripped(Cat(l, Cat(b1, Cat(o, Cat(b2, t)))), "outside"))
                = MatchedNames(Stripped(r, "outside")) \cup Requires(l, o)
           /\ Stripped(t, "outside") \in Clean => Stripped(r, "outside") \in Clean
<1> DEFINE U(x) == Stripped(x, "outside")
           B == <<Blank>>
<1>1. /\ l \in Plain /\ b1 \in Plain \cap Others /\ o \in Plain \cap Others /\ b2 \in Plain \cap Others
      /\ b3 \in Plain \cap Others /\ B \in Others
  BY KindsOfText
<1>2. /\ l \in Seq(Chars) /\ b1 \in Seq(Chars) /\ o \in Seq(Chars) /\ b2 \in Seq(Chars)
      /\ b3 \in Seq(Chars) /\ B \in Seq(Chars)
  BY <1>1, KindsOfText, Zenon
<1> HIDE DEF B
<1> DEFINE x3 == Cat(b3, r)
           y3 == Cat(b3, U(r))
           y2 == Cat(B, Cat(B, y3))
           x1 == Cat(b2, t)
           y1 == Cat(b2, y2)
           x0 == Cat(o, x1)
           y0 == Cat(o, y1)
           x == Cat(b1, x0)
           y == Cat(b1, y0)
<1>3. U(r) \in Seq(Chars) /\ U(x3) = y3 /\ x3 \in Seq(Chars) /\ y3 \in Seq(Chars)
  BY <1>1, <1>2, PlainThen, CatType
<1>4. U(t) = y2 /\ y2 \in Seq(Chars)
  <2>1. U(t) = Cat(<<Blank>>, Cat(<<Blank>>, U(x3)))
    BY <1>3, StringStripped, Zenon DEF IsQuoted
  <2> QED BY <1>2, <1>3, <2>1, CatType, Zenon DEF B
<1> HIDE DEF x3, y3
<1>5. U(x1) = y1 /\ x1 \in Seq(Chars) /\ y1 \in Seq(Chars)
  <2> HIDE DEF y2
  <2> QED BY <1>1, <1>2, <1>4, PlainThen, CatType
<1>6. U(x0) = y0 /\ x0 \in Seq(Chars) /\ y0 \in Seq(Chars)
  <2> HIDE DEF x1, y1
  <2> QED BY <1>1, <1>2, <1>5, PlainThen, CatType
<1>7. U(x) = y /\ x \in Seq(Chars) /\ y \in Seq(Chars)
  <2> HIDE DEF x0, y0
  <2> QED BY <1>1, <1>2, <1>6, PlainThen, CatType
<1>8. U(Cat(l, x)) = Cat(l, y)
  <2> HIDE DEF x, y
  <2> QED BY <1>1, <1>7, PlainThen
<1>9. SignAt(y, 0) <=> o \in {Equal, Regexp}
  <2> HIDE DEF y1
  <2> QED BY <1>5, SignFollows
<1>10. \A i \in 1..Len(y) : i = 1 => y[i] \notin Letters
  <2> HIDE DEF y1
  <2> QED BY <1>5, SignFollows
<1>11. MatchedNames(y) = MatchedNames(U(r))
  <2>1. MatchedNames(y3) = MatchedNames(U(r))
    BY <1>1, <1>3, SkipCat DEF y3
  <2>2. MatchedNames(y2) = MatchedNames(y3)
    <3>1. Cat(B, y3) \in Seq(Chars)
      BY <1>2, <1>3, CatType
    <3>2. MatchedNames(y2) = MatchedNames(Cat(B, y3))
      BY <1>1, <3>1, SkipCat
    <3>3. MatchedNames(Cat(B, y3)) = MatchedNames(y3)
      BY <1>1, <1>3, SkipCat
    <3> QED BY <3>2, <3>3
  <2>3. MatchedNames(y1) = MatchedNames(y2)
    <3> HIDE DEF y2
    <3> QED BY <1>1, <1>4, SkipCat
  <2>4. MatchedNames(y0) = MatchedNames(y1)
    <3> HIDE DEF y1
    <3> QED BY <1>1, <1>5, SkipCat
  <2>5. MatchedNames(y) = MatchedNames(y0)
    <3> HIDE DEF y0
    <3> QED BY <1>1, <1>6, SkipCat
  <2> HIDE DEF y, y0, y1, y2
  <2> QED BY <2>1, <2>2, <2>3, <2>4, <2>5
<1>12. MatchedNames(Cat(l, y)) = MatchedNames(y) \cup Requires(l, o)
  <2> HIDE DEF y
  <2>1. MatchedNames(l \o y) = MatchedNames(y) \cup (IF SignAt(y, 0) THEN {l} ELSE {})
    BY <1>7, <1>10, NameFirst
  <2> QED BY <1>9, <2>1 DEF Cat, Requires
<1>13. U(t) \in Clean => U(r) \in Clean
  <2> SUFFICES ASSUME U(t) \in Clean PROVE U(r) \in Clean
    OBVIOUS
  <2>1. Cat(B, y3) \in Seq(Chars)
    BY <1>2, <1>3, CatType
  <2>2. Cat(B, y3) \in Clean
    BY <1>2, <1>4, <2>1, CleanSuffix
  <2>3. y3 \in Clean
    BY <1>2, <1>3, <2>2, CleanSuffix
  <2> QED BY <1>2, <1>3, <2>3, CleanSuffix DEF y3
<1>14. U(Cat(l, Cat(b1, Cat(o, Cat(b2, t))))) = Cat(l, y)
  BY <1>8
<1> HIDE DEF y
<1> QED BY <1>11, <1>12, <1>13, <1>14

\* One pass of parseMatchers takes one name from what the logs command finds.
LEMMA MatcherTakesName ==
    ASSUME NEW out \in Seq(Records), NEW s \in Ended, Stripped(s, "outside") \in Clean,
           NEW p, p.out = out, p.rest = s, NEW x \in scanMatcher(p)
    PROVE  \E m \in Records, rest \in Ended :
             /\ x = [out |-> Append(out, m), rest |-> rest]
             /\ Stripped(rest, "outside") \in Clean
             /\ MatchedNames(Stripped(s, "outside"))
                  = MatchedNames(Stripped(rest, "outside")) \cup Requires(m.label, m.op)
<1>1. PICK id \in scanIdent(s) :
         \E op \in scanOp(MatchOps, TrimSpace(id.rest)) :
           \E str \in scanString(TrimSpace(op.rest)) :
             \E rest \in afterMatcher(TrimSpace(str.rest)) :
                x = [out |-> Append(out, [label |-> id.value, op |-> op.value, value |-> str.value]),
                     rest |-> rest]
  BY ScanMatcherIff
<1>2. PICK op \in scanOp(MatchOps, TrimSpace(id.rest)) :
         \E str \in scanString(TrimSpace(op.rest)) :
           \E rest \in afterMatcher(TrimSpace(str.rest)) :
              x = [out |-> Append(out, [label |-> id.value, op |-> op.value, value |-> str.value]),
                   rest |-> rest]
  BY <1>1, Zenon
<1>3. PICK str \in scanString(TrimSpace(op.rest)) :
         \E rest \in afterMatcher(TrimSpace(str.rest)) :
            x = [out |-> Append(out, [label |-> id.value, op |-> op.value, value |-> str.value]),
                 rest |-> rest]
  BY <1>2, Zenon
<1>4. PICK rest \in afterMatcher(TrimSpace(str.rest)) :
         x = [out |-> Append(out, [label |-> id.value, op |-> op.value, value |-> str.value]),
              rest |-> rest]
  BY <1>3, Zenon
<1> DEFINE l == id.value
           r1 == id.rest
           t1 == TrimSpace(r1)
           o == op.value
           r2 == op.rest
           t2 == TrimSpace(r2)
           r3 == str.rest
           t3 == TrimSpace(r3)
           U(z) == Stripped(z, "outside")
<1>5. s \in Seq(Chars)
  BY DEF Ended
<1>6. l \in Seq(Letters) \ {<<>>} /\ l \in Seq(Chars) /\ r1 \in Seq(Chars) /\ s = Cat(l, r1)
  <2>1. l \in Seq(Letters) \ {<<>>} /\ r1 \in Seq(Chars) /\ s = Cat(l, r1)
    BY <1>5, ScanIdentIs
  <2> QED BY <2>1, KindsOfText
<1>7. PICK b1 \in Blanks : r1 = Cat(b1, t1) /\ t1 \in Ended /\ t1 \in Seq(Chars)
  <2>1. r1 \in Ended
    BY <1>6, EndedSuffix
  <2> QED BY <2>1, TrimEnded
<1>8. o \in MatcherOps /\ o \in Seq(Chars) /\ r2 \in Seq(Chars) /\ t1 = Cat(o, r2)
  <2>1. o \in MatcherOps /\ r2 \in Seq(Chars) /\ t1 = Cat(o, r2)
    BY <1>7, ScanOpIs
  <2> QED BY <2>1, KindsOfText
<1>9. PICK b2 \in Blanks : r2 = Cat(b2, t2) /\ t2 \in Ended /\ t2 \in Seq(Chars)
  <2>1. r2 \in Ended
    BY <1>7, <1>8, EndedSuffix
  <2> QED BY <2>1, TrimEnded
<1> HIDE DEF l, r1, t1, o, r2, t2
<1>10. U(t2) \in Clean
  <2>1. /\ l \in Plain /\ b1 \in Plain /\ o \in Plain /\ b2 \in Plain
        /\ b1 \in Seq(Chars) /\ b2 \in Seq(Chars)
    BY <1>6, <1>8, KindsOfText
  <2>2. U(r2) = Cat(b2, U(t2)) /\ U(t2) \in Seq(Chars)
    BY <1>9, <2>1, PlainThen
  <2>3. U(t1) = Cat(o, U(r2)) /\ U(r2) \in Seq(Chars)
    BY <1>8, <2>1, PlainThen
  <2>4. U(r1) = Cat(b1, U(t1)) /\ U(t1) \in Seq(Chars)
    BY <1>7, <2>1, PlainThen
  <2>5. U(s) = Cat(l, U(r1)) /\ U(r1) \in Seq(Chars)
    BY <1>6, <2>1, PlainThen
  <2>6. U(r1) \in Clean
    BY <1>6, <2>5, CleanSuffix
  <2>7. U(t1) \in Clean
    BY <2>1, <2>4, <2>6, CleanSuffix
  <2>8. U(r2) \in Clean
    BY <1>8, <2>3, <2>7, CleanSuffix
  <2> QED BY <2>1, <2>2, <2>8, CleanSuffix
<1>11. t2 # <<>> => t2[1] # Backquote
  <2> SUFFICES ASSUME t2 # <<>>, t2[1] = Backquote PROVE FALSE
    OBVIOUS
  <2> DEFINE v == Tail(t2)
             c == <<Backquote>>
  <2>1. v \in Seq(Chars) /\ t2 = c \o v
    BY <1>9
  <2>2. c \in Plain
    <3>1. Backquote \in Chars \ {QuoteMark, RightBrace}
      BY SyntaxChars DEF Backquote, QuoteMark, RightBrace
    <3> QED BY <3>1 DEF Plain
  <2>3. c \in Seq(Chars) /\ c # <<>> /\ c[1] = Backquote
    BY SyntaxChars
  <2> HIDE DEF v, c
  <2>4. U(t2) = c \o U(v) /\ U(v) \in Seq(Chars)
    BY <2>1, <2>2, PlainThen DEF Cat
  <2>5. U(t2)[1] = Backquote /\ Len(U(t2)) >= 1 /\ Len(U(t2)) \in Nat
    <3>1. PICK w \in Seq(Chars) : w = U(v)
      BY <2>4, Zenon
    <3>2. c \o w # <<>> /\ (c \o w)[1] = c[1] /\ c \o w \in Seq(Chars)
      BY <2>3, ConcatEnds
    <3> QED BY <2>3, <2>4, <3>1, <3>2
  <2>6. 1 \in 1..Len(U(t2))
    BY <2>5
  <2>7. U(t2)[1] \in Chars \ {Backquote}
    BY <1>10, <2>6, ElementOfSeq DEF Clean
  <2> QED BY <2>5, <2>7
<1>12. /\ str.value \in Seq(Chars) /\ r3 \in Seq(Chars)
       /\ \E e \in Seq(Chars) :
            /\ \A i \in 0..Len(e) : Reading(e, "inside", DoubleQuote)[i] # "outside"
            /\ Ends(e, "inside") = "inside"
            /\ t2 = Cat(<<QuoteMark>>, Cat(e, Cat(<<QuoteMark>>, r3)))
  BY <1>3, <1>9, <1>11, ScanStringIs, Zenon DEF r2, t2
<1>13. PICK e \in Seq(Chars) :
            /\ \A i \in 0..Len(e) : Reading(e, "inside", DoubleQuote)[i] # "outside"
            /\ Ends(e, "inside") = "inside"
            /\ t2 = Cat(<<QuoteMark>>, Cat(e, Cat(<<QuoteMark>>, r3)))
  BY <1>12
<1>14. PICK b3 \in Blanks : r3 = Cat(b3, t3) /\ t3 \in Ended /\ t3 \in Seq(Chars)
  <2>1. <<QuoteMark>> \in Seq(Chars)
    BY SyntaxChars
  <2>2. PICK q \in Seq(Chars) : q = <<QuoteMark>>
    BY <2>1, Zenon
  <2>3. Cat(q, r3) \in Seq(Chars) /\ Cat(e, Cat(q, r3)) \in Seq(Chars)
    BY <1>12, CatType
  <2>4. Cat(e, Cat(q, r3)) \in Ended
    BY <1>9, <1>13, <2>2, <2>3, EndedSuffix, Zenon
  <2>5. Cat(q, r3) \in Ended
    BY <2>3, <2>4, EndedSuffix
  <2>6. r3 \in Ended
    BY <1>12, <2>5, EndedSuffix
  <2> QED BY <2>6, TrimEnded
<1> HIDE DEF r3, t3
<1>15. /\ MatchedNames(U(s)) = MatchedNames(U(t3)) \cup Requires(l, o)
       /\ U(t3) \in Clean
  <2>1. t2 = Cat(<<QuoteMark>>, Cat(e, Cat(<<QuoteMark>>, Cat(b3, t3))))
    BY <1>13, <1>14
  <2>2. s = Cat(l, Cat(b1, Cat(o, Cat(b2, t2))))
    BY <1>6, <1>7, <1>8, <1>9
  <2>3. /\ MatchedNames(U(Cat(l, Cat(b1, Cat(o, Cat(b2, t2))))))
             = MatchedNames(U(t3)) \cup Requires(l, o)
        /\ U(t2) \in Clean => U(t3) \in Clean
    <3>1. /\ l \in Seq(Letters) \ {<<>>} /\ b1 \in Blanks /\ o \in MatcherOps /\ b2 \in Blanks
          /\ t2 \in Seq(Chars) /\ b3 \in Blanks /\ t3 \in Seq(Chars)
      BY <1>6, <1>8, <1>9, <1>14
    <3>2. e \in Seq(Chars) /\ IsQuoted(t2, e, b3, t3)
      BY <1>13, <2>1 DEF IsQuoted
    <3>3. /\ MatchedNames(Stripped(Cat(l, Cat(b1, Cat(o, Cat(b2, t2)))), "outside"))
               = MatchedNames(Stripped(t3, "outside")) \cup Requires(l, o)
          /\ Stripped(t2, "outside") \in Clean => Stripped(t3, "outside") \in Clean
      BY <3>1, <3>2, NamesOfPart, SMTT(20)
    <3> QED BY <3>3
  <2> QED BY <1>10, <2>2, <2>3
<1>16. /\ rest \in Ended
       /\ MatchedNames(U(t3)) = MatchedNames(U(rest)) /\ U(rest) \in Clean
  <2>1. /\ rest \in Ended
        /\ \/ t3 = <<>> /\ rest = <<>>
           \/ \E b \in Blanks : t3 = Cat(<<Comma>>, Cat(b, rest))
    BY <1>4, <1>14, AfterMatcherIs DEF r3, t3
  <2>2. CASE t3 = <<>> /\ rest = <<>>
    BY <1>15, <2>1, <2>2
  <2>3. CASE \E b \in Blanks : t3 = Cat(<<Comma>>, Cat(b, rest))
    <3>1. PICK b \in Blanks : t3 = Cat(<<Comma>>, Cat(b, rest))
      BY <2>3
    <3>2. PICK c : c = <<Comma>>
      BY Zenon
    <3>3. /\ c \in Plain /\ c \in Others /\ b \in Plain /\ b \in Others
          /\ c \in Seq(Chars) /\ b \in Seq(Chars) /\ rest \in Seq(Chars)
      BY <2>1, <3>2, KindsOfText, Zenon DEF Ended
    <3>4. Cat(b, rest) \in Seq(Chars)
      BY <3>3, CatType
    <3>5. U(Cat(b, rest)) = Cat(b, U(rest)) /\ U(rest) \in Seq(Chars) /\ U(Cat(b, rest)) \in Seq(Chars)
      BY <3>3, <3>4, PlainThen
    <3>6. U(t3) = Cat(c, U(Cat(b, rest)))
      BY <3>1, <3>2, <3>3, <3>4, PlainThen
    <3>7. MatchedNames(U(t3)) = MatchedNames(U(Cat(b, rest)))
      BY <3>3, <3>5, <3>6, SkipCat
    <3>8. MatchedNames(U(Cat(b, rest))) = MatchedNames(U(rest))
      BY <3>3, <3>5, SkipCat
    <3>9. U(Cat(b, rest)) \in Clean
      BY <1>15, <3>3, <3>5, <3>6, CleanSuffix
    <3>10. U(rest) \in Clean
      BY <3>3, <3>5, <3>9, CleanSuffix
    <3> QED BY <2>1, <3>7, <3>8, <3>10
  <2> QED BY <2>1, <2>2, <2>3
<1> DEFINE m == [label |-> l, op |-> o, value |-> str.value]
<1>17. m \in Records /\ m.label = l /\ m.op = o
  BY <1>6, <1>8, <1>12 DEF Records
<1>18. x = [out |-> Append(out, m), rest |-> rest]
  BY <1>4 DEF l, o
<1> HIDE DEF m
<1> QED BY <1>15, <1>16, <1>17, <1>18, Zenon

\* The beginning of a text without backquotes has none.
LEMMA CleanPrefix ==
    ASSUME NEW a \in Seq(Chars), NEW u \in Seq(Chars), Cat(a, u) \in Clean
    PROVE  a \in Clean
<1> DEFINE w == a \o u
<1>1. w \in Seq(Chars \ {Backquote})
  BY DEF Cat, Clean
<1>2. Len(w) = Len(a) + Len(u) /\ Len(a) \in Nat /\ Len(u) \in Nat
  OBVIOUS
<1>3. \A i \in 1..Len(a) : w[i] = a[i]
  OBVIOUS
<1> HIDE DEF w
<1>4. \A i \in 1..Len(a) : a[i] \in Chars \ {Backquote}
  <2>1. \A i \in 1..Len(a) : i \in 1..Len(w)
    BY <1>2
  <2> QED BY <1>1, <1>3, <2>1, ElementOfSeq
<1>5. a \in [1..Len(a) -> Chars \ {Backquote}]
  BY <1>4
<1> QED BY <1>2, <1>5, FunIsSeq DEF Clean

\* Blanks around a text change neither what is found in it nor whether it is clean.
LEMMA TrimKeepsNames ==
    ASSUME NEW s \in Seq(Chars), Stripped(s, "outside") \in Clean
    PROVE  /\ TrimSpace(s) \in Ended /\ Stripped(TrimSpace(s), "outside") \in Clean
           /\ MatchedNames(Stripped(s, "outside")) = MatchedNames(Stripped(TrimSpace(s), "outside"))
<1> DEFINE T == TrimSpace(s)
           U(z) == Stripped(z, "outside")
<1>1. T \in Solid \cup {<<>>} /\ T \in Seq(Chars) /\ \E a, b \in Blanks : s = a \o (T \o b)
  BY TrimSplits, Zenon
<1>2. T \in Ended
  BY <1>1, SolidIsEnded
<1> HIDE DEF T
<1>3. PICK a \in Blanks, b \in Blanks : s = Cat(a, Cat(T, b))
  BY <1>1, Zenon DEF Cat
<1>4. /\ a \in Plain /\ a \in Others /\ a \in Seq(Chars) /\ b \in Seq(Chars) /\ "outside" \in Modes
  BY KindsOfText DEF Modes
<1>5. Cat(T, b) \in Seq(Chars)
  BY <1>1, <1>4, CatType
<1>6. U(s) = Cat(a, U(Cat(T, b))) /\ U(Cat(T, b)) \in Seq(Chars)
  BY <1>3, <1>4, <1>5, PlainThen
<1> DEFINE c == Stripped(b, Ends(T, "outside"))
<1>7. U(Cat(T, b)) = Cat(U(T), c)
  BY <1>1, <1>4, StrippedConcat
<1>8. c \in Blanks /\ U(T) \in Seq(Chars)
  BY <1>1, <1>4, StrippedType, BlanksStripped
<1> HIDE DEF c
<1>9. c \in Seq(Chars)
  BY <1>8, BlanksAreChars
<1>10. U(Cat(T, b)) \in Clean
  BY <1>4, <1>6, CleanSuffix
<1>11. U(T) \in Clean
  BY <1>7, <1>8, <1>9, <1>10, CleanPrefix
<1>12. MatchedNames(U(s)) = MatchedNames(U(Cat(T, b)))
  BY <1>4, <1>6, SkipCat
<1>13. MatchedNames(U(Cat(T, b))) = MatchedNames(U(T))
  BY <1>7, <1>8, BlanksAfter, Zenon DEF Cat
<1> QED BY <1>2, <1>11, <1>12, <1>13 DEF T

\* One more matcher requires at most one more label.
LEMMA RequiredAppend ==
    ASSUME NEW out \in Seq(Records), NEW m \in Records
    PROVE  Required(Append(out, m)) = Required(out) \cup Requires(m.label, m.op)
<1> DEFINE s == Append(out, m)
<1>1. Len(s) = Len(out) + 1 /\ Len(out) \in Nat
  BY AppendProperties
<1>2. \A i \in 1..Len(out) : s[i] = out[i]
  BY AppendProperties
<1>3. s[Len(out) + 1] = m
  BY AppendProperties
<1> HIDE DEF s
<1>4. \A i \in 1..Len(out) : i \in 1..Len(s)
  BY <1>1
<1>5. Len(out) + 1 \in 1..Len(s)
  BY <1>1
<1>6. \A i \in 1..Len(s) : i \in 1..Len(out) \/ i = Len(out) + 1
  BY <1>1
<1>7. \A ms, x : x \in Required(ms) <=>
         \E i \in 1..Len(ms) : ms[i].op \in {Equal, Regexp} /\ x = ms[i].label
  BY DEF Required
<1>8. \A x : x \in Requires(m.label, m.op) <=> m.op \in {Equal, Regexp} /\ x = m.label
  BY DEF Requires
<1>9. ASSUME NEW x PROVE x \in Required(s) <=> x \in Required(out) \/ x \in Requires(m.label, m.op)
  <2>1. x \in Required(s) <=> \E i \in 1..Len(s) : s[i].op \in {Equal, Regexp} /\ x = s[i].label
    BY <1>7
  <2>2. x \in Required(out) <=> \E i \in 1..Len(out) : out[i].op \in {Equal, Regexp} /\ x = out[i].label
    BY <1>7
  <2> QED BY <1>2, <1>3, <1>4, <1>5, <1>6, <1>8, <2>1, <2>2
<1>10. Required(s) = Required(out) \cup Requires(m.label, m.op)
  BY <1>9
<1> QED BY <1>10 DEF s

\* parseMatchers requires the labels that the logs command finds in its text.
LEMMA NamesAreRequired ==
    ASSUME NEW body \in Seq(Chars), Stripped(body, "outside") \in Clean,
           NEW ms \in parseMatchers(body)
    PROVE  ms \in Seq(Records) /\ MatchedNames(Stripped(body, "outside")) = Required(ms)
<1> DEFINE U(z) == Stripped(z, "outside")
           names == MatchedNames(U(body))
           Inv(p) == /\ p.out \in Seq(Records) /\ p.rest \in Ended /\ U(p.rest) \in Clean
                     /\ names = Required(p.out) \cup MatchedNames(U(p.rest))
<1>1. Len(body) \in Nat
  OBVIOUS
<1>2. PICK f : /\ f[0] = {[out |-> <<>>, rest |-> TrimSpace(body)]}
               /\ \A k \in 1..Len(body) : f[k] = MatcherPass(f[k - 1])
               /\ parseMatchers(body) = {p.out : p \in {x \in f[Len(body)] : x.rest = <<>>}}
  BY <1>1, ParseMatchersPasses
<1> HIDE DEF names
<1>3. \A p \in f[0] : Inv(p)
  <2> SUFFICES ASSUME NEW p \in f[0] PROVE Inv(p)
    OBVIOUS
  <2>1. p.out = <<>> /\ p.rest = TrimSpace(body)
    BY <1>2
  <2>2. /\ TrimSpace(body) \in Ended /\ U(TrimSpace(body)) \in Clean
        /\ names = MatchedNames(U(TrimSpace(body)))
    BY TrimKeepsNames DEF names
  <2>3. <<>> \in Seq(Records) /\ Required(<<>>) = {}
    BY DEF Required
  <2> QED BY <2>1, <2>2, <2>3
<1>4. ASSUME NEW p, Inv(p), NEW x \in scanMatcher(p) PROVE Inv(x)
  <2>1. PICK m \in Records, rest \in Ended :
             /\ x = [out |-> Append(p.out, m), rest |-> rest]
             /\ U(rest) \in Clean
             /\ MatchedNames(U(p.rest)) = MatchedNames(U(rest)) \cup Requires(m.label, m.op)
    <3>1. /\ p.out \in Seq(Records) /\ p.rest \in Ended /\ Stripped(p.rest, "outside") \in Clean
          /\ x \in scanMatcher(p)
      BY <1>4
    <3>2. PICK out \in Seq(Records), s \in Ended :
                p.out = out /\ p.rest = s /\ Stripped(s, "outside") \in Clean
      BY <3>1, Zenon
    <3>3. \E m \in Records, rest \in Ended :
             /\ x = [out |-> Append(out, m), rest |-> rest]
             /\ Stripped(rest, "outside") \in Clean
             /\ MatchedNames(Stripped(s, "outside"))
                  = MatchedNames(Stripped(rest, "outside")) \cup Requires(m.label, m.op)
      BY <3>1, <3>2, MatcherTakesName, SMTT(20)
    <3> QED BY <3>2, <3>3, Zenon
  <2>2. x.out = Append(p.out, m) /\ x.rest = rest
    BY <2>1
  <2>3. Append(p.out, m) \in Seq(Records)
    BY <1>4, AppendProperties
  <2>4. Required(Append(p.out, m)) = Required(p.out) \cup Requires(m.label, m.op)
    BY <1>4, RequiredAppend
  <2> QED BY <1>4, <2>1, <2>2, <2>3, <2>4
<1> HIDE DEF Inv
<1> DEFINE G == {n \in Nat : n <= Len(body) => \A p \in f[n] : Inv(p)}
<1>5. 0 \in G
  BY <1>3
<1>6. ASSUME NEW n \in Nat, n \in G PROVE n + 1 \in G
  <2> SUFFICES ASSUME n + 1 <= Len(body), NEW x \in f[n + 1] PROVE Inv(x)
    OBVIOUS
  <2>1. n + 1 \in 1..Len(body) /\ (n + 1) - 1 = n /\ n <= Len(body)
    BY <1>1
  <2>2. x \in MatcherPass(f[n]) /\ \A p \in f[n] : Inv(p)
    BY <1>2, <1>6, <2>1
  <2>3. PICK p \in f[n] : x \in (IF p.rest = <<>> THEN {p} ELSE scanMatcher(p))
    BY <2>2 DEF MatcherPass
  <2> QED BY <1>4, <2>2, <2>3
<1>7. \A n \in Nat : n \in G
  <2> HIDE DEF G
  <2> QED BY <1>5, <1>6, Induction
<1>8. \A p \in f[Len(body)] : Inv(p)
  BY <1>1, <1>7
<1>9. PICK p \in f[Len(body)] : p.rest = <<>> /\ ms = p.out
  BY <1>2
<1>10. ms \in Seq(Records) /\ names = Required(ms) \cup MatchedNames(U(<<>>))
  BY <1>8, <1>9 DEF Inv
<1>11. MatchedNames(U(<<>>)) = {}
  <2>1. U(<<>>) = <<>>
    BY StrippedType DEF Modes
  <2>2. MatchedNames(<<>>) = {}
    <3> SUFFICES ASSUME NEW x PROVE x \notin MatchedNames(<<>>)
      OBVIOUS
    <3>1. PICK e \in Seq(Chars) : e = <<>> /\ Len(e) = 0
      BY EmptySeq, Zenon
    <3>2. x \in MatchedNames(e) <=> \E i, j \in 1..Len(e) : IsName(e, i, j) /\ x = SubSeq(e, i, j)
      BY NamesIff
    <3> QED BY <3>1, <3>2
  <2> QED BY <2>1, <2>2
<1> QED BY <1>10, <1>11, Zenon DEF names

\* A query's text up to the brace that closes its selector.
LEMMA Braced ==
    ASSUME NEW s \in Seq(Chars), s # <<>>, s[1] = LeftBrace, closingBrace(s) # 0
    PROVE  \E body \in Sealed, rest \in Seq(Chars) :
             /\ s = Cat(<<LeftBrace>>, Cat(body, Cat(<<RightBrace>>, rest)))
             /\ SubSeq(s, 2, closingBrace(s) - 1) = body
<1> DEFINE mode == Reading(s, "outside", DoubleQuote)
           CB == ClosingBraces(s)
           e == closingBrace(s)
           t == Tail(s)
<1>1. /\ LeftBrace # RightBrace /\ LeftBrace \notin {QuoteMark, RightBrace}
      /\ LeftBrace \in Chars /\ "outside" \in Modes
  BY SyntaxChars DEF LeftBrace, RightBrace, QuoteMark, Modes
<1>2. CB = {i \in 1..Len(s) : mode[i - 1] = "outside" /\ s[i] = RightBrace}
  <2>1. DOMAIN s = 1..Len(s)
    OBVIOUS
  <2> QED BY <2>1 DEF ClosingBraces
<1>3. CB # {} /\ e = Min(CB) /\ CB \in SUBSET Nat
  BY <1>2 DEF closingBrace
<1>4. t \in Seq(Chars) /\ s = <<LeftBrace>> \o t /\ Len(s) = 1 + Len(t) /\ Len(t) \in Nat
  OBVIOUS
<1>5. \A i \in 1..Len(t) : s[1 + i] = t[i]
  OBVIOUS
<1> HIDE DEF t
<1>6. \A i \in 0..Len(t) : mode[1 + i] = Reading(t, "outside", DoubleQuote)[i]
  <2>1. <<LeftBrace>> \in Seq(Chars)
    BY <1>1
  <2>2. PICK l \in Seq(Chars) : l = <<LeftBrace>>
    BY <2>1, Zenon
  <2>a. Len(l) = 1 /\ l[1] = LeftBrace
    BY <2>2
  <2>b. \A i \in 1..Len(l) : l[i] \in Chars \ {QuoteMark, RightBrace}
    BY <1>1, <2>a
  <2>c. l \in Sealed
    BY <2>b, PlainIsSealed
  <2>3. Reading(l, "outside", DoubleQuote)[Len(l)] = "outside"
    BY <2>c DEF Sealed
  <2>4. \A i \in 0..Len(t) : Reading(l \o t, "outside", DoubleQuote)[Len(l) + i]
                = Reading(t, Reading(l, "outside", DoubleQuote)[Len(l)], DoubleQuote)[i]
    BY <1>1, <1>4, ReadingConcat
  <2> QED BY <1>4, <2>2, <2>a, <2>3, <2>4
<1> HIDE DEF CB, mode
<1>7. e \in CB /\ \A i \in CB : e <= i
  BY <1>3, MinIsLeast
<1> HIDE DEF e
<1>8. e \in 1..Len(s) /\ mode[e - 1] = "outside" /\ s[e] = RightBrace /\ e # 1
  BY <1>1, <1>2, <1>7
<1>9. e - 1 \in 1..Len(t) /\ e - 2 \in 0..Len(t) /\ e - 1 \in 0..Len(t) /\ (e - 2) + 1 = e - 1
      /\ 1 + (e - 1) = e /\ 1 + (e - 2) = e - 1
  BY <1>4, <1>8
<1> DEFINE body == SubSeq(t, 1, e - 2)
           r == DropChars(t, e - 2)
           rest == DropChars(t, e - 1)
<1>10. body \in Seq(Chars) /\ Len(body) = e - 2 /\ r \in Seq(Chars) /\ t = body \o r
  BY <1>4, <1>9, SplitAt, ZenonT(30)
<1>11. rest \in Seq(Chars)
  BY <1>4, <1>9, SplitAt
<1>12. r = <<RightBrace>> \o rest
  <2>1. SubSeq(t, e - 1, Len(t)) = <<t[e - 1]>> \o SubSeq(t, (e - 1) + 1, Len(t))
    <3>1. Len(t) \in (e - 1)..Len(t)
      BY <1>4, <1>9
    <3> QED BY <1>4, <1>9, <3>1, SubSeqRecursiveFirst, Zenon
  <2>2. t[e - 1] = RightBrace
    BY <1>5, <1>8, <1>9
  <2> QED BY <1>9, <2>1, <2>2, Zenon DEF DropChars
<1>13. \A i \in 1..Len(body) : body[i] = s[1 + i]
  <2>1. \A i \in 1..Len(body) : i \in 1..Len(t) /\ body[i] = t[i]
    BY <1>4, <1>9, <1>10
  <2> QED BY <1>5, <2>1, Zenon
<1>14. SubSeq(s, 2, e - 1) = body
  <2> DEFINE u == SubSeq(s, 2, e - 1)
  <2>1. 2 \in 1..(Len(s) + 1) /\ e - 1 \in 0..Len(s) /\ 2 <= (e - 1) + 1 /\ ((e - 1) + 1) - 2 = e - 2
    BY <1>4, <1>8
  <2>2. /\ u \in Seq(Chars) /\ Len(u) = ((e - 1) + 1) - 2
        /\ \A k \in 1..(((e - 1) + 1) - 2) : u[k] = s[(2 - 1) + k]
    BY <2>1, PartOf
  <2> HIDE DEF u, body
  <2>3. Len(u) = Len(body) /\ \A k \in 1..Len(body) : u[k] = body[k]
    BY <1>10, <1>13, <2>1, <2>2
  <2>4. u = body
    BY <1>10, <2>2, <2>3, SeqEqual
  <2> QED BY <2>4 DEF u
<1> HIDE DEF body, r, rest
<1>15. \A i \in 0..Len(body) : Reading(body, "outside", DoubleQuote)[i] = mode[1 + i]
  <2>1. \A i \in 0..Len(body) : Reading(body \o r, "outside", DoubleQuote)[i]
                                  = Reading(body, "outside", DoubleQuote)[i]
    BY <1>1, <1>10, ReadingConcat
  <2>2. \A i \in 0..Len(body) : i \in 0..Len(t)
    BY <1>9, <1>10
  <2> QED BY <1>6, <1>10, <2>1, <2>2
<1>16. body \in Sealed
  <2>1. Reading(body, "outside", DoubleQuote)[Len(body)] = "outside"
    <3>1. Len(body) \in 0..Len(body) /\ 1 + Len(body) = e - 1
      BY <1>9, <1>10
    <3> QED BY <1>8, <1>15, <3>1
  <2>2. ASSUME NEW i \in 1..Len(body), Reading(body, "outside", DoubleQuote)[i - 1] = "outside"
        PROVE  body[i] # RightBrace
    <3>1. i - 1 \in 0..Len(body) /\ 1 + (i - 1) = (1 + i) - 1 /\ 1 + i \in 1..Len(s) /\ ~(e <= 1 + i)
      BY <1>4, <1>9, <1>10
    <3>2. mode[(1 + i) - 1] = "outside"
      BY <1>15, <2>2, <3>1
    <3>3. s[1 + i] # RightBrace
      BY <1>2, <1>7, <3>1, <3>2
    <3> QED BY <1>13, <3>3
  <2> QED BY <1>10, <2>1, <2>2 DEF Sealed
<1>17. s = Cat(<<LeftBrace>>, Cat(body, Cat(<<RightBrace>>, rest)))
  BY <1>4, <1>10, <1>12 DEF Cat
<1> QED BY <1>11, <1>14, <1>16, <1>17, Zenon DEF e

\* What the logs command looks at: the text between the braces.
LEMMA SelectorText ==
    ASSUME NEW a \in Blanks, NEW body \in Sealed, NEW d \in Seq(Chars)
    PROVE  unquotedSelector(Cat(a, Cat(<<LeftBrace>>, Cat(body, Cat(<<RightBrace>>, d)))))
             = Stripped(body, "outside")
<1>1. /\ a \in Seq(Chars) /\ <<LeftBrace>> \in Seq(Chars) /\ <<RightBrace>> \in Seq(Chars)
      /\ body \in Seq(Chars)
  BY BlanksAreChars, SyntaxChars DEF Sealed
<1>2. PICK l \in Seq(Chars), r \in Seq(Chars) : l = <<LeftBrace>> /\ r = <<RightBrace>>
  BY <1>1, Zenon
<1>3. PICK y \in Seq(Chars) : y = r \o d
  BY ConcatProperties, Zenon
<1>4. PICK x \in Seq(Chars) : x = body \o y
  BY <1>1, ConcatProperties, Zenon
<1>5. PICK w \in Seq(Chars) : w = l \o x
  BY ConcatProperties, Zenon
<1>6. PICK raw \in Seq(Chars) : raw = a \o w
  BY <1>1, ConcatProperties, Zenon
<1>7. Cat(a, Cat(<<LeftBrace>>, Cat(body, Cat(<<RightBrace>>, d)))) = raw
  BY <1>2, <1>3, <1>4, <1>5, <1>6 DEF Cat
<1>8. closingBrace(x) = Len(body) + 1
  BY <1>2, <1>3, <1>4, ClosingBraceIs
<1>9. SubSeq(x, 1, Len(body)) = body /\ Len(body) \in Nat
  BY <1>1, <1>4, DropConcat
<1> DEFINE opens == {i \in DOMAIN raw : raw[i] = LeftBrace}
<1>10. Len(a) \in Nat /\ (\A i \in 1..Len(a) : a[i] = Blank) /\ Blank # LeftBrace
  BY BlanksAreChars, SyntaxChars
<1>11. Len(l) = 1 /\ l # <<>> /\ l[1] = LeftBrace
  BY <1>2
<1>12. Min(opens) = Len(a) + 1 /\ opens # {}
  <2>1. w # <<>> /\ w[1] = LeftBrace
    BY <1>5, <1>11, ConcatEnds
  <2>2. /\ Len(raw) = Len(a) + Len(w) /\ Len(w) \in Nat /\ Len(w) >= 1 /\ DOMAIN raw = 1..Len(raw)
        /\ raw[Len(a) + 1] = w[1]
    BY <1>1, <1>6, <2>1
  <2>3. \A i \in 1..Len(a) : raw[i] = Blank
    BY <1>1, <1>6, <1>10
  <2>4. Len(a) + 1 \in opens /\ opens \in SUBSET Nat
    BY <1>10, <2>1, <2>2
  <2>5. ASSUME NEW i \in opens PROVE Len(a) + 1 <= i
    <3>1. i \in 1..Len(raw) /\ raw[i] = LeftBrace
      BY <2>2
    <3>2. ~(i <= Len(a))
      BY <1>10, <2>3, <3>1
    <3> QED BY <1>10, <2>2, <3>1, <3>2
  <2> HIDE DEF opens
  <2> QED BY <2>4, <2>5, MinIsLeast, Zenon
<1>13. DropChars(raw, Len(a) + 1) = x
  <2>1. PICK z \in Seq(Chars) : z = a \o l
    BY <1>1, ConcatProperties, Zenon
  <2>2. raw = z \o x
    <3>1. Cat(Cat(a, l), x) = Cat(a, Cat(l, x))
      BY <1>1, CatAssociative
    <3> QED BY <1>5, <1>6, <2>1, <3>1 DEF Cat
  <2>3. Len(z) = Len(a) + Len(l)
    BY <1>1, <2>1, ConcatProperties
  <2>4. DropChars(z \o x, Len(z)) = x
    BY DropConcat
  <2> QED BY <1>11, <2>2, <2>3, <2>4
<1> DEFINE text == DropChars(raw, Min(opens))
           end == closingBrace(text)
<1>14. unquotedSelector(raw) = IF opens = {} THEN <<>>
                              ELSE unquoted(IF end = 0 THEN text ELSE SubSeq(text, 1, end - 1))
  BY DEF unquotedSelector
<1>15. text = x /\ end = Len(body) + 1
  BY <1>8, <1>12, <1>13
<1>16. end # 0 /\ end - 1 = Len(body)
  BY <1>9, <1>15
<1> HIDE DEF text, end, opens
<1>17. unquotedSelector(raw) = unquoted(body)
  BY <1>9, <1>12, <1>14, <1>15, <1>16, Zenon
<1> QED BY <1>7, <1>17 DEF unquoted, Stripped

\* The parser takes the matchers from the same text.
LEMMA SameSelector ==
    ASSUME NEW raw \in Seq(Chars), NEW query \in Parse(raw)
    PROVE  \E a \in Blanks, body \in Sealed, d \in Seq(Chars) :
             /\ raw = Cat(a, Cat(<<LeftBrace>>, Cat(body, Cat(<<RightBrace>>, d))))
             /\ query.matchers \in parseMatchers(body)
<1> DEFINE s == TrimSpace(raw)
<1>1. /\ s # <<>> /\ s[1] = LeftBrace /\ closingBrace(s) # 0
      /\ query.matchers \in parseMatchers(SubSeq(s, 2, closingBrace(s) - 1))
  BY DEF Parse
<1>2. s \in Seq(Chars) /\ \E a, b \in Blanks : raw = a \o (s \o b)
  BY TrimSplits, Zenon
<1> HIDE DEF s
<1>3. PICK a \in Blanks, b \in Blanks : raw = a \o (s \o b)
  BY <1>2, Zenon
<1>4. PICK body \in Sealed, rest \in Seq(Chars) :
         /\ s = Cat(<<LeftBrace>>, Cat(body, Cat(<<RightBrace>>, rest)))
         /\ SubSeq(s, 2, closingBrace(s) - 1) = body
  BY <1>1, <1>2, Braced
<1>5. /\ <<LeftBrace>> \in Seq(Chars) /\ <<RightBrace>> \in Seq(Chars)
      /\ body \in Seq(Chars) /\ b \in Seq(Chars)
  BY BlanksAreChars, SyntaxChars DEF Sealed
<1>6. PICK l \in Seq(Chars), r \in Seq(Chars), x \in Seq(Chars), c \in Seq(Chars) :
         l = <<LeftBrace>> /\ r = <<RightBrace>> /\ x = body /\ c = b
  BY <1>5, Zenon
<1>7. PICK d \in Seq(Chars) : d = Cat(rest, c)
  BY CatType, Zenon
<1>8. PICK z \in Seq(Chars) : z = Cat(r, rest)
  BY CatType, Zenon
<1>9. PICK w \in Seq(Chars) : w = Cat(x, z)
  BY CatType, Zenon
<1>10. Cat(z, c) = Cat(r, d)
  BY <1>7, <1>8, CatAssociative
<1>11. Cat(w, c) = Cat(x, Cat(z, c))
  BY <1>9, CatAssociative
<1>12. Cat(Cat(l, w), c) = Cat(l, Cat(w, c))
  BY CatAssociative
<1>13. s = Cat(l, w) /\ raw = Cat(a, Cat(s, c))
  BY <1>3, <1>4, <1>6, <1>8, <1>9 DEF Cat
<1>14. raw = Cat(a, Cat(l, Cat(x, Cat(r, d))))
  BY <1>10, <1>11, <1>12, <1>13
<1> QED BY <1>1, <1>4, <1>6, <1>14, Zenon

\* The labels found in a text are the ones that each reading of it requires,
\* unless a backquote is left in the selector without its strings.
LEMMA HintsOfText ==
    ASSUME NEW raw \in Seq(Chars), unquotedSelector(raw) \in Clean, NEW query \in Parse(raw)
    PROVE  requiredLabels(raw) = {query.matchers[i].label :
               i \in {j \in DOMAIN query.matchers : query.matchers[j].op \in {Equal, Regexp}}}
<1>1. PICK a \in Blanks, body \in Sealed, d \in Seq(Chars) :
         /\ raw = Cat(a, Cat(<<LeftBrace>>, Cat(body, Cat(<<RightBrace>>, d))))
         /\ query.matchers \in parseMatchers(body)
  BY SameSelector
<1>2. unquotedSelector(raw) = Stripped(body, "outside")
  BY <1>1, SelectorText
<1>3. body \in Seq(Chars) /\ Stripped(body, "outside") \in Clean
  BY <1>2 DEF Sealed
<1>4. PICK ms : ms = query.matchers
  OBVIOUS
<1>5. ms \in Seq(Records) /\ MatchedNames(Stripped(body, "outside")) = Required(ms)
  BY <1>1, <1>3, <1>4, NamesAreRequired
<1>6. DOMAIN ms = 1..Len(ms)
  BY <1>5
<1> QED BY <1>2, <1>4, <1>5, <1>6 DEF requiredLabels, Required

\* Taking the strings out of a text without backquotes adds none.
LEMMA CleanStripped ==
    ASSUME NEW s \in Clean
    PROVE  Stripped(s, "outside") \in Clean
<1> DEFINE C == Chars \ {Backquote}
           X == Left(s, Reading(s, "outside", DoubleQuote))
<1>1. s \in Seq(C) /\ s \in Seq(Chars) /\ Len(s) \in Nat /\ \A i \in 1..Len(s) : s[i] \in C
  BY KindsOfText DEF Clean
<1>2. Blank \in C
  BY SyntaxChars DEF Blank, Backquote
<1> HIDE DEF C
<1>3. \A i \in 1..Len(s) : <<s[i]>> \in Seq(C) /\ <<>> \in Seq(C) /\ <<Blank>> \in Seq(C)
  BY <1>1, <1>2
<1>4. X \in [1..Len(s) -> Seq(C)]
  BY <1>3 DEF Left
<1>5. Stripped(s, "outside") = FlattenSeq(X)
  BY <1>1, LeftType DEF Stripped
<1> HIDE DEF X
<1>6. X \in Seq(Seq(C))
  BY <1>1, <1>4, FunIsSeq
<1>7. FlattenSeq(X) \in Seq(C)
  BY <1>6, FlattenType
<1> QED BY <1>5, <1>7 DEF Clean, C

\* The selector of a text without backquotes has none.
LEMMA CleanSelector ==
    ASSUME NEW raw \in Clean, NEW query \in Parse(raw)
    PROVE  unquotedSelector(raw) \in Clean
<1>1. raw \in Seq(Chars)
  BY KindsOfText
<1>2. PICK a \in Blanks, body \in Sealed, d \in Seq(Chars) :
         raw = Cat(a, Cat(<<LeftBrace>>, Cat(body, Cat(<<RightBrace>>, d))))
  BY <1>1, SameSelector
<1>3. unquotedSelector(raw) = Stripped(body, "outside")
  BY <1>2, SelectorText
<1>4. /\ a \in Seq(Chars) /\ <<LeftBrace>> \in Seq(Chars) /\ <<RightBrace>> \in Seq(Chars)
      /\ body \in Seq(Chars)
  BY BlanksAreChars, SyntaxChars DEF Sealed
<1>5. PICK y \in Seq(Chars) : y = Cat(<<RightBrace>>, d)
  BY <1>4, CatType, Zenon
<1>6. PICK x \in Seq(Chars) : x = Cat(body, y)
  BY <1>4, CatType, Zenon
<1>7. PICK w \in Seq(Chars) : w = Cat(<<LeftBrace>>, x)
  BY <1>4, CatType, Zenon
<1>8. Cat(a, w) \in Clean
  BY <1>2, <1>5, <1>6, <1>7
<1>9. w \in Clean
  BY <1>4, <1>8, CleanSuffix
<1>10. x \in Clean
  BY <1>4, <1>7, <1>9, CleanSuffix, Zenon
<1>11. body \in Clean
  BY <1>4, <1>6, <1>10, CleanPrefix
<1> QED BY <1>3, <1>11, CleanStripped

\* Texts that close their strings and hold backquotes in strings only.
Tidy == {s \in Seq(Chars) : Ends(s, "outside") = "outside" /\ Stripped(s, "outside") \in Clean}

\* Tidy texts next to each other are tidy.
LEMMA TidyConcat ==
    ASSUME NEW a \in Tidy, NEW b \in Tidy
    PROVE  a \o b \in Tidy
<1> DEFINE U(z) == Stripped(z, "outside")
<1>1. /\ a \in Seq(Chars) /\ b \in Seq(Chars) /\ "outside" \in Modes
      /\ Ends(a, "outside") = "outside" /\ Ends(b, "outside") = "outside"
      /\ U(a) \in Clean /\ U(b) \in Clean
  BY DEF Tidy, Modes
<1>2. U(Cat(a, b)) = Cat(U(a), U(b)) /\ Ends(Cat(a, b), "outside") = "outside"
  BY <1>1, StrippedConcat
<1>3. a \o b \in Seq(Chars)
  BY <1>1
<1> HIDE DEF U
<1>4. Cat(U(a), U(b)) \in Clean
  BY <1>1, ConcatProperties, Zenon DEF Clean, Cat
<1> QED BY <1>2, <1>3, <1>4, Zenon DEF Tidy, Cat, U

\* A text without quotes and braces is tidy.
LEMMA PlainIsTidy ==
    ASSUME NEW s \in Seq(Chars), \A i \in 1..Len(s) : s[i] \notin {QuoteMark, RightBrace, Backquote}
    PROVE  s \in Tidy
<1>1. Stripped(s, "outside") = s /\ Ends(s, "outside") = "outside"
  BY PlainStripped
<1>2. s \in [1..Len(s) -> Chars] /\ Len(s) \in Nat
  OBVIOUS
<1>3. s \in [1..Len(s) -> Chars \ {Backquote}]
  BY <1>2
<1>4. s \in Clean
  BY <1>2, <1>3, FunIsSeq DEF Clean
<1> QED BY <1>1, <1>4 DEF Tidy

\* What strconv.Quote writes is tidy, whatever the value holds.
LEMMA QuoteIsTidy ==
    ASSUME NEW v \in Seq(Chars)
    PROVE  Quote(v) \in Tidy
<1> DEFINE e == Escape(v, Escapable)
           E == Reading(e, "inside", DoubleQuote)
<1>1. e \in Seq(Chars) /\ Quoted(v, e)
  BY EscapeIsQuoted
<1>2. Quote(v) = (<<QuoteMark>> \o e) \o <<QuoteMark>> /\ Quote(v) \in Sealed
  BY QuoteIsSealed DEF Quote
<1>3. E[Len(e)] = "inside" /\ \A i \in 1..Len(e) : E[i] # "outside"
  BY <1>1 DEF Quoted
<1>4. E[0] = "inside"
  BY <1>1, ReadingSteps DEF Modes
<1> HIDE DEF e, E
<1>5. \A i \in 0..Len(e) : E[i] # "outside"
  BY <1>1, <1>3, <1>4
<1>6. PICK t \in Seq(Chars), q \in Seq(Chars) : t = <<>> /\ q = <<QuoteMark>>
  <2>1. <<>> \in Seq(Chars) /\ <<QuoteMark>> \in Seq(Chars)
    BY SyntaxChars
  <2> QED BY <2>1, Zenon
<1>7. Stripped(Cat(<<QuoteMark>>, Cat(e, Cat(<<QuoteMark>>, t))), "outside")
        = Cat(<<Blank>>, Cat(<<Blank>>, Stripped(t, "outside")))
  BY <1>1, <1>3, <1>5, StringStripped, Zenon DEF E, Ends
<1>8. Stripped(t, "outside") = <<>>
  BY <1>6, StrippedType DEF Modes
<1>9. Cat(q, Cat(e, Cat(q, t))) = Quote(v)
  <2>1. q \o t = q
    BY <1>6
  <2>2. (q \o e) \o q = q \o (e \o q)
    BY <1>1, ConcatAssociative
  <2> QED BY <1>2, <1>6, <2>1, <2>2 DEF Cat
<1>10. Cat(<<Blank>>, Cat(<<Blank>>, <<>>)) \in Clean
  <2>1. Blank \in Chars \ {Backquote}
    BY SyntaxChars DEF Blank, Backquote
  <2> DEFINE C == Chars \ {Backquote}
  <2> HIDE DEF C
  <2>2. <<Blank>> \o (<<Blank>> \o <<>>) \in Seq(C)
    BY <2>1 DEF C
  <2> QED BY <2>2 DEF Cat, Clean, C
<1>11. Ends(Quote(v), "outside") = "outside" /\ Quote(v) \in Seq(Chars)
  BY <1>2 DEF Sealed, Ends
<1>12. Stripped(Quote(v), "outside") \in Clean
  BY <1>6, <1>7, <1>8, <1>9, <1>10
<1> QED BY <1>11, <1>12 DEF Tidy

\* Backquotes in the values of a built query are in strings.
LEMMA MatchersAreTidy ==
    ASSUME NEW ms \in Seq(Matchers)
    PROVE  MatchersFrom(ms, 0) \in Tidy
<1>1. Tidy \in SUBSET Seq(Chars) /\ <<>> \in Tidy
  <2>1. <<>> \in Seq(Chars) /\ \A i \in 1..Len(<<>>) : <<>>[i] \notin {QuoteMark, RightBrace, Backquote}
    OBVIOUS
  <2>2. <<>> \in Tidy
    BY <2>1, PlainIsTidy, Zenon
  <2> QED BY <2>2 DEF Tidy
<1>2. \A a, b \in Tidy : a \o b \in Tidy
  BY TidyConcat
<1>3. Separator \in Tidy
  <2>1. Separator \in Seq(Chars)
    BY SyntaxChars DEF Separator
  <2>2. \A i \in 1..Len(Separator) : Separator[i] \in {Comma, Blank}
    BY DEF Separator
  <2>3. /\ Comma \notin {QuoteMark, RightBrace, Backquote}
        /\ Blank \notin {QuoteMark, RightBrace, Backquote}
    BY DEF Comma, Blank, QuoteMark, RightBrace, Backquote
  <2> QED BY <2>1, <2>2, <2>3, PlainIsTidy
<1>4. MatcherOps \subseteq Tidy
  <2> SUFFICES ASSUME NEW op \in MatcherOps PROVE op \in Tidy
    OBVIOUS
  <2>1. op \in Seq(Chars)
    BY OpsAreChars DEF MatcherOps
  <2>2. \A i \in 1..Len(op) : op[i] \in {"=", "!", "~"}
    BY DEF MatcherOps, Equal, NotEqual, Regexp, NotRegexp
  <2>3. \A c \in {"=", "!", "~"} : c \notin {QuoteMark, RightBrace, Backquote}
    BY DEF QuoteMark, RightBrace, Backquote
  <2> QED BY <2>1, <2>2, <2>3, PlainIsTidy
<1>5. Seq(Letters) \subseteq Tidy
  <2> SUFFICES ASSUME NEW l \in Seq(Letters) PROVE l \in Tidy
    OBVIOUS
  <2>1. l \in Seq(Chars)
    BY SyntaxChars, SeqMonotonic
  <2>2. \A i \in 1..Len(l) : l[i] \in Letters
    OBVIOUS
  <2>3. \A c \in Letters : c \notin {QuoteMark, RightBrace, Backquote}
    BY DEF QuoteMark, RightBrace, Backquote, Letters
  <2> QED BY <2>1, <2>2, <2>3, PlainIsTidy
<1> QED BY <1>1, <1>2, <1>3, <1>4, <1>5, QuoteIsTidy, MatchersClosed, Zenon

\* The selector of a built query has no backquote outside its strings.
LEMMA BuiltSelector ==
    ASSUME NEW sel, sel.matchers \in Seq(Matchers), sel.filters \in Seq(Filters)
    PROVE  String(sel) \in Seq(Chars) /\ unquotedSelector(String(sel)) \in Clean
<1> DEFINE M == MatchersFrom(sel.matchers, 0)
           F == FiltersFrom(sel.filters, 0)
<1>1. String(sel) = ((<<LeftBrace>> \o M) \o <<RightBrace>>) \o F
  BY StringIs
<1>2. M \in Sealed /\ Stripped(M, "outside") \in Clean
  BY MatchersAreSealed, MatchersAreTidy DEF Tidy
<1>3. F \in Seq(Chars)
  <2>1. 0 \in 0..Len(sel.filters)
    OBVIOUS
  <2>2. F \in Ended
    BY <2>1, FiltersUnfold
  <2> QED BY <2>2 DEF Ended
<1> HIDE DEF M, F
<1>4. PICK l \in Seq(Chars), r \in Seq(Chars) : l = <<LeftBrace>> /\ r = <<RightBrace>>
  <2>1. <<LeftBrace>> \in Seq(Chars) /\ <<RightBrace>> \in Seq(Chars)
    BY SyntaxChars
  <2> QED BY <2>1, Zenon
<1>5. M \in Seq(Chars)
  BY <1>2 DEF Sealed
<1>6. ((l \o M) \o r) \o F = l \o (M \o (r \o F))
  <2>1. PICK x \in Seq(Chars) : x = l \o M
    BY <1>5, ConcatProperties, Zenon
  <2>2. PICK y \in Seq(Chars) : y = r \o F
    BY <1>3, ConcatProperties, Zenon
  <2>3. (x \o r) \o F = x \o (r \o F)
    BY <1>3, ConcatAssociative
  <2>4. (l \o M) \o y = l \o (M \o y)
    BY <1>5, ConcatAssociative, SMTT(20)
  <2> QED BY <2>1, <2>2, <2>3, <2>4
<1>7. PICK w \in Seq(Chars) : w = l \o (M \o (r \o F))
  <2>1. r \o F \in Seq(Chars)
    BY <1>3, ConcatProperties
  <2>2. M \o (r \o F) \in Seq(Chars)
    BY <1>5, <2>1, ConcatProperties
  <2> QED BY <2>2, ConcatProperties, Zenon
<1>8. <<>> \in Blanks /\ <<>> \o w = w
  BY DEF Blanks
<1>9. Cat(<<>>, Cat(<<LeftBrace>>, Cat(M, Cat(<<RightBrace>>, F)))) = String(sel)
  BY <1>1, <1>4, <1>6, <1>7, <1>8 DEF Cat
<1>10. unquotedSelector(String(sel)) = Stripped(M, "outside")
  BY <1>2, <1>3, <1>8, <1>9, SelectorText, Zenon
<1> QED BY <1>1, <1>2, <1>4, <1>6, <1>7, <1>10, Zenon
=============================================================================
