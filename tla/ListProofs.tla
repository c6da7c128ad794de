------------------------------ MODULE ListProofs ------------------------------
(***************************************************************************)
(* Lemmas about the lists of the web client: sorting, filtering, inserting *)
(* and removing, for lists of any length, and the induction they rest on.  *)
(***************************************************************************)
EXTENDS Lists, Integers, SequencesExt, FiniteSetTheorems, SequenceTheorems, NaturalsInduction,
        WellFoundedInduction, TLAPS

---------------------------------------------------------------------------
(* Induction, as a fact about sets of numbers: a set that has 0, and with a *)
(* number the next one, has them all.                                      *)

Before == OpToRel(<, Nat)

LEMMA Least ==
  ASSUME NEW S, S \subseteq Nat, S # {}
  PROVE  \E n \in S : \A m \in S : n <= m
  <1>1. IsWellFoundedOn(Before, Nat)
    BY NatLessThanWellFounded DEF Before
  <1>2. \A i, j \in Nat : i < j => <<i, j>> \in Before
    BY DEF Before, OpToRel
  <1>3. PICK n \in S : \A m \in S : ~(<<m, n>> \in Before)
    BY <1>1, WFMin
  <1>4. n \in Nat /\ \A m \in S : m \in Nat /\ ~(m < n)
    BY <1>2, <1>3
  <1> QED
    BY <1>4

LEMMA Induction ==
  ASSUME NEW S, 0 \in S, \A n \in Nat : n \in S => n + 1 \in S
  PROVE  Nat \subseteq S
  <1> SUFFICES ASSUME NEW x \in Nat, x \notin S PROVE FALSE
    OBVIOUS
  <1> DEFINE U == {n \in Nat : n \notin S}
  <1>1. PICK n \in U : \A m \in U : n <= m
    BY Least
  <1>2. n # 0 /\ n - 1 \in Nat /\ n - 1 \notin U
    BY <1>1
  <1>3. n - 1 + 1 \in S
    BY <1>2
  <1> QED
    BY <1>2, <1>3

---------------------------------------------------------------------------
(* Lists.                                                                  *)

\* The numbers of a finite set can be put in order: the least one, then the others.
Ordered(f) == \A i, j \in DOMAIN f : i < j => f[i] < f[j]

LEMMA SortExists ==
  \A n \in Nat : \A S \in SUBSET Nat : IsFiniteSet(S) /\ Cardinality(S) = n =>
    \E f \in [1 .. n -> S] : Ordered(f)
  <1> DEFINE Sorts(n) == \A S \in SUBSET Nat : IsFiniteSet(S) /\ Cardinality(S) = n =>
                            \E f \in [1 .. n -> S] : Ordered(f)
             T == {n \in Nat : Sorts(n)}
  <1>1. 0 \in T
    <2> SUFFICES ASSUME NEW S \in SUBSET Nat PROVE \E f \in [1 .. 0 -> S] : Ordered(f)
      OBVIOUS
    <2> DEFINE f == [i \in 1 .. 0 |-> 0]
    <2>1. f \in [1 .. 0 -> S] /\ Ordered(f)
      BY DEF Ordered
    <2> QED
      BY <2>1
  <1>2. ASSUME NEW n \in Nat, n \in T PROVE n + 1 \in T
    <2> SUFFICES ASSUME NEW S \in SUBSET Nat, IsFiniteSet(S), Cardinality(S) = n + 1
                 PROVE  \E f \in [1 .. n + 1 -> S] : Ordered(f)
      OBVIOUS
    <2>1. S # {}
      BY FS_EmptySet
    <2>2. PICK m \in S : \A x \in S : m <= x
      BY <2>1, Least
    <2> DEFINE R == S \ {m}
    <2>3. IsFiniteSet(R) /\ Cardinality(R) = n
      BY FS_RemoveElement
    <2>4. PICK g \in [1 .. n -> R] : Ordered(g)
      BY <1>2, <2>3
    <2> DEFINE f == [i \in 1 .. n + 1 |-> IF i = 1 THEN m ELSE g[i - 1]]
    <2>5. \A i \in 1 .. n + 1 : i # 1 => i - 1 \in 1 .. n /\ f[i] = g[i - 1] /\ g[i - 1] \in R
      BY <2>4
    <2>6. f[1] = m /\ f \in [1 .. n + 1 -> S]
      BY <2>5
    <2>7. ASSUME NEW i \in 1 .. n + 1, NEW j \in 1 .. n + 1, i < j PROVE f[i] < f[j]
      <3>1. j # 1 /\ j - 1 \in 1 .. n /\ f[j] = g[j - 1] /\ g[j - 1] \in R
        BY <2>5, <2>7
      <3>2. CASE i = 1
        <4>1. m <= g[j - 1] /\ m # g[j - 1] /\ m \in Nat /\ g[j - 1] \in Nat
          BY <2>2, <3>1
        <4> QED
          BY <2>6, <3>1, <3>2, <4>1
      <3>3. CASE i # 1
        <4>1. i - 1 \in 1 .. n /\ f[i] = g[i - 1] /\ i - 1 < j - 1
          BY <2>5, <2>7, <3>3
        <4> QED
          BY <2>4, <3>1, <4>1 DEF Ordered
      <3> QED
        BY <3>2, <3>3
    <2>8. Ordered(f)
      BY <2>6, <2>7 DEF Ordered
    <2> QED
      BY <2>6, <2>8
  <1> HIDE DEF Sorts
  <1>3. Nat \subseteq T
    BY <1>1, <1>2, Induction
  <1>4. \A n \in Nat : Sorts(n)
    BY <1>3
  <1> QED
    BY <1>4 DEF Sorts

\* Sorted(S) lists S, in ascending order and nothing else.
LEMMA SortedFacts ==
  ASSUME NEW S \in SUBSET Nat, IsFiniteSet(S)
  PROVE  /\ Sorted(S) \in Seq(S) /\ Sorted(S) \in Seq(Nat) /\ Len(Sorted(S)) = Cardinality(S)
         /\ \A i, j \in 1 .. Cardinality(S) : i < j => Sorted(S)[i] < Sorted(S)[j]
         /\ \A x \in S : \E i \in 1 .. Cardinality(S) : Sorted(S)[i] = x
  <1> DEFINE n == Cardinality(S)
             f == Sorted(S)
  <1>1. n \in Nat
    BY FS_CardinalityType
  <1>2. \E g \in [1 .. n -> S] : Ordered(g)
    BY <1>1, SortExists
  <1>3. f \in [1 .. n -> S] /\ Ordered(f)
    BY <1>2 DEF Sorted, Ordered
  <1> HIDE DEF f
  <1>4. f \in Seq(S) /\ Len(f) = n
    BY <1>1, <1>3
  <1>5. \A i, j \in 1 .. n : i < j => f[i] < f[j]
    BY <1>3 DEF Ordered
  <1>6. \A i, j \in 1 .. n : i # j => f[i] # f[j]
    <2> SUFFICES ASSUME NEW i \in 1 .. n, NEW j \in 1 .. n, i # j PROVE f[i] # f[j]
      OBVIOUS
    <2>1. f[i] \in Nat /\ f[j] \in Nat
      BY <1>3
    <2>2. i < j \/ j < i
      BY <1>1
    <2> QED
      BY <1>5, <2>1, <2>2
  <1>7. f \in Injection(1 .. n, S)
    BY <1>3, <1>6 DEF Injection, IsInjective
  <1>8. Cardinality(1 .. n) = Cardinality(S)
    BY <1>1, FS_Interval
  <1>9. f \in Surjection(1 .. n, S)
    BY <1>7, <1>8, FS_Injection
  <1>10. \A x \in S : \E i \in 1 .. n : f[i] = x
    BY <1>9 DEF Surjection
  <1>11. f \in Seq(Nat)
    BY <1>4, SeqMonotonic
  <1> QED
    BY <1>4, <1>5, <1>10, <1>11 DEF f

\* Without is a function of how much of the list it has seen.
Grows(r, x, S) == IF x \in S THEN r ELSE Append(r, x)
IsLeft(f, k, seq, S) == f = [i \in 0 .. k |-> IF i = 0 THEN <<>>
                                             ELSE IF seq[i] \in S THEN f[i - 1]
                                             ELSE Append(f[i - 1], seq[i])]

LEMMA LeftStep ==
  ASSUME NEW f, NEW k \in Nat, NEW seq, NEW S, IsLeft(f, k, seq, S)
  PROVE  f[0] = <<>> /\ \A i \in 1 .. k : f[i] = Grows(f[i - 1], seq[i], S)
  <1> DEFINE E(i) == IF i = 0 THEN <<>> ELSE IF seq[i] \in S THEN f[i - 1]
                                        ELSE Append(f[i - 1], seq[i])
  <1>1. f = [i \in 0 .. k |-> E(i)]
    BY DEF IsLeft
  <1> HIDE DEF E
  <1>2. \A i \in 0 .. k : f[i] = E(i)
    BY <1>1
  <1>3. E(0) = <<>> /\ \A i \in 1 .. k : E(i) = Grows(f[i - 1], seq[i], S)
    BY DEF E, Grows
  <1> QED
    BY <1>2, <1>3

LEMMA LeftExists ==
  ASSUME NEW seq, NEW S
  PROVE  \A k \in Nat : \E f : IsLeft(f, k, seq, S)
  <1> DEFINE T == {k \in Nat : \E f : IsLeft(f, k, seq, S)}
  <1>1. 0 \in T
    <2> DEFINE f == [i \in 0 .. 0 |-> <<>>]
    <2>1. f = [i \in 0 .. 0 |-> IF i = 0 THEN <<>> ELSE IF seq[i] \in S THEN f[i - 1]
                                ELSE Append(f[i - 1], seq[i])]
      OBVIOUS
    <2>2. IsLeft(f, 0, seq, S)
      BY <2>1 DEF IsLeft
    <2> QED
      BY <2>2
  <1>2. ASSUME NEW k \in Nat, k \in T PROVE k + 1 \in T
    <2>1. PICK f : IsLeft(f, k, seq, S)
      BY <1>2
    <2>2. f[0] = <<>> /\ \A i \in 1 .. k : f[i] = Grows(f[i - 1], seq[i], S)
      BY <2>1, LeftStep
    <2> DEFINE h == [i \in 0 .. k + 1 |-> IF i <= k THEN f[i] ELSE Grows(f[k], seq[i], S)]
    <2>3. ASSUME NEW i \in 0 .. k + 1
          PROVE  h[i] = IF i = 0 THEN <<>> ELSE Grows(h[i - 1], seq[i], S)
      <3>1. CASE i = 0
        BY <2>2, <3>1
      <3>2. CASE i \in 1 .. k
        <4>1. h[i] = f[i] /\ h[i - 1] = f[i - 1]
          BY <3>2
        <4> QED
          BY <2>2, <3>2, <4>1
      <3>3. CASE i = k + 1
        <4>1. h[i] = Grows(f[k], seq[i], S) /\ h[i - 1] = f[k]
          BY <3>3
        <4> QED
          BY <3>3, <4>1
      <3> QED
        BY <3>1, <3>2, <3>3
    <2>4. h = [i \in 0 .. k + 1 |-> h[i]]
      OBVIOUS
    <2> HIDE DEF h
    <2>5. IsLeft(h, k + 1, seq, S)
      BY <2>3, <2>4 DEF IsLeft, Grows
    <2> QED
      BY <2>5
  <1> HIDE DEF T
  <1>3. Nat \subseteq T
    BY <1>1, <1>2, Induction
  <1> QED
    BY <1>3 DEF T

\* What is left of the first k: the elements that are not in S, none of them oftener.
Listed(r, x) == \E i \in 1 .. Len(r) : r[i] = x
Among(seq, k, x) == \E i \in 1 .. k : seq[i] = x
Twice(seq, k, x) == \E i, j \in 1 .. k : i # j /\ seq[i] = x /\ seq[j] = x
Filters(r, seq, k, S, T) ==
  /\ r \in Seq(T) /\ Len(r) <= k
  /\ \A x : Listed(r, x) <=> Among(seq, k, x) /\ x \notin S
  /\ \A x : Twice(r, Len(r), x) => Twice(seq, k, x)

LEMMA FilterStep ==
  ASSUME NEW T, NEW seq \in Seq(T), NEW k \in Nat, k + 1 <= Len(seq), NEW S, NEW r,
         Filters(r, seq, k, S, T)
  PROVE  Filters(Grows(r, seq[k + 1], S), seq, k + 1, S, T)
  <1> DEFINE y == seq[k + 1]
  <1>1. y \in T /\ k + 1 \in 1 .. k + 1 /\ 1 .. k \subseteq 1 .. k + 1
    OBVIOUS
  <1>2. \A x : Among(seq, k + 1, x) <=> Among(seq, k, x) \/ x = y
    BY DEF Among
  <1>3. \A x : Twice(seq, k, x) => Twice(seq, k + 1, x)
    BY <1>1 DEF Twice
  <1>4. CASE y \in S
    BY <1>2, <1>3, <1>4 DEF Filters, Grows
  <1>5. CASE y \notin S
    <2> DEFINE q == Append(r, y)
    <2>1. /\ q \in Seq(T) /\ Len(q) = Len(r) + 1 /\ Len(r) \in Nat
          /\ (\A i \in 1 .. Len(r) : q[i] = r[i]) /\ q[Len(r) + 1] = y
      BY <1>1, AppendProperties, LenProperties DEF Filters
    <2> HIDE DEF q
    <2>2. \A x : Listed(q, x) <=> Listed(r, x) \/ x = y
      BY <2>1 DEF Listed
    <2>3. \A x : Listed(q, x) <=> Among(seq, k + 1, x) /\ x \notin S
      BY <1>2, <1>5, <2>2 DEF Filters
    <2>4. ASSUME NEW x, Twice(q, Len(q), x) PROVE Twice(seq, k + 1, x)
      <3>1. PICK i, j \in 1 .. Len(r) + 1 : i # j /\ q[i] = x /\ q[j] = x
        BY <2>1, <2>4 DEF Twice
      <3>2. CASE i \in 1 .. Len(r) /\ j \in 1 .. Len(r)
        <4>1. Twice(r, Len(r), x)
          BY <2>1, <3>1, <3>2 DEF Twice
        <4> QED
          BY <1>3, <4>1 DEF Filters
      <3>3. CASE ~(i \in 1 .. Len(r) /\ j \in 1 .. Len(r))
        <4>1. x = y /\ Listed(r, x)
          BY <2>1, <3>1, <3>3 DEF Listed
        <4>2. PICK l \in 1 .. k : seq[l] = x
          BY <4>1 DEF Filters, Among
        <4>3. l # k + 1 /\ l \in 1 .. k + 1 /\ seq[k + 1] = x
          BY <4>1
        <4> QED
          BY <1>1, <4>2, <4>3 DEF Twice
      <3> QED
        BY <3>2, <3>3
    <2>5. Grows(r, y, S) = q
      BY <1>5 DEF q, Grows
    <2> QED
      BY <2>1, <2>3, <2>4, <2>5 DEF Filters
  <1> QED
    BY <1>4, <1>5

LEMMA WithoutFacts ==
  ASSUME NEW T, NEW seq \in Seq(T), NEW S
  PROVE  Filters(Without(seq, S), seq, Len(seq), S, T)
  <1> DEFINE n == Len(seq)
             f == CHOOSE f_1 : IsLeft(f_1, n, seq, S)
  <1>1. n \in Nat
    OBVIOUS
  <1>2. IsLeft(f, n, seq, S)
    BY <1>1, LeftExists
  <1>3. Without(seq, S) = f[n]
    BY DEF Without, IsLeft
  <1> HIDE DEF f
  <1>4. f[0] = <<>> /\ \A i \in 1 .. n : f[i] = Grows(f[i - 1], seq[i], S)
    BY <1>1, <1>2, LeftStep
  <1> DEFINE R == {i \in Nat : i <= n => Filters(f[i], seq, i, S, T)}
  <1>5. 0 \in R
    <2>1. <<>> \in Seq(T) /\ Len(<<>>) = 0
      OBVIOUS
    <2>2. \A x : ~Listed(<<>>, x) /\ ~Among(seq, 0, x) /\ ~Twice(<<>>, Len(<<>>), x)
      BY <2>1 DEF Listed, Among, Twice
    <2>3. Filters(<<>>, seq, 0, S, T)
      BY <2>1, <2>2 DEF Filters
    <2> QED
      BY <1>4, <2>3
  <1>6. ASSUME NEW i \in Nat, i \in R PROVE i + 1 \in R
    <2> SUFFICES ASSUME i + 1 <= n PROVE Filters(f[i + 1], seq, i + 1, S, T)
      OBVIOUS
    <2>1. f[i + 1] = Grows(f[i], seq[i + 1], S) /\ Filters(f[i], seq, i, S, T)
      BY <1>1, <1>4, <1>6
    <2> QED
      BY <2>1, FilterStep
  <1> HIDE DEF R, n
  <1>7. Nat \subseteq R
    BY <1>5, <1>6, Induction
  <1>8. n \in R
    BY <1>1, <1>7
  <1>9. Filters(f[n], seq, n, S, T)
    BY <1>1, <1>8 DEF R
  <1> QED
    BY <1>3, <1>9 DEF n

---------------------------------------------------------------------------
(* One element more, one less.                                             *)

\* The element inserted stands at its place, those from there on one further.
LEMMA InsertFacts ==
  ASSUME NEW T, NEW s \in Seq(T), NEW i \in 1 .. Len(s) + 1, NEW e \in T
  PROVE  /\ InsertAt(s, i, e) \in Seq(T) /\ Len(InsertAt(s, i, e)) = Len(s) + 1
         /\ \A k \in 1 .. Len(s) + 1 :
              InsertAt(s, i, e)[k] = IF k < i THEN s[k] ELSE IF k = i THEN e ELSE s[k - 1]
  <1> DEFINE n == Len(s)
             a == SubSeq(s, 1, i - 1)
             b == SubSeq(s, i, n)
             m == a \o <<e>>
             c == m \o b
  <1>1. n \in Nat /\ i \in Nat /\ 1 <= i /\ i <= n + 1
    BY LenProperties
  <1>2. a \in Seq(T) /\ Len(a) = i - 1 /\ \A k \in 1 .. i - 1 : a[k] = s[k]
    BY <1>1, SubSeqProperties, Z3
  <1>3. b \in Seq(T) /\ Len(b) = n + 1 - i /\ \A k \in 1 .. n + 1 - i : b[k] = s[i + k - 1]
    BY <1>1, SubSeqProperties, Z3
  <1>4. <<e>> \in Seq(T) /\ Len(<<e>>) = 1 /\ <<e>>[1] = e
    OBVIOUS
  <1> HIDE DEF a, b, n
  <1>5. /\ m \in Seq(T) /\ Len(m) = Len(a) + Len(<<e>>)
        /\ \A k \in 1 .. Len(a) + Len(<<e>>) : m[k] = IF k <= Len(a) THEN a[k] ELSE <<e>>[k - Len(a)]
    BY <1>2, <1>4, ConcatProperties, Zenon
  <1> HIDE DEF m
  <1>6. m \in Seq(T) /\ Len(m) = i /\ \A k \in 1 .. i : m[k] = IF k < i THEN s[k] ELSE e
    BY <1>1, <1>2, <1>4, <1>5
  <1>7. /\ c \in Seq(T) /\ Len(c) = Len(m) + Len(b)
        /\ \A k \in 1 .. Len(m) + Len(b) : c[k] = IF k <= Len(m) THEN m[k] ELSE b[k - Len(m)]
    BY <1>3, <1>6, ConcatProperties, Zenon
  <1> HIDE DEF c
  <1>8. ASSUME NEW k \in 1 .. n + 1
        PROVE  c[k] = IF k < i THEN s[k] ELSE IF k = i THEN e ELSE s[k - 1]
    <2>1. c[k] = IF k <= i THEN m[k] ELSE b[k - i]
      BY <1>1, <1>3, <1>6, <1>7
    <2>2. CASE k <= i
      BY <1>1, <1>6, <2>1, <2>2
    <2>3. CASE k > i
      <3>1. k - i \in 1 .. n + 1 - i /\ i + (k - i) - 1 = k - 1
        BY <1>1, <2>3
      <3> QED
        BY <1>1, <1>3, <2>1, <2>3, <3>1
    <2>4. k \in Int /\ i \in Int
      BY <1>1
    <2> QED
      BY <2>2, <2>3, <2>4
  <1>9. InsertAt(s, i, e) = c
    BY Zenon DEF InsertAt, c, m, a, b, n
  <1>10. c \in Seq(T) /\ Len(c) = n + 1
    BY <1>1, <1>3, <1>6, <1>7
  <1> QED
    BY <1>8, <1>9, <1>10 DEF n

\* The elements behind the one removed stand one place nearer.
LEMMA RemoveFacts ==
  ASSUME NEW T, NEW s \in Seq(T), NEW i \in 1 .. Len(s)
  PROVE  /\ RemoveAt(s, i) \in Seq(T) /\ Len(RemoveAt(s, i)) = Len(s) - 1
         /\ \A k \in 1 .. Len(s) - 1 : RemoveAt(s, i)[k] = IF k < i THEN s[k] ELSE s[k + 1]
  <1> DEFINE n == Len(s)
             a == SubSeq(s, 1, i - 1)
             b == SubSeq(s, i + 1, n)
             c == a \o b
  <1>1. n \in Nat /\ i \in Nat /\ 1 <= i /\ i <= n
    BY LenProperties
  <1>2. a \in Seq(T) /\ Len(a) = i - 1 /\ \A k \in 1 .. i - 1 : a[k] = s[k]
    BY <1>1, SubSeqProperties, Z3
  <1>3. b \in Seq(T) /\ Len(b) = n - i /\ \A k \in 1 .. n - i : b[k] = s[i + k]
    BY <1>1, SubSeqProperties, Z3
  <1> HIDE DEF a, b, n
  <1>4. /\ c \in Seq(T) /\ Len(c) = Len(a) + Len(b)
        /\ \A k \in 1 .. Len(a) + Len(b) : c[k] = IF k <= Len(a) THEN a[k] ELSE b[k - Len(a)]
    BY <1>2, <1>3, ConcatProperties, Zenon
  <1> HIDE DEF c
  <1>5. ASSUME NEW k \in 1 .. n - 1
        PROVE  c[k] = IF k < i THEN s[k] ELSE s[k + 1]
    <2>1. c[k] = IF k <= i - 1 THEN a[k] ELSE b[k - (i - 1)]
      BY <1>1, <1>2, <1>3, <1>4
    <2>2. CASE k < i
      BY <1>1, <1>2, <2>1, <2>2
    <2>3. CASE k >= i
      <3>1. k - (i - 1) \in 1 .. n - i /\ i + (k - (i - 1)) = k + 1
        BY <1>1, <2>3
      <3> QED
        BY <1>1, <1>3, <2>1, <2>3, <3>1
    <2>4. k \in Int /\ i \in Int
      BY <1>1
    <2> QED
      BY <2>2, <2>3, <2>4
  <1>6. RemoveAt(s, i) = c
    BY Zenon DEF RemoveAt, c, a, b, n
  <1>7. c \in Seq(T) /\ Len(c) = n - 1
    BY <1>1, <1>2, <1>3, <1>4
  <1> QED
    BY <1>5, <1>6, <1>7 DEF n

---------------------------------------------------------------------------
(* A list of lists, flattened.                                             *)

IsFlat(f, n, ss) == f = [i \in 1 .. n |-> IF i = 1 THEN ss[i] ELSE f[i - 1] \o ss[i]]

FlatAt(f, i, ss) == IF i = 1 THEN ss[i] ELSE f[i - 1] \o ss[i]

LEMMA FlatStep ==
  ASSUME NEW f, NEW n \in Nat, NEW ss, IsFlat(f, n, ss)
  PROVE  \A i \in 1 .. n : f[i] = FlatAt(f, i, ss)
  <1> DEFINE E(i) == IF i = 1 THEN ss[i] ELSE f[i - 1] \o ss[i]
  <1>1. f = [i \in 1 .. n |-> E(i)]
    BY Zenon DEF IsFlat
  <1> HIDE DEF E
  <1>2. \A i \in 1 .. n : f[i] = E(i)
    BY <1>1
  <1> QED
    BY <1>2, Zenon DEF E, FlatAt

LEMMA FlatExists ==
  ASSUME NEW ss
  PROVE  \A n \in Nat : \E f : IsFlat(f, n, ss)
  <1> DEFINE R == {n \in Nat : \E f : IsFlat(f, n, ss)}
             G(r, i) == r \o ss[i]
  <1>1. 0 \in R
    <2> DEFINE f == [i \in 1 .. 0 |-> 0]
    <2>1. f = [i \in 1 .. 0 |-> IF i = 1 THEN ss[i] ELSE f[i - 1] \o ss[i]]
      OBVIOUS
    <2>2. IsFlat(f, 0, ss)
      BY <2>1, Zenon DEF IsFlat
    <2> QED
      BY <2>2
  <1>2. ASSUME NEW n \in Nat, n \in R PROVE n + 1 \in R
    <2>1. PICK f : IsFlat(f, n, ss)
      BY <1>2
    <2>2. \A i \in 1 .. n : f[i] = IF i = 1 THEN ss[i] ELSE G(f[i - 1], i)
      BY <2>1, FlatStep DEF FlatAt
    <2> HIDE DEF G
    <2> DEFINE h == [i \in 1 .. n + 1 |-> IF i <= n THEN f[i]
                                          ELSE IF i = 1 THEN ss[i] ELSE G(f[n], i)]
    <2>3. ASSUME NEW i \in 1 .. n + 1
          PROVE  h[i] = IF i = 1 THEN ss[i] ELSE G(h[i - 1], i)
      <3>1. CASE i <= n
        <4>1. h[i] = f[i] /\ (i # 1 => h[i - 1] = f[i - 1]) /\ i \in 1 .. n
          BY <3>1
        <4> QED
          BY <2>2, <4>1
      <3>2. CASE i = n + 1
        <4>1. h[i] = (IF i = 1 THEN ss[i] ELSE G(f[n], i)) /\ (i # 1 => h[i - 1] = f[n])
          BY <3>2
        <4> QED
          BY <4>1
      <3> QED
        BY <3>1, <3>2
    <2>4. h = [i \in 1 .. n + 1 |-> h[i]]
      OBVIOUS
    <2> HIDE DEF h
    <2>5. h = [i \in 1 .. n + 1 |-> IF i = 1 THEN ss[i] ELSE G(h[i - 1], i)]
      BY <2>3, <2>4
    <2>6. IsFlat(h, n + 1, ss)
      BY <2>5, Zenon DEF IsFlat, G
    <2> QED
      BY <2>6
  <1> HIDE DEF R
  <1>3. Nat \subseteq R
    BY <1>1, <1>2, Induction
  <1> QED
    BY <1>3 DEF R

LEMMA FlattenType ==
  ASSUME NEW T, NEW ss \in Seq(Seq(T))
  PROVE  FlattenSeq(ss) \in Seq(T)
  <1> DEFINE n == Len(ss)
             f == CHOOSE f_1 : IsFlat(f_1, n, ss)
             R == {i \in Nat : i \in 1 .. n => f[i] \in Seq(T)}
  <1>1. n \in Nat /\ \A i \in 1 .. n : ss[i] \in Seq(T)
    OBVIOUS
  <1>2. IsFlat(f, n, ss)
    BY <1>1, FlatExists
  <1>3. n # 0 => FlattenSeq(ss) = f[n]
    BY Zenon DEF FlattenSeq, IsFlat
  <1> HIDE DEF f
  <1>4. \A i \in 1 .. n : f[i] = FlatAt(f, i, ss)
    BY <1>1, <1>2, FlatStep
  <1>5. 0 \in R
    OBVIOUS
  <1>6. ASSUME NEW i \in Nat, i \in R PROVE i + 1 \in R
    <2> SUFFICES ASSUME i + 1 \in 1 .. n PROVE f[i + 1] \in Seq(T)
      OBVIOUS
    <2>1. ss[i + 1] \in Seq(T)
      BY <1>1
    <2>2. CASE i = 0
      BY <1>4, <2>1, <2>2 DEF FlatAt
    <2>3. CASE i # 0
      <3>1. f[i] \in Seq(T) /\ i + 1 # 1 /\ i + 1 - 1 = i
        BY <1>1, <1>6, <2>3
      <3>2. f[i + 1] = f[i] \o ss[i + 1]
        <4> DEFINE j == i + 1
        <4>1. f[j] = FlatAt(f, j, ss)
          BY <1>4
        <4>2. j # 1 /\ f[j - 1] = f[i]
          BY <3>1
        <4> HIDE DEF j
        <4>3. f[j] = f[j - 1] \o ss[j]
          BY <4>1, <4>2, Zenon DEF FlatAt
        <4>4. f[j] = f[i] \o ss[j]
          BY <4>2, <4>3, Zenon
        <4> QED
          BY <4>4, Zenon DEF j
      <3>3. f[i] \o ss[i + 1] \in Seq(T)
        BY <2>1, <3>1, ConcatProperties, Zenon
      <3> QED
        BY <3>2, <3>3
    <2> QED
      BY <2>2, <2>3
  <1> HIDE DEF R, n
  <1>7. Nat \subseteq R
    BY <1>5, <1>6, Induction
  <1>8. CASE n = 0
    <2>1. FlattenSeq(ss) = <<>>
      BY <1>8 DEF FlattenSeq, n
    <2> QED
      BY <2>1
  <1>9. CASE n # 0
    <2>1. n \in R /\ n \in 1 .. n
      BY <1>1, <1>7, <1>9
    <2> QED
      BY <1>3, <1>9, <2>1 DEF R
  <1> QED
    BY <1>8, <1>9

=============================================================================
