--------------------------- MODULE Matching_proofs ----------------------------
(***************************************************************************)
(* Lemmas about what the matchers find for a place, for all inputs: the    *)
(* query, the candidates that are kept, how contacts are compared, and     *)
(* what is counted of domains and contacts.                                *)
(***************************************************************************)
EXTENDS Matching, FiniteSetTheorems, SequenceTheorems, FunctionTheorems,
        NaturalsInduction, TLAPS

\* The folds, for the lemmas of module Folding.
KeepNext(of, best, r) == keep_best(best, of[1], of[2][r], r)
Keeping == INSTANCE Folding WITH Op <- KeepNext
MergeNext(of, ranges, range) == MergeRange(ranges, range)
Merging == INSTANCE Folding WITH Op <- MergeNext

-----------------------------------------------------------------------------
(***************************************************************************)
(* Sequences as sets.                                                      *)
(***************************************************************************)
LEMMA ToSetEmpty == ToSet(<<>>) = {}
BY DEF ToSet

LEMMA ToSetAppend ==
    ASSUME NEW S, NEW s \in Seq(S), NEW e \in S
    PROVE  /\ Append(s, e) \in Seq(S) /\ Len(Append(s, e)) = Len(s) + 1
           /\ ToSet(Append(s, e)) = ToSet(s) \cup {e}
<1>1. /\ Append(s, e) \in Seq(S) /\ Len(Append(s, e)) = Len(s) + 1
      /\ \A i \in 1 .. Len(s) : Append(s, e)[i] = s[i]
      /\ Append(s, e)[Len(s) + 1] = e
  BY AppendProperties
<1>2. DOMAIN s = 1 .. Len(s) /\ Len(s) \in Nat
  BY LenProperties
<1>3. DOMAIN Append(s, e) = 1 .. Len(s) + 1
  BY <1>1, LenProperties
<1>4. 1 .. Len(s) + 1 = (1 .. Len(s)) \cup {Len(s) + 1}
  BY <1>2
<1>5. QED
  BY <1>1, <1>2, <1>3, <1>4 DEF ToSet

LEMMA ToSetTail ==
    ASSUME NEW S, NEW s \in Seq(S), s # <<>>
    PROVE  /\ Head(s) \in S /\ Tail(s) \in Seq(S) /\ Len(Tail(s)) <= Len(s)
           /\ ToSet(s) = {Head(s)} \cup ToSet(Tail(s))
<1>1. /\ Head(s) \in S /\ Tail(s) \in Seq(S) /\ Len(Tail(s)) = Len(s) - 1
      /\ \A i \in 1 .. Len(Tail(s)) : Tail(s)[i] = s[i + 1]
  BY HeadTailProperties
<1>2. DOMAIN s = 1 .. Len(s) /\ Len(s) \in Nat /\ Len(s) # 0
  BY LenProperties, EmptySeq
<1>3. DOMAIN Tail(s) = 1 .. (Len(s) - 1)
  BY <1>1, LenProperties
<1>4. Head(s) = s[1]
  OBVIOUS
<1>5. 1 .. Len(s) = {1} \cup {i + 1 : i \in 1 .. (Len(s) - 1)}
  <2>1. ASSUME NEW j \in 1 .. Len(s), j # 1
        PROVE  j - 1 \in 1 .. (Len(s) - 1) /\ (j - 1) + 1 = j
    BY <1>2, <2>1
  <2>2. 1 .. Len(s) \subseteq {1} \cup {i + 1 : i \in 1 .. (Len(s) - 1)}
    BY <2>1
  <2>3. ASSUME NEW i \in 1 .. (Len(s) - 1)
        PROVE  i + 1 \in 1 .. Len(s)
    BY <1>2
  <2>4. QED
    BY <1>2, <2>2, <2>3
<1>6. \A i \in 1 .. (Len(s) - 1) : Tail(s)[i] = s[i + 1]
  BY <1>1
<1>7. {s[i + 1] : i \in 1 .. (Len(s) - 1)} = ToSet(Tail(s))
  BY <1>3, <1>6 DEF ToSet
<1>8. ToSet(s) = {s[1]} \cup {s[i + 1] : i \in 1 .. (Len(s) - 1)}
  BY <1>2, <1>5 DEF ToSet
<1>9. QED
  BY <1>1, <1>2, <1>4, <1>7, <1>8

\* Where a sequence has an element of a set.
At(s, X) == {k \in DOMAIN s : s[k] \in X}
One(X, e) == IF e \in X THEN 1 ELSE 0

LEMMA OneMore ==
    ASSUME NEW A, IsFiniteSet(A), NEW b, b \notin A, NEW X, NEW e, NEW B,
           B = IF e \in X THEN A \cup {b} ELSE A
    PROVE  /\ IsFiniteSet(B) /\ Cardinality(A) \in Nat /\ Cardinality(B) \in Nat
           /\ Cardinality(B) = Cardinality(A) + One(X, e)
<1>1. Cardinality(A) \in Nat
  BY FS_CardinalityType
<1>2. CASE e \in X
  BY <1>1, <1>2, FS_AddElement DEF One
<1>3. CASE e \notin X
  BY <1>1, <1>3 DEF One
<1> QED
  BY <1>1, <1>2, <1>3

LEMMA AtIsFinite ==
    ASSUME NEW S, NEW s \in Seq(S), NEW X
    PROVE  IsFiniteSet(At(s, X)) /\ Cardinality(At(s, X)) \in Nat
<1>1. DOMAIN s = 1 .. Len(s) /\ Len(s) \in Nat
  BY LenProperties
<1>2. IsFiniteSet(1 .. Len(s))
  BY <1>1, FS_Interval
<1>3. At(s, X) \subseteq 1 .. Len(s)
  BY <1>1 DEF At
<1>4. IsFiniteSet(At(s, X))
  BY <1>2, <1>3, FS_Subset
<1> QED
  BY <1>4, FS_CardinalityType

LEMMA AtEmpty ==
    ASSUME NEW X
    PROVE  At(<<>>, X) = {} /\ Cardinality(At(<<>>, X)) = 0
BY FS_EmptySet DEF At

LEMMA AtAppend ==
    ASSUME NEW S, NEW s \in Seq(S), NEW e \in S, NEW X
    PROVE  Cardinality(At(Append(s, e), X)) = Cardinality(At(s, X)) + One(X, e)
<1>1. /\ Append(s, e) \in Seq(S) /\ Len(Append(s, e)) = Len(s) + 1
      /\ \A i \in 1 .. Len(s) : Append(s, e)[i] = s[i]
      /\ Append(s, e)[Len(s) + 1] = e
  BY AppendProperties
<1>2. DOMAIN s = 1 .. Len(s) /\ Len(s) \in Nat
  BY LenProperties
<1>3. DOMAIN Append(s, e) = (1 .. Len(s)) \cup {Len(s) + 1} /\ Len(s) + 1 \notin 1 .. Len(s)
  <2>1. DOMAIN Append(s, e) = 1 .. Len(s) + 1
    BY <1>1, LenProperties
  <2> QED
    BY <1>2, <2>1
<1> DEFINE t == Append(s, e)
           n == Len(s) + 1
<1> HIDE DEF t, n
<1>4. /\ DOMAIN t = (DOMAIN s) \cup {n} /\ n \notin DOMAIN s /\ t[n] = e
      /\ \A k \in DOMAIN s : t[k] = s[k]
  BY <1>1, <1>2, <1>3 DEF t, n
<1>5. At(t, X) = IF e \in X THEN At(s, X) \cup {n} ELSE At(s, X)
  BY <1>4 DEF At
<1>6. n \notin At(s, X)
  BY <1>4 DEF At
<1> QED
  BY <1>5, <1>6, AtIsFinite, OneMore DEF t

LEMMA AtTail ==
    ASSUME NEW S, NEW s \in Seq(S), s # <<>>, NEW X
    PROVE  Cardinality(At(s, X)) = Cardinality(At(Tail(s), X)) + One(X, Head(s))
<1> DEFINE t == Tail(s)
           A == At(t, X)
           B == {k + 1 : k \in A}
           f == [k \in A |-> k + 1]
<1>1. /\ t \in Seq(S) /\ Len(t) = Len(s) - 1 /\ Head(s) = s[1]
      /\ \A i \in 1 .. Len(t) : t[i] = s[i + 1]
  BY HeadTailProperties
<1>2. DOMAIN s = 1 .. Len(s) /\ Len(s) \in Nat /\ Len(s) # 0 /\ DOMAIN t = 1 .. Len(s) - 1
  BY <1>1, LenProperties, EmptySeq
<1>3. IsFiniteSet(A) /\ \A k \in A : k \in Nat /\ k >= 1
  <2>1. \A k \in A : k \in Nat /\ k >= 1
    BY <1>2 DEF At
  <2> HIDE DEF A, t
  <2>2. IsFiniteSet(At(t, X)) /\ Cardinality(At(t, X)) \in Nat
    BY <1>1, AtIsFinite
  <2> QED
    BY <2>1, <2>2 DEF A
<1>4. IsFiniteSet(B) /\ Cardinality(B) = Cardinality(A)
  <2>1. f \in [A -> B] /\ (\A k, l \in A : f[k] = f[l] => k = l) /\ \A y \in B : \E k \in A : f[k] = y
    <3>1. \A k, l \in A : k + 1 = l + 1 => k = l
      BY <1>3
    <3> HIDE DEF A
    <3> QED
      BY <3>1
  <2> HIDE DEF f, A, B
  <2>2. f \in Bijection(A, B)
    BY <2>1 DEF Bijection, Injection, Surjection, IsInjective
  <2>3. ExistsBijection(A, B)
    BY <2>2 DEF ExistsBijection
  <2> QED
    BY <1>3, <2>3, FS_Bijection
<1>5. 1 \notin B
  <2> HIDE DEF A
  <2> QED
    BY <1>3
<1>6. At(s, X) = IF Head(s) \in X THEN B \cup {1} ELSE B
  <2>1. ASSUME NEW k \in At(s, X), k # 1
        PROVE  k \in B
    <3>1. k \in 1 .. Len(s) /\ s[k] \in X
      BY <1>2 DEF At
    <3>2. k - 1 \in 1 .. Len(s) - 1 /\ (k - 1) + 1 = k
      BY <1>2, <2>1, <3>1
    <3>3. t[k - 1] = s[k]
      BY <1>1, <3>2
    <3>4. k - 1 \in A
      BY <1>2, <3>1, <3>2, <3>3 DEF At
    <3> QED
      BY <3>2, <3>4
  <2>2. ASSUME NEW k \in A
        PROVE  k + 1 \in At(s, X)
    <3>1. k \in 1 .. Len(s) - 1 /\ t[k] \in X
      BY <1>2 DEF At
    <3>2. k + 1 \in 1 .. Len(s) /\ s[k + 1] \in X
      BY <1>1, <1>2, <3>1
    <3> QED
      BY <1>2, <3>2 DEF At
  <2>3. 1 \in At(s, X) <=> Head(s) \in X
    BY <1>1, <1>2 DEF At
  <2> HIDE DEF A
  <2> QED
    BY <2>1, <2>2, <2>3
<1> HIDE DEF A, B
<1>7. Cardinality(At(s, X)) = Cardinality(B) + One(X, Head(s))
  BY <1>4, <1>5, <1>6, OneMore
<1> QED
  BY <1>4, <1>7 DEF A, t

\* Two sets have as many elements if each of one stands for one of the other.
LEMMA SameNumber ==
    ASSUME NEW A, NEW B, IsFiniteSet(A), NEW f, f \in [A -> B],
           \A x, y \in A : f[x] = f[y] => x = y,
           \A z \in B : \E x \in A : f[x] = z
    PROVE  IsFiniteSet(B) /\ Cardinality(B) = Cardinality(A)
<1>1. f \in Bijection(A, B)
  BY DEF Bijection, Injection, Surjection, IsInjective
<1>2. ExistsBijection(A, B)
  BY <1>1 DEF ExistsBijection
<1> QED
  BY <1>2, FS_Bijection

LEMMA AtConcat ==
    ASSUME NEW S, NEW s \in Seq(S), NEW t \in Seq(S), NEW X
    PROVE  /\ Cardinality(At(s \o t, X)) = Cardinality(At(s, X)) + Cardinality(At(t, X))
           /\ ToSet(s \o t) = ToSet(s) \cup ToSet(t)
<1> DEFINE n == Len(s)
           m == Len(t)
           u == s \o t
           A == At(s, X)
           B == At(t, X)
           C == {k \in n + 1 .. n + m : u[k] \in X}
           f == [k \in B |-> k + n]
<1>1. n \in Nat /\ m \in Nat /\ DOMAIN s = 1 .. n /\ DOMAIN t = 1 .. m
  BY LenProperties
<1>2. /\ u \in Seq(S) /\ DOMAIN u = 1 .. n + m
      /\ \A k \in 1 .. n + m : u[k] = IF k <= n THEN s[k] ELSE t[k - n]
  <2>1. /\ u \in Seq(S) /\ Len(u) = n + m
        /\ \A k \in 1 .. n + m : u[k] = IF k <= n THEN s[k] ELSE t[k - n]
    BY ConcatProperties
  <2> QED
    BY <2>1, LenProperties
<1> HIDE DEF n, m, u
<1>3. IsFiniteSet(A) /\ Cardinality(A) \in Nat /\ IsFiniteSet(B) /\ Cardinality(B) \in Nat
  BY AtIsFinite
<1>4. /\ \A k \in 1 .. n : k \in 1 .. n + m /\ u[k] = s[k]
      /\ \A k \in 1 .. m : k + n \in n + 1 .. n + m /\ k + n \in 1 .. n + m /\ u[k + n] = t[k]
      /\ \A k \in n + 1 .. n + m : k - n \in 1 .. m /\ k = (k - n) + n /\ u[k] = t[k - n]
  <2>1. \A k \in 1 .. n : k \in 1 .. n + m /\ u[k] = s[k]
    BY <1>1, <1>2
  <2>2. \A k \in 1 .. m : k + n \in n + 1 .. n + m /\ k + n \in 1 .. n + m /\ ~(k + n <= n)
                          /\ (k + n) - n = k
    BY <1>1
  <2>3. \A k \in n + 1 .. n + m : k - n \in 1 .. m /\ k = (k - n) + n /\ ~(k <= n)
                                  /\ k \in 1 .. n + m
    BY <1>1
  <2> QED
    BY <1>2, <2>1, <2>2, <2>3
<1>5. At(u, X) = A \cup C
  <2>1. 1 .. n + m = (1 .. n) \cup (n + 1 .. n + m)
    BY <1>1
  <2> QED
    BY <1>1, <1>2, <1>4, <2>1 DEF At
<1>6. A \cap C = {}
  <2>1. (1 .. n) \cap (n + 1 .. n + m) = {}
    BY <1>1
  <2> QED
    BY <1>1, <2>1 DEF At
<1>7. B \subseteq 1 .. m /\ \A k \in B : t[k] \in X
  BY <1>1 DEF At
<1>8. \A k \in 1 .. m : t[k] \in X => k \in B
  BY <1>1 DEF At
<1> HIDE DEF A, B
<1>9. f \in [B -> C]
  BY <1>4, <1>7
<1>10. \A x, y \in B : f[x] = f[y] => x = y
  BY <1>1, <1>7
<1>11. \A z \in C : \E x \in B : f[x] = z
  <2> SUFFICES ASSUME NEW z \in C
               PROVE  z - n \in B /\ f[z - n] = z
    OBVIOUS
  <2>1. z - n \in 1 .. m /\ z = (z - n) + n /\ t[z - n] \in X
    BY <1>4
  <2>2. z - n \in B
    BY <1>8, <2>1
  <2> QED
    BY <2>1, <2>2
<1> HIDE DEF C, f
<1>12. IsFiniteSet(C) /\ Cardinality(C) = Cardinality(B)
  BY <1>3, <1>9, <1>10, <1>11, SameNumber
<1>13. Cardinality(A \cup C) = Cardinality(A) + Cardinality(C) - Cardinality(A \cap C)
  BY <1>3, <1>12, FS_Union
<1>14. Cardinality(At(u, X)) = Cardinality(A) + Cardinality(B)
  <2>1. Cardinality(A \cap C) = 0
    BY <1>6, FS_EmptySet
  <2>2. Cardinality(At(u, X)) = Cardinality(A \cup C)
    BY <1>5
  <2> QED
    BY <1>3, <1>12, <1>13, <2>1, <2>2
<1>15. ToSet(u) = ToSet(s) \cup ToSet(t)
  <2>1. ToSet(u) \subseteq ToSet(s) \cup ToSet(t)
    <3> SUFFICES ASSUME NEW k \in 1 .. n + m
                 PROVE  u[k] \in ToSet(s) \cup ToSet(t)
      BY <1>2 DEF ToSet
    <3>1. k \in 1 .. n \/ k \in n + 1 .. n + m
      BY <1>1
    <3>2. (k \in DOMAIN s /\ u[k] = s[k]) \/ (k - n \in DOMAIN t /\ u[k] = t[k - n])
      BY <1>1, <1>4, <3>1
    <3> QED
      BY <3>2 DEF ToSet
  <2>2. \A k \in 1 .. n : s[k] \in ToSet(u)
    BY <1>2, <1>4 DEF ToSet
  <2>3. \A k \in 1 .. m : t[k] \in ToSet(u)
    <3>1. \A k \in 1 .. m : k + n \in DOMAIN u /\ u[k + n] = t[k]
      BY <1>2, <1>4
    <3> QED
      BY <3>1 DEF ToSet
  <2>4. ToSet(s) \subseteq ToSet(u) /\ ToSet(t) \subseteq ToSet(u)
    BY <1>1, <2>2, <2>3 DEF ToSet
  <2> QED
    BY <2>1, <2>4
<1> QED
  BY <1>14, <1>15 DEF A, B, u

\* A list of all elements of a set, each once, has as many in X.
Lists(e, n, S) ==
    /\ n \in Nat /\ e \in [1 .. n -> S]
    /\ \A x \in S : \E k \in 1 .. n : e[k] = x
    /\ \A j, k \in 1 .. n : e[j] = e[k] => j = k
Mapped(e, n, f) == [k \in 1 .. n |-> f[e[k]]]
ImageOf(f, S) == {f[x] : x \in S}
Within(f, S, X) == {x \in S : f[x] \in X}

LEMMA CountedInList ==
    ASSUME NEW S, NEW n, NEW e, Lists(e, n, S), NEW f, NEW X
    PROVE  /\ Mapped(e, n, f) \in Seq(ImageOf(f, S))
           /\ ToSet(Mapped(e, n, f)) = ImageOf(f, S)
           /\ Cardinality(At(Mapped(e, n, f), X)) = Cardinality(Within(f, S, X))
<1> DEFINE s == Mapped(e, n, f)
           A == At(s, X)
           B == {x \in S : f[x] \in X}
           g == [k \in A |-> e[k]]
<1>1. /\ n \in Nat /\ e \in [1 .. n -> S]
      /\ \A x \in S : \E k \in 1 .. n : e[k] = x
      /\ \A j, k \in 1 .. n : e[j] = e[k] => j = k
      /\ s = [k \in 1 .. n |-> f[e[k]]]
  BY DEF Lists, Mapped
<1> HIDE DEF s
<1>2. s \in [1 .. n -> {f[x] : x \in S}]
  BY <1>1
<1>3. s \in Seq({f[x] : x \in S})
  BY <1>1, <1>2, IsASeq
<1>4. ToSet(s) = {f[x] : x \in S}
  <2>1. \A k \in 1 .. n : s[k] \in {f[x] : x \in S}
    BY <1>2
  <2>2. \A x \in S : \E k \in 1 .. n : s[k] = f[x]
    BY <1>1
  <2>3. ToSet(s) = {s[k] : k \in 1 .. n}
    BY <1>1 DEF ToSet
  <2>4. \A x \in S : f[x] \in ToSet(s)
    BY <2>2, <2>3
  <2>5. \A y \in ToSet(s) : y \in {f[x] : x \in S}
    BY <2>1, <2>3
  <2> QED
    BY <2>4, <2>5
<1>5. IsFiniteSet(A)
  BY <1>3, AtIsFinite
<1>6. A = {k \in 1 .. n : f[e[k]] \in X}
  BY <1>1 DEF At
<1> HIDE DEF A
<1>7. g \in [A -> B]
  BY <1>1, <1>6
<1>8. \A x, y \in A : g[x] = g[y] => x = y
  BY <1>1, <1>6
<1>9. \A z \in B : \E x \in A : g[x] = z
  <2> SUFFICES ASSUME NEW z \in B
               PROVE  \E x \in A : g[x] = z
    OBVIOUS
  <2>1. PICK k \in 1 .. n : e[k] = z
    BY <1>1
  <2>2. k \in A
    BY <1>6, <2>1
  <2> QED
    BY <2>1, <2>2
<1> HIDE DEF B, g
<1>10. Cardinality(B) = Cardinality(A)
  BY <1>5, <1>7, <1>8, <1>9, SameNumber
<1> QED
  BY <1>3, <1>4, <1>10 DEF A, B, s, ImageOf, Within

\* Sequences, one after the other.
LEMMA FlattenIsSeq ==
    ASSUME NEW R, NEW seqs \in Seq(Seq(R))
    PROVE  /\ FlattenSeq(seqs) \in Seq(R)
           /\ \A i \in DOMAIN seqs : ToSet(seqs[i]) \subseteq ToSet(FlattenSeq(seqs))
<1> DEFINE n == Len(seqs)
           Step(f, i) == IF i = 1 THEN seqs[i] ELSE f[i - 1] \o seqs[i]
           Solves(f, m) == f = [i \in 1 .. m |-> Step(f, i)]
           T == {m \in Nat : \E f : Solves(f, m)}
<1>1. n \in Nat /\ DOMAIN seqs = 1 .. n /\ \A i \in 1 .. n : seqs[i] \in Seq(R)
  BY LenProperties, ElementOfSeq
<1>2. CASE n = 0
  <2>1. seqs = <<>>
    BY <1>1, <1>2, EmptySeq
  <2> QED
    BY <1>1, <1>2, <2>1 DEF FlattenSeq
<1>3. CASE n # 0
  <2>1. 0 \in T
    <3> DEFINE f == [i \in 1 .. 0 |-> <<>>]
    <3>1. Solves(f, 0)
      OBVIOUS
    <3> QED
      BY <3>1
  <2>2. ASSUME NEW m \in Nat, m \in T
        PROVE  m + 1 \in T
    <3>1. PICK f : Solves(f, m)
      BY <2>2
    <3> DEFINE next == [i \in 1 .. m + 1 |-> Step(f, i)]
    <3>2. ASSUME NEW i \in 1 .. m + 1
          PROVE  next[i] = Step(next, i)
      <4>1. CASE i = 1
        BY <4>1
      <4>2. CASE i # 1
        <5>1. i - 1 \in 1 .. m /\ i - 1 \in 1 .. m + 1
          BY <4>2
        <5>2. next[i - 1] = Step(f, i - 1) /\ f[i - 1] = Step(f, i - 1)
          BY <3>1, <5>1
        <5>3. next[i] = f[i - 1] \o seqs[i]
          BY <4>2
        <5> HIDE DEF next
        <5> QED
          BY <4>2, <5>2, <5>3
      <4> QED
        BY <4>1, <4>2
    <3>3. Solves(next, m + 1)
      <4> DEFINE other == [i \in 1 .. m + 1 |-> Step(next, i)]
      <4>1. \A i \in 1 .. m + 1 : next[i] = other[i]
        BY <3>2
      <4>2. next = other
        BY <4>1
      <4> QED
        BY <4>2
    <3> HIDE DEF Solves, next
    <3> QED
      BY <3>3
  <2>3. n \in T
    <3> HIDE DEF T
    <3> QED
      BY <1>1, <2>1, <2>2, Keeping!NumbersFrom0
  <2> DEFINE flatten == CHOOSE f : Solves(f, n)
  <2>4. Solves(flatten, n)
    <3> HIDE DEF Solves
    <3> QED
      BY <2>3
  <2>5. FlattenSeq(seqs) = flatten[n]
    BY <1>3 DEF FlattenSeq
  <2> HIDE DEF flatten
  <2>6. \A i \in 1 .. n : flatten[i] = Step(flatten, i)
    BY <2>4
  <2> DEFINE Whole(m) == /\ flatten[m] \in Seq(R)
                         /\ \A i \in 1 .. m : ToSet(seqs[i]) \subseteq ToSet(flatten[m])
             U == {m \in Nat : m \in 1 .. n => Whole(m)}
  <2>7. 0 \in U
    OBVIOUS
  <2>8. ASSUME NEW m \in Nat, m \in U
        PROVE  m + 1 \in U
    <3> SUFFICES ASSUME m + 1 \in 1 .. n
                 PROVE  Whole(m + 1)
      OBVIOUS
    <3>1. seqs[m + 1] \in Seq(R) /\ flatten[m + 1] = Step(flatten, m + 1)
      BY <1>1, <2>6
    <3>2. CASE m = 0
      <4>1. flatten[m + 1] = seqs[m + 1] /\ \A i \in 1 .. m + 1 : i = m + 1
        BY <3>1, <3>2
      <4> QED
        BY <3>1, <4>1
    <3>3. CASE m # 0
      <4>1. m \in 1 .. n /\ (m + 1) - 1 = m /\ m + 1 # 1
        BY <3>3
      <4>2. Whole(m)
        BY <2>8, <4>1
      <4>3. flatten[m + 1] = flatten[m] \o seqs[m + 1]
        <5>1. Step(flatten, m + 1) = flatten[(m + 1) - 1] \o seqs[m + 1]
          BY <4>1
        <5> QED
          BY <3>1, <4>1, <5>1
      <4>4. flatten[m] \o seqs[m + 1] \in Seq(R)
        BY <3>1, <4>2, ConcatProperties
      <4>5. /\ Cardinality(At(flatten[m] \o seqs[m + 1], {}))
                  = Cardinality(At(flatten[m], {})) + Cardinality(At(seqs[m + 1], {}))
            /\ ToSet(flatten[m] \o seqs[m + 1]) = ToSet(flatten[m]) \cup ToSet(seqs[m + 1])
        <5> DEFINE a == flatten[m]
                   b == seqs[m + 1]
        <5>1. a \in Seq(R) /\ b \in Seq(R)
          BY <3>1, <4>2
        <5> HIDE DEF a, b
        <5>2. /\ Cardinality(At(a \o b, {})) = Cardinality(At(a, {})) + Cardinality(At(b, {}))
              /\ ToSet(a \o b) = ToSet(a) \cup ToSet(b)
          BY <5>1, AtConcat, ZenonT(60)
        <5> QED
          BY <5>2 DEF a, b
      <4>6. \A i \in 1 .. m + 1 : i \in 1 .. m \/ i = m + 1
        OBVIOUS
      <4>7. \A i \in 1 .. m + 1 : ToSet(seqs[i]) \subseteq ToSet(flatten[m]) \cup ToSet(seqs[m + 1])
        BY <4>2, <4>6
      <4> QED
        BY <4>3, <4>4, <4>5, <4>7
    <3> QED
      BY <3>2, <3>3
  <2>9. n \in U
    <3> HIDE DEF U
    <3> QED
      BY <1>1, <2>7, <2>8, Keeping!NumbersFrom0
  <2> QED
    BY <1>1, <1>3, <2>5, <2>9
<1> QED
  BY <1>2, <1>3

-----------------------------------------------------------------------------
(***************************************************************************)
(* Sorting by position.                                                    *)
(***************************************************************************)
First(B, j, i) == <<j, i>> \in B \/ (j < i /\ <<i, j>> \notin B)
Downset(n, B, i) == {j \in 1 .. n : j = i \/ First(B, j, i)}

\* If B orders 1 .. n up to ties, every position is that of one of them.
LEMMA PositionsAreAll ==
    ASSUME NEW n \in Nat, NEW B,
           \A i, j \in 1 .. n : ~(<<i, j>> \in B /\ <<j, i>> \in B),
           \A i, j, k \in 1 .. n : <<i, j>> \in B => <<i, k>> \in B \/ <<k, j>> \in B
    PROVE  LET position == [i \in 1 .. n |-> Cardinality(Downset(n, B, i))]
           IN  /\ \A i \in 1 .. n : position[i] \in 1 .. n
               /\ \A i, j \in 1 .. n : position[i] = position[j] => i = j
               /\ \A k \in 1 .. n : \E i \in 1 .. n : position[i] = k
<1> DEFINE position == [i \in 1 .. n |-> Cardinality(Downset(n, B, i))]
<1>1. IsFiniteSet(1 .. n) /\ Cardinality(1 .. n) = n
  BY FS_Interval
<1>2. ASSUME NEW i \in 1 .. n
      PROVE  /\ IsFiniteSet(Downset(n, B, i)) /\ Downset(n, B, i) \subseteq 1 .. n
             /\ i \in Downset(n, B, i)
             /\ Cardinality(Downset(n, B, i)) \in 1 .. n
  <2>1. Downset(n, B, i) \subseteq 1 .. n /\ i \in Downset(n, B, i)
    BY DEF Downset
  <2>2. IsFiniteSet(Downset(n, B, i)) /\ Cardinality(Downset(n, B, i)) <= n
    BY <1>1, <2>1, FS_Subset
  <2>3. Cardinality(Downset(n, B, i)) \in Nat /\ Cardinality(Downset(n, B, i)) # 0
    BY <2>1, <2>2, FS_CardinalityType, FS_EmptySet
  <2> QED
    BY <2>1, <2>2, <2>3
<1>3. ASSUME NEW i \in 1 .. n, NEW j \in 1 .. n, i # j
      PROVE  First(B, i, j) \/ First(B, j, i)
  BY <1>3 DEF First
<1>4. ASSUME NEW i \in 1 .. n, NEW j \in 1 .. n, i # j, First(B, i, j)
      PROVE  Cardinality(Downset(n, B, i)) < Cardinality(Downset(n, B, j))
  <2>1. j \notin Downset(n, B, i)
    BY <1>4 DEF Downset, First
  <2>2. ASSUME NEW k \in 1 .. n, First(B, k, i)
        PROVE  First(B, k, j)
    BY <1>4, <2>2 DEF First
  <2>3. Downset(n, B, i) \subseteq Downset(n, B, j)
    BY <1>4, <2>2 DEF Downset
  <2>4. Downset(n, B, i) # Downset(n, B, j)
    BY <1>2, <2>1
  <2> DEFINE below == Downset(n, B, i)
             above == Downset(n, B, j)
  <2>5. IsFiniteSet(above) /\ below \in SUBSET above
    BY <1>2, <2>3
  <2> HIDE DEF below, above
  <2>6. /\ Cardinality(below) <= Cardinality(above)
        /\ Cardinality(above) = Cardinality(below) => above = below
    BY ONLY <2>5, FS_Subset
  <2>7. Cardinality(below) \in 1 .. n /\ Cardinality(above) \in 1 .. n /\ below # above
    BY <1>2, <2>4 DEF below, above
  <2> QED
    BY ONLY <2>6, <2>7 DEF below, above
<1>5. \A i, j \in 1 .. n : position[i] = position[j] => i = j
  <2> SUFFICES ASSUME NEW i \in 1 .. n, NEW j \in 1 .. n, position[i] = position[j], i # j
               PROVE  FALSE
    OBVIOUS
  <2>1. Cardinality(Downset(n, B, i)) = Cardinality(Downset(n, B, j))
    OBVIOUS
  <2> QED
    BY <1>2, <1>3, <1>4, <2>1
<1>6. \A i \in 1 .. n : position[i] \in 1 .. n
  BY <1>2
<1>7. ASSUME NEW k \in 1 .. n, \A i \in 1 .. n : position[i] # k
      PROVE  FALSE
  <2> HIDE DEF position
  <2>1. position \in [1 .. n -> (1 .. n) \ {k}]
    BY <1>6, <1>7 DEF position
  <2>2. IsFiniteSet((1 .. n) \ {k}) /\ Cardinality((1 .. n) \ {k}) = n - 1
    BY <1>1, FS_RemoveElement
  <2>3. Cardinality((1 .. n) \ {k}) < Cardinality(1 .. n)
    BY <1>1, <2>2
  <2>4. \E i, j \in 1 .. n : i # j /\ position[i] = position[j]
    BY ONLY <1>1, <2>1, <2>2, <2>3, FS_PigeonHole
  <2> QED
    BY <1>5, <2>4
<1> QED
  BY <1>5, <1>6, <1>7

\* For a finite set and a total order on it.
LEMMA OrderedIsAll ==
    ASSUME NEW S, IsFiniteSet(S), NEW L,
           \A x, y \in S : ~(<<x, y>> \in L /\ <<y, x>> \in L),
           \A x, y \in S : x # y => <<x, y>> \in L \/ <<y, x>> \in L,
           \A x, y, z \in S : <<x, y>> \in L /\ <<y, z>> \in L => <<x, z>> \in L
    PROVE  LET n == Cardinality(S)
               o == [k \in 1 .. n |->
                        CHOOSE x \in S : Cardinality({y \in S : <<y, x>> \in L}) = k - 1]
           IN  /\ n \in Nat /\ o \in [1 .. n -> S]
               /\ \A x \in S : \E k \in 1 .. n : o[k] = x
               /\ \A j, k \in 1 .. n : j < k => <<o[j], o[k]>> \in L
<1> DEFINE n == Cardinality(S)
           Below(x) == {y \in S : <<y, x>> \in L}
           place == [x \in S |-> Cardinality(Below(x)) + 1]
           o == [k \in 1 .. n |-> CHOOSE x \in S : Cardinality(Below(x)) = k - 1]
<1>1. n \in Nat
  BY FS_CardinalityType
<1>2. ASSUME NEW x \in S
      PROVE  /\ IsFiniteSet(Below(x)) /\ Cardinality(Below(x)) \in Nat
             /\ Below(x) \in SUBSET S /\ x \notin Below(x)
             /\ Cardinality(Below(x)) < n
  <2>1. Below(x) \in SUBSET S /\ x \notin Below(x) /\ Below(x) # S
    OBVIOUS
  <2> DEFINE below == Below(x)
  <2> HIDE DEF below
  <2>2. IsFiniteSet(below) /\ Cardinality(below) \in Nat /\ Cardinality(below) <= n
        /\ Cardinality(below) # n
    BY <2>1, FS_Subset, FS_CardinalityType DEF below
  <2> QED
    BY <1>1, <2>1, <2>2 DEF below
<1>3. ASSUME NEW x \in S, NEW y \in S, <<x, y>> \in L
      PROVE  place[x] < place[y]
  <2>1. Below(x) \subseteq Below(y) /\ x \in Below(y) /\ x \notin Below(x)
    BY <1>3
  <2> DEFINE below == Below(x)
             above == Below(y)
  <2>2. below \in SUBSET above /\ below # above /\ IsFiniteSet(above)
    BY <1>2, <2>1
  <2> HIDE DEF below, above
  <2>3. Cardinality(below) <= Cardinality(above) /\ Cardinality(below) # Cardinality(above)
    BY ONLY <2>2, FS_Subset
  <2>4. Cardinality(below) \in Nat /\ Cardinality(above) \in Nat
    BY <1>2 DEF below, above
  <2> QED
    BY <2>3, <2>4 DEF below, above
<1>4. ASSUME NEW x \in S
      PROVE  place[x] \in 1 .. n /\ place[x] = Cardinality(Below(x)) + 1
  <2> DEFINE c == Cardinality(Below(x))
  <2>1. c \in Nat /\ c < n
    BY <1>2
  <2>2. place[x] = c + 1
    OBVIOUS
  <2> HIDE DEF c, n, place
  <2>3. place[x] \in 1 .. n
    BY <1>1, <2>1, <2>2
  <2> QED
    BY <2>2, <2>3 DEF c
<1>5. \A x, y \in S : place[x] = place[y] => x = y
  <2> SUFFICES ASSUME NEW x \in S, NEW y \in S, place[x] = place[y], x # y
               PROVE  FALSE
    OBVIOUS
  <2> HIDE DEF place, n
  <2>1. place[x] < place[y] \/ place[y] < place[x]
    BY <1>3
  <2>2. place[x] \in 1 .. n /\ place[y] \in 1 .. n
    BY <1>4
  <2> QED
    BY <1>1, <2>1, <2>2
<1>6. ASSUME NEW k \in 1 .. n
      PROVE  \E x \in S : place[x] = k
  <2> SUFFICES ASSUME \A x \in S : place[x] # k
               PROVE  FALSE
    OBVIOUS
  <2>1. place \in [S -> (1 .. n) \ {k}]
    <3>1. \A x \in S : place[x] \in (1 .. n) \ {k}
      BY <1>4
    <3> QED
      BY <3>1
  <2>2. /\ IsFiniteSet((1 .. n) \ {k}) /\ Cardinality((1 .. n) \ {k}) = n - 1
    <3>1. IsFiniteSet(1 .. n) /\ Cardinality(1 .. n) = n
      BY <1>1, FS_Interval
    <3> QED
      BY <3>1, FS_RemoveElement
  <2>3. Cardinality((1 .. n) \ {k}) < Cardinality(S)
    BY <1>1, <2>2
  <2> HIDE DEF place, n
  <2>4. \E x, y \in S : x # y /\ place[x] = place[y]
    BY <2>1, <2>2, <2>3, FS_PigeonHole
  <2> QED
    BY <1>5, <2>4
<1>7. ASSUME NEW k \in 1 .. n
      PROVE  o[k] \in S /\ place[o[k]] = k
  <2>1. PICK x \in S : place[x] = k
    BY <1>6
  <2>2. Cardinality(Below(x)) = k - 1
    <3> HIDE DEF Below, place
    <3>1. Cardinality(Below(x)) \in Nat /\ place[x] = Cardinality(Below(x)) + 1
      BY <1>2, <1>4
    <3> QED
      BY <2>1, <3>1
  <2>3. o[k] \in S /\ Cardinality(Below(o[k])) = k - 1
    <3> DEFINE Fits(z) == Cardinality(Below(z)) = k - 1
    <3> HIDE DEF Below
    <3>1. o[k] = CHOOSE z \in S : Fits(z)
      OBVIOUS
    <3>2. Fits(x)
      BY <2>2
    <3> HIDE DEF Fits, o
    <3>3. o[k] \in S /\ Fits(o[k])
      BY <3>1, <3>2
    <3> QED
      BY <3>3 DEF Fits
  <2> HIDE DEF o
  <2> QED
    BY <2>3
<1>8. o \in [1 .. n -> S]
  BY <1>7
<1>9. ASSUME NEW x \in S
      PROVE  \E k \in 1 .. n : o[k] = x
  <2> HIDE DEF o, place, n
  <2>1. o[place[x]] \in S /\ place[o[place[x]]] = place[x]
    BY <1>4, <1>7
  <2>2. o[place[x]] = x
    BY <1>5, <2>1
  <2> QED
    BY <1>4, <2>2
<1>10. ASSUME NEW j \in 1 .. n, NEW k \in 1 .. n, j < k
       PROVE  <<o[j], o[k]>> \in L
  <2> HIDE DEF o, place, n
  <2>1. o[j] \in S /\ o[k] \in S /\ place[o[j]] = j /\ place[o[k]] = k
    BY <1>7
  <2>2. ~(<<o[k], o[j]>> \in L)
    <3> SUFFICES ASSUME <<o[k], o[j]>> \in L
                 PROVE  FALSE
      OBVIOUS
    <3>1. place[o[k]] < place[o[j]]
      BY <1>3, <2>1
    <3> QED
      BY <1>1, <1>10, <2>1, <3>1
  <2>3. o[j] # o[k]
    BY <1>1, <1>10, <2>1
  <2> QED
    BY <2>1, <2>2, <2>3
<1>11. /\ n \in Nat /\ o \in [1 .. n -> S]
       /\ \A x \in S : \E k \in 1 .. n : o[k] = x
       /\ \A j, k \in 1 .. n : j < k => <<o[j], o[k]>> \in L
  <2> HIDE DEF o, n
  <2> QED
    BY <1>1, <1>8, <1>9, <1>10
<1> QED
  BY <1>11

-----------------------------------------------------------------------------
(***************************************************************************)
(* The index.                                                              *)
(***************************************************************************)
Ascending(n, at, id) ==
    {p \in (1 .. n) \X (1 .. n) :
        at[p[1]] < at[p[2]] \/ (at[p[1]] = at[p[2]] /\ id[p[1]] < id[p[2]])}

LEMMA NumbersAreOrdered ==
    ASSUME NEW n, NEW at \in [1 .. n -> Nat], NEW id \in [1 .. n -> Nat], NEW B,
           B = Ascending(n, at, id)
    PROVE  /\ \A i, j \in 1 .. n : ~(<<i, j>> \in B /\ <<j, i>> \in B)
           /\ \A i, j, k \in 1 .. n : <<i, j>> \in B => <<i, k>> \in B \/ <<k, j>> \in B
<1>1. /\ \A i \in 1 .. n : at[i] \in Nat /\ id[i] \in Nat
      /\ \A i, j \in 1 .. n :
            <<i, j>> \in B <=> at[i] < at[j] \/ (at[i] = at[j] /\ id[i] < id[j])
  BY DEF Ascending
<1>2. ASSUME NEW i \in 1 .. n, NEW j \in 1 .. n, <<i, j>> \in B, <<j, i>> \in B
      PROVE  FALSE
  BY <1>1, <1>2
<1>3. ASSUME NEW i \in 1 .. n, NEW j \in 1 .. n, NEW k \in 1 .. n, <<i, j>> \in B
      PROVE  <<i, k>> \in B \/ <<k, j>> \in B
  BY <1>1, <1>3
<1> QED
  BY <1>2, <1>3

\* The index has the features of the input, in another order, each once.
LEMMA StoredAreFeatures ==
    ASSUME NEW S, NEW features \in Seq(S),
           \A f \in ToSet(features) : f.at \in Nat /\ f.id \in Nat
    PROVE  /\ DOMAIN Stored(features) = 1 .. Len(features)
           /\ \A k \in 1 .. Len(features) : Stored(features)[k] \in ToSet(features)
           /\ (\A i, j \in 1 .. Len(features) : features[i].id = features[j].id => i = j) =>
                 \A i, j \in 1 .. Len(features) :
                    Stored(features)[i].id = Stored(features)[j].id => i = j
<1> DEFINE n == Len(features)
           Earlier(a, b) == a.at < b.at \/ (a.at = b.at /\ a.id < b.id)
           B == {p \in (1 .. n) \X (1 .. n) : Earlier(features[p[1]], features[p[2]])}
           place == [i \in DOMAIN features |->
                        Cardinality({j \in DOMAIN features :
                            j = i \/ Earlier(features[j], features[i])
                                  \/ (j < i /\ ~Earlier(features[i], features[j]))})]
           position == [i \in 1 .. n |-> Cardinality(Downset(n, B, i))]
<1>1. n \in Nat /\ DOMAIN features = 1 .. n
  BY LenProperties
<1>2. Stored(features) =
        [k \in DOMAIN features |-> features[CHOOSE i \in DOMAIN features : place[i] = k]]
  BY DEF Stored, SortBy, PositionOf, GoesFirst
<1>3. place = position
  <2> SUFFICES ASSUME NEW i \in 1 .. n
               PROVE  {j \in DOMAIN features :
                            j = i \/ Earlier(features[j], features[i])
                                  \/ (j < i /\ ~Earlier(features[i], features[j]))}
                       = Downset(n, B, i)
    BY <1>1
  <2> HIDE DEF Earlier
  <2>1. \A j \in 1 .. n : <<j, i>> \in B <=> Earlier(features[j], features[i])
    OBVIOUS
  <2>2. \A j \in 1 .. n : <<i, j>> \in B <=> Earlier(features[i], features[j])
    OBVIOUS
  <2> HIDE DEF B
  <2> QED
    BY <1>1, <2>1, <2>2 DEF Downset, First
<1>4. \A i \in 1 .. n : features[i].at \in Nat /\ features[i].id \in Nat
  BY <1>1 DEF ToSet
<1>5. \A k \in 1 .. n : \E i \in 1 .. n : position[i] = k
  <2> DEFINE at == [i \in 1 .. n |-> features[i].at]
             id == [i \in 1 .. n |-> features[i].id]
  <2>1. B = Ascending(n, at, id)
    BY DEF Ascending
  <2>4. at \in [1 .. n -> Nat] /\ id \in [1 .. n -> Nat]
    BY <1>4
  <2> HIDE DEF B, at, id, n
  <2>2. \A i, j \in 1 .. n : ~(<<i, j>> \in B /\ <<j, i>> \in B)
    BY <2>1, <2>4, NumbersAreOrdered
  <2>3. \A i, j, k \in 1 .. n : <<i, j>> \in B => <<i, k>> \in B \/ <<k, j>> \in B
    BY <2>1, <2>4, NumbersAreOrdered
  <2> QED
    BY <1>1, <2>2, <2>3, PositionsAreAll
<1> HIDE DEF place, position
<1> DEFINE from(k) == CHOOSE i \in 1 .. n : position[i] = k
<1>6. \A k \in 1 .. n : from(k) \in 1 .. n /\ position[from(k)] = k
  BY <1>5
<1>7. Stored(features) = [k \in 1 .. n |-> features[from(k)]]
  BY <1>1, <1>2, <1>3
<1> HIDE DEF from
<1>8. \A i \in 1 .. n : features[i] \in ToSet(features)
  BY <1>1 DEF ToSet
<1>9. \A i, j \in 1 .. n : from(i) = from(j) => i = j
  BY <1>6
<1> QED
  BY <1>6, <1>7, <1>8, <1>9, SMTT(30)

Bits == {BITS[k] : k \in DOMAIN BITS}

LEMMA MasksAreBits ==
    ASSUME NEW tags
    PROVE  Mask(tags) \subseteq Bits
<1>1. DOMAIN Listed \cup DOMAIN AnyValue \subseteq Bits
  <2>1. DOMAIN BITS = 1 .. 11
    BY DEF BITS
  <2>2. /\ BITS[1] = "SHOP" /\ BITS[2] = "RESTAURANT" /\ BITS[3] = "LODGING" /\ BITS[4] = "SCHOOL"
        /\ BITS[5] = "TRANSIT" /\ BITS[6] = "PARKING" /\ BITS[7] = "FUEL" /\ BITS[8] = "SHRUBBERY"
        /\ BITS[9] = "STREET_FURNITURE" /\ BITS[10] = "LARGE" /\ BITS[11] = "IMPORTANT"
    BY DEF BITS
  <2>3. {"SHOP", "RESTAURANT", "LODGING", "SCHOOL", "TRANSIT", "PARKING", "FUEL", "SHRUBBERY",
         "STREET_FURNITURE", "LARGE", "IMPORTANT"} \subseteq Bits
    BY <2>1, <2>2 DEF Bits
  <2>4. /\ DOMAIN Listed = {"SHOP", "RESTAURANT", "LODGING", "SCHOOL", "TRANSIT", "PARKING", "FUEL",
                            "SHRUBBERY", "STREET_FURNITURE", "LARGE", "IMPORTANT"}
        /\ DOMAIN AnyValue = {"SHOP", "SCHOOL", "TRANSIT", "STREET_FURNITURE"}
    BY DEF Listed, AnyValue
  <2> QED
    BY <2>3, <2>4
<1>2. \A tag : add_tag(tag) \subseteq Bits
  BY <1>1 DEF add_tag
<1> QED
  BY <1>2 DEF Mask

\* The least and the greatest of some numbers.
LEMMA LeastAndGreatest ==
    ASSUME NEW S \in SUBSET Int, IsFiniteSet(S), S # {}
    PROVE  /\ Max(S) \in S /\ \A j \in S : j <= Max(S)
           /\ Min(S) \in S /\ \A j \in S : Min(S) <= j
<1> DEFINE L == {p \in S \X S : p[1] < p[2]}
           n == Cardinality(S)
           o == [k \in 1 .. n |-> CHOOSE x \in S : Cardinality({y \in S : <<y, x>> \in L}) = k - 1]
<1>0. \A x, y \in S : x \in Int /\ (<<x, y>> \in L <=> x < y)
  OBVIOUS
<1>1. /\ n \in Nat /\ o \in [1 .. n -> S]
      /\ \A x \in S : \E k \in 1 .. n : o[k] = x
      /\ \A j, k \in 1 .. n : j < k => <<o[j], o[k]>> \in L
  <2> HIDE DEF L
  <2>2. ASSUME NEW x \in S, NEW y \in S, <<x, y>> \in L, <<y, x>> \in L
        PROVE  FALSE
    <3>1. x \in Int /\ y \in Int /\ x < y /\ y < x
      BY <1>0, <2>2
    <3> QED
      BY <3>1
  <2>3. ASSUME NEW x \in S, NEW y \in S, x # y
        PROVE  <<x, y>> \in L \/ <<y, x>> \in L
    <3>1. x \in Int /\ y \in Int
      BY <1>0
    <3>2. x < y \/ y < x
      BY <2>3, <3>1
    <3> QED
      BY <1>0, <3>2
  <2>4. ASSUME NEW x \in S, NEW y \in S, NEW z \in S, <<x, y>> \in L, <<y, z>> \in L
        PROVE  <<x, z>> \in L
    <3>1. x < y /\ y < z /\ x \in Int /\ y \in Int /\ z \in Int
      BY <1>0, <2>4
    <3>2. x < z
      BY <3>1
    <3> QED
      BY <1>0, <3>2
  <2> QED
    BY <2>2, <2>3, <2>4, OrderedIsAll
<1> HIDE DEF o, n, L
<1>2. \A j, k \in 1 .. n : j < k => o[j] < o[k]
  BY <1>0, <1>1
<1>3. n \in 1 .. n /\ 1 \in 1 .. n
  <2>1. PICK k \in 1 .. n : TRUE
    BY <1>1
  <2> QED
    BY <1>1, <2>1
<1>4. \A k \in 1 .. n : k = n \/ k < n
  BY <1>1
<1>5. \A k \in 1 .. n : k = 1 \/ 1 < k
  BY <1>1
<1>6. \A j \in S : j <= o[n] /\ o[1] <= j
  <2> SUFFICES ASSUME NEW k \in 1 .. n
               PROVE  o[k] <= o[n] /\ o[1] <= o[k]
    BY <1>1
  <2>1. o[k] \in Int /\ o[n] \in Int /\ o[1] \in Int
    BY <1>1, <1>3
  <2>2. o[k] <= o[n]
    BY <1>2, <1>3, <1>4, <2>1
  <2>3. o[1] <= o[k]
    BY <1>2, <1>3, <1>5, <2>1
  <2> QED
    BY <2>2, <2>3
<1>7. o[n] \in S /\ o[1] \in S
  BY <1>1, <1>3
<1>8. \E x \in S : \A y \in S : x >= y
  BY <1>6, <1>7
<1>9. \E x \in S : \A y \in S : x <= y
  BY <1>6, <1>7
<1> QED
  BY <1>8, <1>9 DEF Max, Min

LEMMA MasksAreOrdered ==
    ASSUME NEW a \in SUBSET Bits, NEW b \in SUBSET Bits, NEW c \in SUBSET Bits
    PROVE  /\ ~(MaskBefore(a, b) /\ MaskBefore(b, a))
           /\ a # b => MaskBefore(a, b) \/ MaskBefore(b, a)
           /\ MaskBefore(a, b) /\ MaskBefore(b, c) => MaskBefore(a, c)
<1> DEFINE D == DOMAIN BITS
           On(m, k) == BITS[k] \in m
           Less(x, y) == \E k \in D : On(y, k) /\ ~On(x, k) /\ \A j \in D : j > k => (On(x, j) <=> On(y, j))
<1>1. D = 1 .. 11
  BY DEF BITS
<1>2. \A x, y : MaskBefore(x, y) <=> Less(x, y)
  BY DEF MaskBefore
<1>3. ~(Less(a, b) /\ Less(b, a))
  <2> HIDE DEF On
  <2> SUFFICES ASSUME NEW k \in D, On(b, k), ~On(a, k), \A j \in D : j > k => (On(a, j) <=> On(b, j)),
                      NEW l \in D, On(a, l), ~On(b, l), \A j \in D : j > l => (On(b, j) <=> On(a, j))
               PROVE  FALSE
    OBVIOUS
  <2> HIDE DEF D
  <2>1. k \in Int /\ l \in Int
    BY <1>1
  <2>2. k = l \/ k > l \/ l > k
    BY <2>1
  <2> QED
    BY <2>2
<1>4. Less(a, b) /\ Less(b, c) => Less(a, c)
  <2> HIDE DEF On
  <2> SUFFICES ASSUME NEW k \in D, On(b, k), ~On(a, k), \A j \in D : j > k => (On(a, j) <=> On(b, j)),
                      NEW l \in D, On(c, l), ~On(b, l), \A j \in D : j > l => (On(b, j) <=> On(c, j))
               PROVE  Less(a, c)
    OBVIOUS
  <2> HIDE DEF D
  <2>1. k \in Int /\ l \in Int /\ D \subseteq Int
    BY <1>1
  <2>2. k = l \/ k > l \/ l > k
    BY <2>1
  <2>3. CASE k > l
    <3>1. On(c, k) /\ \A j \in D : j > k => (On(a, j) <=> On(c, j))
      <4>1. \A j \in D : j > k => j > l
        BY <2>1, <2>3
      <4> QED
        BY <2>3, <4>1
    <3> QED
      BY <3>1
  <2>4. CASE l > k
    <3>1. ~On(a, l) /\ \A j \in D : j > l => (On(a, j) <=> On(c, j))
      <4>1. \A j \in D : j > l => j > k
        BY <2>1, <2>4
      <4> QED
        BY <2>4, <4>1
    <3> QED
      BY <3>1
  <2> QED
    BY <2>2, <2>3, <2>4
<1>5. a # b => Less(a, b) \/ Less(b, a)
  <2> SUFFICES ASSUME a # b
               PROVE  Less(a, b) \/ Less(b, a)
    OBVIOUS
  <2> DEFINE Differ == {k \in D : ~(On(a, k) <=> On(b, k))}
  <2>1. Differ # {}
    <3>1. \A x \in Bits : \E k \in D : x = BITS[k]
      BY DEF Bits
    <3>2. PICK x \in Bits : ~(x \in a <=> x \in b)
      OBVIOUS
    <3>3. PICK k \in D : x = BITS[k]
      BY <3>1
    <3> QED
      BY <3>2, <3>3
  <2>2. PICK k \in Differ : \A j \in Differ : j <= k
    <3> HIDE DEF On
    <3>1. Differ \in SUBSET (1 .. 11) /\ Differ \in SUBSET Int
      BY <1>1
    <3>2. IsFiniteSet(1 .. 11)
      <4>1. \A n \in Nat : IsFiniteSet(1 .. n)
        BY FS_Interval
      <4> QED
        BY <4>1
    <3> HIDE DEF Differ
    <3>3. IsFiniteSet(Differ)
      BY <3>1, <3>2, FS_Subset
    <3> QED
      BY <2>1, <3>1, <3>3, LeastAndGreatest
  <2>3. \A j \in D : j > k => (On(a, j) <=> On(b, j))
    <3> HIDE DEF On
    <3>1. \A j \in D : j > k => ~(j <= k)
      BY <1>1
    <3> HIDE DEF D
    <3> QED
      BY <2>2, <3>1
  <2> HIDE DEF On, D
  <2>4. k \in D /\ ~(On(a, k) <=> On(b, k))
    OBVIOUS
  <2> QED
    BY <2>3, <2>4
<1> HIDE DEF Less
<1> QED
  BY <1>2, <1>3, <1>4, <1>5

LEMMA EntriesAreOrdered ==
    ASSUME NEW R \in SUBSET Nat, NEW E \in SUBSET (Nat \X (SUBSET Bits) \X R)
    PROVE  /\ \A a, b \in E : ~(EntryBefore(a, b) /\ EntryBefore(b, a))
           /\ \A a, b \in E : a # b => EntryBefore(a, b) \/ EntryBefore(b, a)
           /\ \A a, b, c \in E : EntryBefore(a, b) /\ EntryBefore(b, c) => EntryBefore(a, c)
<1> DEFINE IsEntry(a) == a[1] \in Nat /\ a[2] \in SUBSET Bits /\ a[3] \in Nat /\ a = <<a[1], a[2], a[3]>>
<1>1. ASSUME NEW a \in E
      PROVE  IsEntry(a)
  <2>1. a \in Nat \X (SUBSET Bits) \X R
    OBVIOUS
  <2>2. a[1] \in Nat /\ a[2] \in SUBSET Bits /\ a[3] \in R /\ a = <<a[1], a[2], a[3]>>
    BY <2>1
  <2> QED
    BY <2>2
<1>2. ASSUME NEW a, NEW b, NEW c, IsEntry(a), IsEntry(b), IsEntry(c)
      PROVE  /\ ~(EntryBefore(a, b) /\ EntryBefore(b, a))
             /\ a # b => EntryBefore(a, b) \/ EntryBefore(b, a)
             /\ EntryBefore(a, b) /\ EntryBefore(b, c) => EntryBefore(a, c)
  <2>1. /\ ~(MaskBefore(a[2], b[2]) /\ MaskBefore(b[2], a[2]))
        /\ a[2] # b[2] => MaskBefore(a[2], b[2]) \/ MaskBefore(b[2], a[2])
        /\ MaskBefore(a[2], b[2]) /\ MaskBefore(b[2], c[2]) => MaskBefore(a[2], c[2])
        /\ ~MaskBefore(a[2], a[2])
    BY <1>2, MasksAreOrdered
  <2>2. ~(EntryBefore(a, b) /\ EntryBefore(b, a))
    BY <1>2, <2>1 DEF EntryBefore
  <2>3. a # b => EntryBefore(a, b) \/ EntryBefore(b, a)
    <3>1. a[1] = b[1] /\ a[2] = b[2] /\ a[3] = b[3] => a = b
      BY <1>2
    <3> QED
      BY <1>2, <2>1, <3>1 DEF EntryBefore
  <2>4. EntryBefore(a, b) /\ EntryBefore(b, c) => EntryBefore(a, c)
    BY <1>2, <2>1 DEF EntryBefore
  <2> QED
    BY <2>2, <2>3, <2>4
<1> HIDE DEF IsEntry
<1> QED
  BY <1>1, <1>2

\* The index returns references to its features.
LEMMA QueryFindsRefs ==
    ASSUME NEW osm, NEW R \in SUBSET Nat, NEW inverted \in SUBSET (Nat \X (SUBSET Bits) \X R),
           IsFiniteSet(inverted), NEW range, NEW mask
    PROVE  query(osm, inverted, range, mask) \in Seq(R)
<1> DEFINE Hit(e) == e[1] \in range[1] .. range[2] /\ intersects(Mask(osm[e[3]].tags), mask)
           H == {e \in inverted : Hit(e)}
           L == {p \in H \X H : EntryBefore(p[1], p[2])}
           n == Cardinality(H)
           o == [k \in 1 .. n |-> CHOOSE x \in H : Cardinality({y \in H : <<y, x>> \in L}) = k - 1]
           found == Ordered(H, EntryBefore)
<1>1. IsFiniteSet(H) /\ H \in SUBSET (Nat \X (SUBSET Bits) \X R)
  BY FS_Subset
<1>2. \A x, y \in H : <<x, y>> \in L <=> EntryBefore(x, y)
  OBVIOUS
<1> HIDE DEF H
<1>3. found = o
  <2>1. \A x \in H : {y \in H : EntryBefore(y, x)} = {y \in H : <<y, x>> \in L}
    BY <1>2
  <2> DEFINE A(x) == Cardinality({y \in H : EntryBefore(y, x)})
             B(x) == Cardinality({y \in H : <<y, x>> \in L})
  <2>2. \A x \in H : A(x) = B(x)
    BY <2>1
  <2>3. found = [k \in 1 .. n |-> CHOOSE x \in H : A(x) = k - 1]
    BY DEF Ordered
  <2>4. o = [k \in 1 .. n |-> CHOOSE x \in H : B(x) = k - 1]
    OBVIOUS
  <2> HIDE DEF A, B, o, found, n
  <2>5. \A k \in 1 .. n : (CHOOSE x \in H : A(x) = k - 1) = (CHOOSE x \in H : B(x) = k - 1)
    BY <2>2
  <2> QED
    BY <2>3, <2>4, <2>5
<1>4. n \in Nat /\ o \in [1 .. n -> H]
  <2> HIDE DEF L
  <2>1. \A x, y \in H : ~(<<x, y>> \in L /\ <<y, x>> \in L)
    BY <1>1, <1>2, EntriesAreOrdered
  <2>2. \A x, y \in H : x # y => <<x, y>> \in L \/ <<y, x>> \in L
    BY <1>1, <1>2, EntriesAreOrdered
  <2>3. \A x, y, z \in H : <<x, y>> \in L /\ <<y, z>> \in L => <<x, z>> \in L
    BY <1>1, <1>2, EntriesAreOrdered
  <2>4. IsFiniteSet(H)
    BY <1>1
  <2>5. /\ n \in Nat /\ o \in [1 .. n -> H]
        /\ \A x \in H : \E k \in 1 .. n : o[k] = x
        /\ \A j, k \in 1 .. n : j < k => <<o[j], o[k]>> \in L
    BY <2>1, <2>2, <2>3, <2>4, OrderedIsAll, Zenon
  <2> QED
    BY <2>5
<1> HIDE DEF o, n
<1>5. query(osm, inverted, range, mask) = [i \in DOMAIN found |-> found[i][3]]
  BY DEF query, H
<1>6. query(osm, inverted, range, mask) = [i \in 1 .. n |-> o[i][3]]
  BY <1>3, <1>4, <1>5
<1>7. ASSUME NEW i \in 1 .. n
      PROVE  o[i][3] \in R
  <2>1. o[i] \in Nat \X (SUBSET Bits) \X R
    BY <1>1, <1>4
  <2> QED
    BY <2>1
<1> QED
  BY <1>4, <1>6, <1>7

LEMMA RangesAreMerged ==
    ASSUME NEW n \in Nat, NEW cells \in [1 .. n -> Nat \X Nat]
    PROVE  MergedCellRanges(cells) \in Seq(Nat \X Nat)
<1>0. DOMAIN cells = 1 .. n
  OBVIOUS
<1>1. PICK acc : Merging!Through(0, <<>>, cells, n, acc)
  BY <1>0, Merging!FoldLeftSteps
<1>7. /\ acc[0] = <<>>
      /\ \A k \in 1 .. n : acc[k] = MergeNext(0, acc[k - 1], cells[k])
      /\ acc[n] = Merging!OverSeq(0, <<>>, cells)
  BY <1>1 DEF Merging!Through
<1>2. Merging!OverSeq(0, <<>>, cells) = MergedCellRanges(cells)
  BY DEF MergedCellRanges, MergeNext, Merging!OverSeq, Merging!FoldLeft, FoldLeft,
         Merging!MapThenFoldSet, MapThenFoldSet, Merging!Max, Max
<1>3. ASSUME NEW ranges \in Seq(Nat \X Nat), NEW range \in Nat \X Nat
      PROVE  MergeRange(ranges, range) \in Seq(Nat \X Nat)
  <2>1. CASE ranges # <<>>
    <3>1. Len(ranges) \in Nat /\ Len(ranges) # 0
      BY <2>1, EmptySeq
    <3>2. Last(ranges) \in Nat \X Nat
      BY <3>1, ElementOfSeq DEF Last
    <3>3. Front(ranges) \in Seq(Nat \X Nat)
      BY <3>1, SubSeqProperties DEF Front
    <3>4. Max({Last(ranges)[2], range[2]}) \in Nat
      <4>1. \A a, b \in Nat : \E x \in {a, b} : \A y \in {a, b} : x >= y
        OBVIOUS
      <4>2. \A a, b \in Nat : Max({a, b}) \in {a, b}
        BY <4>1 DEF Max
      <4> QED
        BY <3>2, <4>2
    <3> DEFINE merged == <<Last(ranges)[1], Max({Last(ranges)[2], range[2]})>>
    <3>5. merged \in Nat \X Nat
      BY <3>2, <3>4
    <3> HIDE DEF merged
    <3>6. Front(ranges) \o <<merged>> \in Seq(Nat \X Nat)
      BY <3>3, <3>5, ConcatProperties
    <3>7. Append(ranges, range) \in Seq(Nat \X Nat)
      BY AppendProperties
    <3> QED
      BY <3>6, <3>7 DEF MergeRange, merged
  <2>2. CASE ranges = <<>>
    BY <2>2, AppendProperties DEF MergeRange
  <2> QED
    BY <2>1, <2>2
<1> DEFINE T == {k \in Nat : k \in 0 .. n => acc[k] \in Seq(Nat \X Nat)}
<1>4. 0 \in T
  BY <1>7, EmptySeq
<1>5. ASSUME NEW k \in Nat, k \in T
      PROVE  k + 1 \in T
  <2> SUFFICES ASSUME k + 1 \in 0 .. n
               PROVE  acc[k + 1] \in Seq(Nat \X Nat)
    OBVIOUS
  <2>1. k \in 0 .. n /\ k + 1 \in 1 .. n /\ (k + 1) - 1 = k
    OBVIOUS
  <2>2. acc[k] \in Seq(Nat \X Nat) /\ cells[k + 1] \in Nat \X Nat
    BY <1>5, <2>1
  <2>3. acc[k + 1] = MergeRange(acc[k], cells[k + 1])
    BY <1>7, <2>1 DEF MergeNext
  <2> QED
    BY <1>3, <2>2, <2>3
<1> HIDE DEF T
<1>6. n \in T
  BY <1>4, <1>5, Merging!NumbersFrom0
<1> QED
  BY <1>7, <1>2, <1>6 DEF T

\* The image of a finite set.
LEMMA ImageIsFinite ==
    ASSUME NEW S, IsFiniteSet(S), NEW I, NEW f \in [S -> I],
           \A t \in I : \E x \in S : f[x] = t
    PROVE  /\ IsFiniteSet(I) /\ Cardinality(I) \in Nat /\ Cardinality(I) <= Cardinality(S)
           /\ (\A x, y \in S : f[x] = f[y] => x = y) => Cardinality(I) = Cardinality(S)
<1>2. f \in Surjection(S, I)
  BY Fun_IsSurj
<1>3. /\ IsFiniteSet(I) /\ Cardinality(I) <= Cardinality(S)
      /\ Cardinality(I) = Cardinality(S) <=> f \in Injection(S, I)
  BY <1>2, FS_Surjection
<1>4. Cardinality(I) \in Nat
  BY <1>3, FS_CardinalityType
<1>5. (\A x, y \in S : f[x] = f[y] => x = y) => f \in Injection(S, I)
  BY Fun_IsInj
<1> QED
  BY <1>3, <1>4, <1>5

\* The index is finite.
LEMMA InvertedIsFinite ==
    ASSUME NEW osm, NEW m \in Nat, DOMAIN osm = 1 .. m,
           \A r \in 1 .. m : IsFiniteSet(osm[r].parts) /\ osm[r].parts \subseteq Nat
    PROVE  /\ Inverted(osm) \in SUBSET (Nat \X (SUBSET Bits) \X (1 .. m))
           /\ IsFiniteSet(Inverted(osm))
<1> DEFINE Entries(r) == {<<leaf(at), Mask(osm[r].tags), r>> : at \in osm[r].parts}
<1>1. ASSUME NEW r \in 1 .. m
      PROVE  IsFiniteSet(Entries(r)) /\ Entries(r) \subseteq Nat \X (SUBSET Bits) \X (1 .. m)
  <2>1. IsFiniteSet(osm[r].parts) /\ osm[r].parts \subseteq Nat
    OBVIOUS
  <2> DEFINE P == osm[r].parts
             mask == Mask(osm[r].tags)
             f == [at \in P |-> <<leaf(at), mask, r>>]
  <2>2. mask \in SUBSET Bits
    BY MasksAreBits
  <2>3. Entries(r) = {f[at] : at \in P}
    OBVIOUS
  <2>4. \A at \in P : leaf(at) \in Nat
    BY <2>1 DEF leaf
  <2> HIDE DEF P, mask
  <2>5. f \in [P -> Nat \X (SUBSET Bits) \X (1 .. m)]
    BY <2>2, <2>4
  <2>6. IsFiniteSet(P)
    BY <2>1 DEF P
  <2> HIDE DEF f
  <2> DEFINE I == {f[at] : at \in P}
  <2>7. IsFiniteSet(I)
    <3>1. f \in [P -> I] /\ \A t \in I : \E at \in P : f[at] = t
      BY <2>5
    <3> HIDE DEF I
    <3> QED
      BY <2>6, <3>1, ImageIsFinite
  <2>8. {f[at] : at \in P} \subseteq Nat \X (SUBSET Bits) \X (1 .. m)
    BY <2>5
  <2> HIDE DEF Entries
  <2> QED
    BY <2>3, <2>7, <2>8
<1>2. Inverted(osm) = UNION {Entries(r) : r \in 1 .. m}
  BY DEF Inverted
<1>3. IsFiniteSet({Entries(r) : r \in 1 .. m})
  <2> DEFINE f == [r \in 1 .. m |-> Entries(r)]
             I == {f[r] : r \in 1 .. m}
  <2>1. {Entries(r) : r \in 1 .. m} = I
    OBVIOUS
  <2>2. f \in [1 .. m -> {Entries(r) : r \in 1 .. m}]
    OBVIOUS
  <2>3. IsFiniteSet(1 .. m)
    BY FS_Interval
  <2> HIDE DEF f
  <2>4. IsFiniteSet(I)
    <3>1. f \in [1 .. m -> I] /\ \A t \in I : \E r \in 1 .. m : f[r] = t
      BY <2>2
    <3> HIDE DEF I
    <3> QED
      BY <2>3, <3>1, ImageIsFinite
  <2> QED
    BY <2>1, <2>4
<1> HIDE DEF Entries
<1>4. IsFiniteSet(Inverted(osm))
  BY <1>1, <1>2, <1>3, FS_UNION
<1> QED
  BY <1>1, <1>2, <1>4

LEMMA CoveringIsRanges ==
    ASSUME NEW at \in Nat, NEW radius \in Nat
    PROVE  \E n \in Nat : covering(at, radius) \in [1 .. n -> Nat \X Nat]
<1> DEFINE low == Max({0, at - radius})
           first == low \div CELL
           last == (at + radius) \div CELL
           n == last - first + 1
<1>1. low \in Nat /\ low <= at + radius
  <2>1. \A a \in Int : Max({0, a}) = IF a > 0 THEN a ELSE 0
    BY DEF Max
  <2> QED
    BY <2>1
<1> HIDE DEF low
<1>2. first \in Nat /\ last \in Nat /\ first <= last
  BY <1>1 DEF CELL
<1>3. n \in Nat
  BY <1>2
<1>4. ASSUME NEW i \in 1 .. n
      PROVE  <<leaf((first + i - 1) * CELL), leaf((first + i) * CELL - 1)>> \in Nat \X Nat
  <2> HIDE DEF first, n
  <2>1. i \in Nat /\ i >= 1 /\ first + i - 1 \in Nat
    BY <1>2, <1>3
  <2>2. (first + i - 1) * CELL \in Nat /\ (first + i) * CELL - 1 \in Nat
    BY <1>2, <2>1 DEF CELL
  <2>3. \A x \in Nat : leaf(x) \in Nat
    BY DEF leaf
  <2> QED
    BY <2>2, <2>3
<1>5. covering(at, radius) =
        [i \in 1 .. n |-> <<leaf((first + i - 1) * CELL), leaf((first + i) * CELL - 1)>>]
  BY DEF covering, low
<1> HIDE DEF first, last, n
<1> QED
  BY <1>3, <1>4, <1>5, ZenonT(60)

\* What the index returns around a place.
LEMMA RefsAroundAreRefs ==
    ASSUME NEW osm, NEW m \in Nat, DOMAIN osm = 1 .. m,
           \A r \in 1 .. m : IsFiniteSet(osm[r].parts) /\ osm[r].parts \subseteq Nat,
           NEW place, place.at \in Nat, NEW radius \in Nat
    PROVE  RefsAround(place, osm, Inverted(osm), radius) \in Seq(1 .. m)
<1> DEFINE ranges == MergedCellRanges(covering(place.at, radius))
           mask == Mask(place.tags)
           seqs == [k \in DOMAIN ranges |-> query(osm, Inverted(osm), ranges[k], mask)]
<1>1. PICK n \in Nat : covering(place.at, radius) \in [1 .. n -> Nat \X Nat]
  BY CoveringIsRanges
<1>2. ranges \in Seq(Nat \X Nat)
  BY <1>1, RangesAreMerged
<1>3. \A k : query(osm, Inverted(osm), ranges[k], mask) \in Seq(1 .. m)
  <2>1. 1 .. m \in SUBSET Nat
    OBVIOUS
  <2> HIDE DEF ranges, mask
  <2> QED
    BY <2>1, InvertedIsFinite, QueryFindsRefs
<1> HIDE DEF ranges
<1>4. DOMAIN ranges = 1 .. Len(ranges) /\ Len(ranges) \in Nat
  BY <1>2, LenProperties
<1>5. seqs \in Seq(Seq(1 .. m))
  <2>1. seqs \in [1 .. Len(ranges) -> Seq(1 .. m)]
    BY <1>3, <1>4
  <2> HIDE DEF seqs
  <2> QED
    BY <1>4, <2>1, SeqDef
<1>6. RefsAround(place, osm, Inverted(osm), radius) = FlattenSeq(seqs)
  BY DEF RefsAround, ranges
<1> HIDE DEF seqs
<1> QED
  BY <1>5, <1>6, FlattenIsSeq

-----------------------------------------------------------------------------
(***************************************************************************)
(* The best of the refs that are found (keep_best).                        *)
(***************************************************************************)
\* A set of the first few numbers.
LEMMA InitialSegment ==
    ASSUME NEW n \in Nat, NEW S \in SUBSET (1 .. n),
           \A k \in S : \A j \in 1 .. n : j < k => j \in S
    PROVE  S = 1 .. Cardinality(S) /\ Cardinality(S) \in 0 .. n
<1>1. IsFiniteSet(S) /\ S \in SUBSET Int
  <2>1. IsFiniteSet(1 .. n) /\ 1 .. n \subseteq Int
    BY FS_Interval
  <2> QED
    BY <2>1, FS_Subset
<1>2. CASE S = {}
  <2>1. Cardinality(S) = 0 /\ 1 .. 0 = {}
    BY <1>2, FS_EmptySet
  <2> QED
    BY <1>2, <2>1
<1>3. CASE S # {}
  <2> DEFINE top == Max(S)
  <2>1. top \in S /\ \A j \in S : j <= top
    BY <1>1, <1>3, LeastAndGreatest
  <2> HIDE DEF top
  <2>2. top \in 1 .. n
    BY <2>1
  <2>3. \A j \in 1 .. top : j \in S
    <3>1. \A j \in 1 .. top : j \in 1 .. n /\ (j = top \/ j < top)
      BY <2>2
    <3> QED
      BY <2>1, <3>1
  <2>4. S = 1 .. top
    <3>1. \A j \in S : j \in 1 .. top
      BY <2>1, <2>2
    <3> QED
      BY <2>3, <3>1
  <2>5. Cardinality(1 .. top) = top
    BY <2>2, FS_Interval
  <2> QED
    BY <2>2, <2>4, <2>5
<1> QED
  BY <1>2, <1>3

\* The sequence with one more, after the first k.
Inserted(s, k, e) ==
    [i \in 1 .. Len(s) + 1 |-> IF i <= k THEN s[i] ELSE IF i = k + 1 THEN e ELSE s[i - 1]]

LEMMA InsertIntoSeq ==
    ASSUME NEW S, NEW s \in Seq(S), NEW e \in S, NEW k \in 0 .. Len(s)
    PROVE  InsertAt(s, k + 1, e) = Inserted(s, k, e)
<1> DEFINE n == Len(s)
           front == SubSeq(s, 1, k)
           back == SubSeq(s, k + 1, n)
<1>1. n \in Nat /\ \A i \in 1 .. n : s[i] \in S
  BY LenProperties, ElementOfSeq
<1>2. front \in Seq(S) /\ Len(front) = k /\ \A i \in 1 .. k : front[i] = s[i]
  <2>1. \A i \in 1 .. k : s[i] \in S
    BY <1>1
  <2>2. k - 1 + 1 = k /\ k \in Int /\ (1 <= k \/ k = 0) /\ \A i \in 1 .. k : 1 + i - 1 = i
    OBVIOUS
  <2> QED
    BY <2>1, <2>2, SubSeqProperties
<1>3. back \in Seq(S) /\ Len(back) = n - k /\ \A i \in 1 .. n - k : back[i] = s[k + i]
  <2>1. \A i \in k + 1 .. n : s[i] \in S
    BY <1>1
  <2>2. k + 1 \in Int /\ n \in Int /\ n - (k + 1) + 1 = n - k
        /\ (IF k + 1 <= n THEN n - (k + 1) + 1 ELSE 0) = n - k
        /\ \A i \in 1 .. n - k : k + 1 + i - 1 = k + i
    BY <1>1
  <2> HIDE DEF n
  <2>3. /\ back \in Seq(S) /\ Len(back) = IF k + 1 <= n THEN n - (k + 1) + 1 ELSE 0
        /\ \A i \in 1 .. n - (k + 1) + 1 : back[i] = s[k + 1 + i - 1]
    BY <2>1, <2>2, SubSeqProperties
  <2> QED
    BY <2>2, <2>3
<1>4. InsertAt(s, k + 1, e) = front \o <<e>> \o back
  <2>1. (k + 1) - 1 = k
    OBVIOUS
  <2> QED
    BY <2>1 DEF InsertAt
<1> HIDE DEF front, back, n
<1>5. /\ front \o <<e>> \in Seq(S) /\ Len(front \o <<e>>) = k + 1
      /\ \A i \in 1 .. k : (front \o <<e>>)[i] = s[i]
      /\ (front \o <<e>>)[k + 1] = e
  <2>1. <<e>> \in Seq(S) /\ Len(<<e>>) = 1 /\ <<e>>[1] = e
    OBVIOUS
  <2> DEFINE one == <<e>>
  <2> HIDE DEF one
  <2>2. /\ front \o one \in Seq(S) /\ Len(front \o one) = k + Len(one)
        /\ \A i \in 1 .. k + Len(one) : (front \o one)[i] = IF i <= k THEN front[i] ELSE one[i - k]
    BY <1>2, <2>1, ConcatProperties DEF one
  <2>3. Len(one) = 1 /\ one[1] = e
    BY <2>1 DEF one
  <2>4. \A i \in 1 .. k : i \in 1 .. k + 1 /\ i <= k
    OBVIOUS
  <2>5. k + 1 \in 1 .. k + 1 /\ ~(k + 1 <= k) /\ k + 1 - k = 1
    OBVIOUS
  <2> QED
    BY <1>2, <2>2, <2>3, <2>4, <2>5 DEF one
<1> DEFINE whole == front \o <<e>> \o back
<1>7. /\ whole \in Seq(S) /\ Len(whole) = n + 1
      /\ \A i \in 1 .. n + 1 : whole[i] = IF i <= k + 1 THEN (front \o <<e>>)[i] ELSE back[i - (k + 1)]
  <2> DEFINE left == front \o <<e>>
  <2>1. left \in Seq(S) /\ Len(left) = k + 1
    BY <1>5
  <2> HIDE DEF left
  <2>2. /\ left \o back \in Seq(S) /\ Len(left \o back) = Len(left) + Len(back)
        /\ \A i \in 1 .. Len(left) + Len(back) :
              (left \o back)[i] = IF i <= Len(left) THEN left[i] ELSE back[i - Len(left)]
    BY <1>3, <2>1, ConcatProperties
  <2>3. Len(left) + Len(back) = n + 1
    BY <1>1, <1>3, <2>1
  <2> QED
    BY <2>1, <2>2, <2>3 DEF left
<1> HIDE DEF whole
<1>8. ASSUME NEW i \in 1 .. n + 1
      PROVE  whole[i] = IF i <= k THEN s[i] ELSE IF i = k + 1 THEN e ELSE s[i - 1]
  <2>1. CASE i <= k
    <3>1. i \in 1 .. k /\ i <= k + 1
      BY <2>1
    <3> QED
      BY <1>5, <1>7, <2>1, <3>1
  <2>2. CASE i = k + 1
    BY <1>5, <1>7, <2>2
  <2>3. CASE i > k + 1
    <3>1. i - (k + 1) \in 1 .. n - k /\ ~(i <= k + 1) /\ ~(i <= k) /\ i # k + 1
          /\ k + (i - (k + 1)) = i - 1
      BY <1>1, <2>3
    <3>2. back[i - (k + 1)] = s[k + (i - (k + 1))]
      BY <1>3, <3>1
    <3> QED
      BY <1>7, <3>1, <3>2
  <2> QED
    BY <2>1, <2>2, <2>3
<1>9. DOMAIN whole = 1 .. n + 1
  BY <1>7, LenProperties
<1>10. whole = [i \in 1 .. n + 1 |-> whole[i]]
  <2>1. whole = [i \in DOMAIN whole |-> whole[i]]
    BY <1>7
  <2> QED
    BY <1>9, <2>1
<1>11. InsertAt(s, k + 1, e) = whole
  BY <1>4 DEF whole
<1> QED
  BY <1>8, <1>10, <1>11 DEF n, Inserted

\* What has points[r] and was found first at at[r] is better than another.
Better(points, at, a, b) ==
    points[a] > points[b] \/ (points[a] = points[b] /\ at[a] < at[b])

BetterThan(good, points, at, r) == {a \in good : Better(points, at, a, r)}

\* The best of the good refs, in order; with the rest there is no room for.
IsBest(best, kept, points, at, good) ==
    /\ best \in Seq(Int \X good) /\ Len(best) <= kept
    /\ \A k \in 1 .. Len(best) : best[k][1] = points[best[k][2]]
    /\ \A k, l \in 1 .. Len(best) : k < l => Better(points, at, best[k][2], best[l][2])
    /\ \A g \in good :
          \/ \E k \in 1 .. Len(best) : best[k][2] = g
          \/ Len(best) = kept /\ \A k \in 1 .. Len(best) : Better(points, at, best[k][2], g)

LEMMA BetterIsAnOrder ==
    ASSUME NEW R, NEW points \in [R -> Int], NEW at \in [R -> Nat],
           NEW a \in R, NEW b \in R, NEW c \in R
    PROVE  /\ ~(Better(points, at, a, b) /\ Better(points, at, b, a))
           /\ ~Better(points, at, a, a)
           /\ Better(points, at, a, b) /\ Better(points, at, b, c) => Better(points, at, a, c)
<1>1. /\ points[a] \in Int /\ points[b] \in Int /\ points[c] \in Int
      /\ at[a] \in Int /\ at[b] \in Int /\ at[c] \in Int
  OBVIOUS
<1> QED
  BY <1>1 DEF Better

\* One more is found: r, which is either found again or later than all others.
LEMMA KeepsBest ==
    ASSUME NEW R, NEW points \in [R -> Int], NEW at \in [R -> Nat], NEW kept \in Nat,
           NEW good \in SUBSET R, NEW best, IsBest(best, kept, points, at, good),
           NEW r \in R, points[r] > 0 => r \in good \/ \A g \in good : at[g] < at[r],
           \A g \in good : points[g] > 0
    PROVE  IsBest(keep_best(best, kept, points[r], r), kept, points, at,
                  good \cup (IF points[r] > 0 THEN {r} ELSE {}))
<1> DEFINE p == points[r]
           n == Len(best)
           next == keep_best(best, kept, p, r)
           Good2 == good \cup {r}
<1>1. /\ n \in Nat /\ n <= kept /\ p \in Int /\ DOMAIN best = 1 .. n
      /\ \A k \in 1 .. n : best[k] \in Int \X good /\ best[k][2] \in good /\ best[k][2] \in R
  <2>1. best \in Seq(Int \X good) /\ Len(best) <= kept
    BY DEF IsBest
  <2>2. n \in Nat /\ DOMAIN best = 1 .. n /\ \A k \in 1 .. n : best[k] \in Int \X good
    BY <2>1, LenProperties, ElementOfSeq
  <2>3. p \in Int
    OBVIOUS
  <2> QED
    BY <2>1, <2>2, <2>3
<1>2. CASE ~(p > 0)
  <2>1. next = best
    BY <1>1, <1>2 DEF keep_best
  <2>2. good \cup (IF points[r] > 0 THEN {r} ELSE {}) = good
    BY <1>2
  <2> QED
    BY <2>1, <2>2
<1>3. CASE p > 0 /\ \E k \in 1 .. n : best[k][2] = r
  <2>1. next = best
    BY <1>1, <1>3 DEF keep_best
  <2>2. good \cup (IF points[r] > 0 THEN {r} ELSE {}) = good
    BY <1>1, <1>3
  <2> QED
    BY <2>1, <2>2
<1>4. CASE p > 0 /\ \A k \in 1 .. n : best[k][2] # r
  <2> DEFINE A == {k \in DOMAIN best : best[k][1] >= p}
             ahead == Cardinality(A)
             e == <<p, r>>
  <2>1. \A k \in 1 .. n : best[k][1] = points[best[k][2]] /\ best[k][1] \in Int
    BY <1>1 DEF IsBest
  <2>2. ASSUME NEW k \in 1 .. n, NEW l \in 1 .. n, k < l
        PROVE  Better(points, at, best[k][2], best[l][2])
    BY <2>2 DEF IsBest
  <2>3. A = 1 .. ahead /\ ahead \in 0 .. n
    <3>1. A \in SUBSET (1 .. n)
      BY <1>1
    <3>2. ASSUME NEW k \in A, NEW j \in 1 .. n, j < k
          PROVE  j \in A
      <4>1. Better(points, at, best[j][2], best[k][2])
        BY <2>2, <3>1, <3>2
      <4>2. best[j][1] \in Int /\ best[k][1] \in Int /\ best[j][1] >= best[k][1]
        BY <2>1, <3>1, <4>1 DEF Better
      <4> QED
        BY <1>1, <4>2
    <3> HIDE DEF A, n
    <3> QED
      BY <1>1, <3>1, <3>2, InitialSegment
  <2>4. \A k \in 1 .. n : (k <= ahead <=> best[k][1] >= p)
    <3>1. \A k \in 1 .. n : k \in A <=> best[k][1] >= p
      BY <1>1
    <3> HIDE DEF A, ahead, n, p
    <3> QED
      BY <1>1, <2>3, <3>1
  <2>5. next = SubSeq(InsertAt(best, ahead + 1, e), 1, Min({kept, n + 1}))
    <3>1. ~(p <= 0) /\ ~\E i \in DOMAIN best : best[i][2] = r
      BY <1>1, <1>4
    <3> HIDE DEF p
    <3> QED
      BY <3>1 DEF keep_best
  <2> HIDE DEF A, ahead, n, p, next, Good2, e
  <2>6. ASSUME NEW k \in 1 .. n, k <= ahead
        PROVE  Better(points, at, best[k][2], r)
    <3>1. best[k][1] >= p /\ points[best[k][2]] >= p /\ points[best[k][2]] \in Int
      BY <2>1, <2>4, <2>6
    <3>2. CASE r \in good
      BY <1>4, <2>6, <3>2 DEF IsBest, n
    <3>3. CASE \A g \in good : at[g] < at[r]
      <4>1. at[best[k][2]] < at[r]
        BY <1>1, <3>3
      <4> QED
        BY <1>1, <3>1, <4>1 DEF Better, p
    <3> QED
      BY <1>4, <3>2, <3>3 DEF p
  <2>7. ASSUME NEW k \in 1 .. n, k > ahead
        PROVE  Better(points, at, r, best[k][2])
    <3>0. ~(k <= ahead)
      BY <1>1, <2>3, <2>7
    <3>1. ~(best[k][1] >= p)
      BY <2>4, <3>0
    <3> QED
      BY <1>1, <2>1, <3>1 DEF Better, p
  <2>8. CASE ahead = kept
    \* There is no room for it.
    <3>1. n = kept /\ ahead = n
      BY <1>1, <2>3, <2>8
    <3>2. next = best
      <4>1. best \in Seq(Int \X R) /\ e \in Int \X R
        <5>1. best \in Seq(Int \X good) /\ Int \X good \subseteq Int \X R
          BY DEF IsBest
        <5>2. best \in Seq(Int \X R)
          BY <5>1, SeqMonotonic
        <5>3. e \in Int \X R
          BY <1>1 DEF e
        <5> QED
          BY <5>2, <5>3
      <4>2. Min({kept, n + 1}) = n
        <5>1. \A a \in Nat : Min({a, a + 1}) = a
          BY DEF Min
        <5> QED
          BY <1>1, <3>1, <5>1
      <4> DEFINE longer == InsertAt(best, ahead + 1, e)
      <4>3. longer = [i \in 1 .. n + 1 |-> IF i <= ahead THEN best[i]
                                           ELSE IF i = ahead + 1 THEN e ELSE best[i - 1]]
        <5>1. ahead \in 0 .. Len(best)
          BY <2>3 DEF n
        <5>2. longer = Inserted(best, ahead, e)
          BY <4>1, <5>1, InsertIntoSeq
        <5> QED
          BY <5>2 DEF n, Inserted
      <4> HIDE DEF longer
      <4>4. \A i \in 1 .. n : longer[i] = best[i]
        <5>1. \A i \in 1 .. n : i \in 1 .. n + 1 /\ i <= ahead
          BY <1>1, <3>1
        <5> QED
          BY <4>3, <5>1
      <4>5. \A i \in 1 .. n : longer[i] \in Int \X R
        BY <1>1, <4>4
      <4>6. /\ SubSeq(longer, 1, n) \in Seq(Int \X R)
            /\ Len(SubSeq(longer, 1, n)) = IF 1 <= n THEN n - 1 + 1 ELSE 0
            /\ \A i \in 1 .. n - 1 + 1 : SubSeq(longer, 1, n)[i] = longer[1 + i - 1]
        BY <1>1, <4>5, SubSeqProperties
      <4>7. /\ Len(SubSeq(longer, 1, n)) = n
            /\ \A i \in 1 .. n : SubSeq(longer, 1, n)[i] = best[i]
        <5>1. n - 1 + 1 = n /\ (~(1 <= n) => n = 0) /\ \A i \in 1 .. n : 1 + i - 1 = i
          BY <1>1
        <5> QED
          BY <4>4, <4>6, <5>1
      <4>8. SubSeq(longer, 1, n) = best
        BY <4>1, <4>6, <4>7, SeqEqual DEF n
      <4> QED
        BY <2>5, <4>2, <4>8 DEF longer
    <3>3. good \cup (IF points[r] > 0 THEN {r} ELSE {}) = Good2
      BY <1>4 DEF p, Good2
    <3>4. IsBest(best, kept, points, at, Good2)
      <4>1. best \in Seq(Int \X Good2)
        <5>1. best \in Seq(Int \X good) /\ Int \X good \subseteq Int \X Good2
          BY DEF IsBest, Good2
        <5> QED
          BY <5>1, SeqMonotonic
      <4>2. \A g \in Good2 :
               \/ \E k \in 1 .. n : best[k][2] = g
               \/ n = kept /\ \A k \in 1 .. n : Better(points, at, best[k][2], g)
        <5>1. \A k \in 1 .. n : Better(points, at, best[k][2], r)
          <6>1. \A k \in 1 .. n : k <= ahead
            BY <1>1, <3>1
          <6> QED
            BY <2>6, <6>1
        <5> QED
          BY <3>1, <5>1 DEF IsBest, Good2, n
      <4> QED
        BY <4>1, <4>2 DEF IsBest, n
    <3> QED
      BY <3>2, <3>3, <3>4 DEF next, p
  <2>9. CASE ahead < kept
    <3> DEFINE m == IF n < kept THEN n + 1 ELSE kept
               Item(k) == IF k <= ahead THEN best[k] ELSE IF k = ahead + 1 THEN e ELSE best[k - 1]
    <3>1. Min({kept, n + 1}) = m /\ m \in Nat /\ m <= n + 1 /\ m <= kept /\ ahead + 1 <= m
      <4>1. \A a, b \in Nat : Min({a, b}) = IF b < a THEN b ELSE a
        BY DEF Min
      <4>2. Min({kept, n + 1}) = IF n + 1 < kept THEN n + 1 ELSE kept
        BY <1>1, <4>1
      <4> QED
        BY <1>1, <2>3, <2>9, <4>2
    <3>2. /\ next \in Seq(Int \X Good2) /\ Len(next) = m
          /\ \A k \in 1 .. m : next[k] = Item(k)
      <4>1. best \in Seq(Int \X Good2) /\ e \in Int \X Good2
        <5>1. best \in Seq(Int \X good) /\ Int \X good \subseteq Int \X Good2
          BY DEF IsBest, Good2
        <5>2. best \in Seq(Int \X Good2)
          BY <5>1, SeqMonotonic
        <5>3. e \in Int \X Good2
          BY <1>1 DEF e, Good2
        <5> QED
          BY <5>2, <5>3
      <4> DEFINE longer == InsertAt(best, ahead + 1, e)
      <4>2. longer = [i \in 1 .. n + 1 |-> Item(i)]
        <5>1. ahead \in 0 .. Len(best)
          BY <2>3 DEF n
        <5>2. longer = Inserted(best, ahead, e)
          BY <4>1, <5>1, InsertIntoSeq
        <5> QED
          BY <5>2 DEF n, Inserted
      <4>3. ASSUME NEW i \in 1 .. m
            PROVE  longer[i] = Item(i) /\ Item(i) \in Int \X Good2
        <5>1. i \in 1 .. n + 1
          BY <1>1, <3>1
        <5>2. longer[i] = Item(i)
          BY <4>2, <5>1
        <5>3. /\ i <= ahead => i \in 1 .. n
              /\ ~(i <= ahead) /\ i # ahead + 1 => i - 1 \in 1 .. n
          BY <1>1, <2>3, <5>1
        <5>4. Item(i) \in Int \X Good2
          <6>1. \A k \in 1 .. n : best[k] \in Int \X Good2
            BY <1>1 DEF Good2
          <6> QED
            BY <4>1, <5>3, <6>1
        <5> QED
          BY <5>2, <5>4
      <4> HIDE DEF longer, Item, m
      <4>4. /\ SubSeq(longer, 1, m) \in Seq(Int \X Good2)
            /\ Len(SubSeq(longer, 1, m)) = IF 1 <= m THEN m - 1 + 1 ELSE 0
            /\ \A i \in 1 .. m - 1 + 1 : SubSeq(longer, 1, m)[i] = longer[1 + i - 1]
        <5>1. \A i \in 1 .. m : longer[i] \in Int \X Good2
          BY <4>3
        <5> QED
          BY <3>1, <5>1, SubSeqProperties
      <4>5. m - 1 + 1 = m /\ (~(1 <= m) => m = 0) /\ \A i \in 1 .. m : 1 + i - 1 = i
        BY <3>1
      <4> QED
        BY <2>5, <3>1, <4>3, <4>4, <4>5 DEF longer
    <3> HIDE DEF m
    <3>3. \A k \in 1 .. m :
             \/ k <= ahead /\ k \in 1 .. n /\ next[k] = best[k]
             \/ k = ahead + 1 /\ next[k] = e
             \/ k > ahead + 1 /\ k - 1 \in 1 .. n /\ k - 1 > ahead /\ next[k] = best[k - 1]
      <4> SUFFICES ASSUME NEW k \in 1 .. m
                   PROVE  \/ k <= ahead /\ k \in 1 .. n /\ next[k] = best[k]
                          \/ k = ahead + 1 /\ next[k] = e
                          \/ k > ahead + 1 /\ k - 1 \in 1 .. n /\ k - 1 > ahead /\ next[k] = best[k - 1]
        OBVIOUS
      <4>1. next[k] = Item(k)
        BY <3>2
      <4>2. \/ k <= ahead /\ k \in 1 .. n
            \/ k = ahead + 1
            \/ k > ahead + 1 /\ k - 1 \in 1 .. n /\ k - 1 > ahead /\ ~(k <= ahead) /\ k # ahead + 1
        BY <1>1, <2>3, <3>1
      <4>3. k = ahead + 1 => ~(k <= ahead)
        BY <2>3
      <4> QED
        BY <4>1, <4>2, <4>3
    <3>4. e[1] = p /\ e[2] = r
      BY DEF e
    <3>5. \A k \in 1 .. m : next[k][1] = points[next[k][2]]
      BY <2>1, <3>3, <3>4 DEF p
    <3>6. ASSUME NEW k \in 1 .. m, NEW l \in 1 .. m, k < l
          PROVE  Better(points, at, next[k][2], next[l][2])
      <4> HIDE DEF Item
      <4>1. CASE l <= ahead
        <5>1. k <= ahead /\ k < ahead + 1
          BY <2>3, <3>6, <4>1
        <5>2. k \in 1 .. n /\ l \in 1 .. n /\ next[k] = best[k] /\ next[l] = best[l]
          BY <2>3, <3>3, <4>1, <5>1
        <5> QED
          BY <2>2, <3>6, <5>2
      <4>2. CASE l = ahead + 1
        <5>1. k <= ahead
          BY <2>3, <3>6, <4>2
        <5>2. k \in 1 .. n /\ next[k] = best[k] /\ next[l] = e
          BY <2>3, <3>3, <4>2, <5>1
        <5> QED
          BY <2>6, <3>4, <5>1, <5>2
      <4>3. CASE l > ahead + 1
        <5>1. l - 1 \in 1 .. n /\ l - 1 > ahead /\ next[l] = best[l - 1]
          BY <2>3, <3>3, <4>3
        <5>2. CASE k <= ahead
          <6>1. k \in 1 .. n /\ next[k] = best[k] /\ k < l - 1
            BY <2>3, <3>3, <4>3, <5>2
          <6> QED
            BY <2>2, <5>1, <6>1
        <5>3. CASE k = ahead + 1
          <6>1. next[k] = e
            BY <2>3, <3>3, <5>3
          <6> QED
            BY <2>7, <3>4, <5>1, <6>1
        <5>4. CASE k > ahead + 1
          <6>1. k - 1 \in 1 .. n /\ next[k] = best[k - 1] /\ k - 1 < l - 1
            BY <2>3, <3>3, <3>6, <5>4
          <6> QED
            BY <2>2, <5>1, <6>1
        <5> QED
          BY <2>3, <5>2, <5>3, <5>4
      <4> QED
        BY <2>3, <4>1, <4>2, <4>3
    <3>7. ASSUME NEW k \in 1 .. n
          PROVE  \/ \E l \in 1 .. m : next[l] = best[k]
                 \/ k = n /\ n = kept /\ m = kept /\ k > ahead
      <4>1. CASE k <= ahead
        <5>1. k \in 1 .. m
          BY <1>1, <2>3, <3>1, <4>1
        <5>2. next[k] = best[k]
          BY <2>3, <3>3, <4>1, <5>1
        <5> QED
          BY <5>1, <5>2
      <4>2. CASE k > ahead /\ k + 1 <= m
        <5>1. k + 1 \in 1 .. m /\ (k + 1) - 1 = k /\ k + 1 > ahead + 1
          BY <1>1, <2>3, <3>1, <4>2
        <5>2. ~(k + 1 <= ahead) /\ k + 1 # ahead + 1
          BY <2>3, <5>1
        <5> HIDE DEF Item
        <5>3. next[k + 1] = best[(k + 1) - 1]
          BY <3>3, <5>1, <5>2
        <5> QED
          BY <5>1, <5>3
      <4>3. CASE k > ahead /\ k + 1 > m
        BY <1>1, <2>3, <3>1, <4>3 DEF m
      <4> QED
        BY <1>1, <2>3, <3>1, <4>1, <4>2, <4>3
    <3>8. ASSUME NEW g \in Good2
          PROVE  \/ \E k \in 1 .. m : next[k][2] = g
                 \/ m = kept /\ \A k \in 1 .. m : Better(points, at, next[k][2], g)
      <4>1. CASE g = r
        <5>1. ahead + 1 \in 1 .. m
          BY <2>3, <3>1
        <5>2. next[ahead + 1] = e
          <6>1. ~(ahead + 1 <= ahead) /\ ~(ahead + 1 > ahead + 1)
            BY <2>3
          <6> QED
            BY <3>3, <5>1, <6>1
        <5> QED
          BY <3>4, <4>1, <5>1, <5>2
      <4>2. CASE g \in good /\ \E k \in 1 .. n : best[k][2] = g
        <5>1. PICK k \in 1 .. n : best[k][2] = g
          BY <4>2
        <5>2. CASE \E l \in 1 .. m : next[l] = best[k]
          BY <5>1, <5>2
        <5>3. CASE k = n /\ n = kept /\ m = kept /\ k > ahead
          \* It has been the last, and there is no room for it any more.
          <6>1. ASSUME NEW l \in 1 .. m
                PROVE  Better(points, at, next[l][2], g)
            <7>1. CASE l <= ahead
              <8>1. l \in 1 .. n /\ next[l] = best[l] /\ l < n
                BY <1>1, <2>3, <3>3, <5>3, <7>1
              <8> QED
                BY <2>2, <5>1, <5>3, <8>1
            <7>2. CASE l = ahead + 1
              <8>1. next[l] = e
                BY <2>3, <3>3, <7>2
              <8> QED
                BY <2>7, <3>4, <5>1, <5>3, <8>1
            <7>3. CASE l > ahead + 1
              <8>1. l - 1 \in 1 .. n /\ next[l] = best[l - 1] /\ l - 1 < n
                BY <1>1, <2>3, <3>1, <3>3, <5>3, <7>3
              <8> QED
                BY <2>2, <5>1, <5>3, <8>1
            <7> QED
              BY <2>3, <7>1, <7>2, <7>3
          <6> QED
            BY <5>3, <6>1
        <5> QED
          BY <3>7, <5>2, <5>3
      <4>3. CASE g \in good /\ ~\E k \in 1 .. n : best[k][2] = g
        <5>1. n = kept /\ \A k \in 1 .. n : Better(points, at, best[k][2], g)
          BY <4>3 DEF IsBest, n
        <5>2. m = kept
          BY <1>1, <5>1 DEF m
        <5>3. ASSUME NEW l \in 1 .. m
              PROVE  Better(points, at, next[l][2], g)
          <6>1. CASE l = ahead + 1
            <7>1. next[l] = e /\ n \in 1 .. n /\ n > ahead
              BY <1>1, <2>3, <2>9, <3>3, <5>1, <6>1
            <7>2. Better(points, at, r, best[n][2]) /\ Better(points, at, best[n][2], g)
              BY <2>7, <5>1, <7>1
            <7>3. best[n][2] \in R /\ g \in R
              BY <1>1, <4>3, <7>1
            <7> HIDE DEF n
            <7> QED
              BY <3>4, <7>1, <7>2, <7>3, BetterIsAnOrder
          <6>2. CASE l # ahead + 1
            <7>1. \E k \in 1 .. n : next[l] = best[k]
              BY <3>3, <6>2
            <7> QED
              BY <5>1, <7>1
          <6> QED
            BY <6>1, <6>2
        <5> QED
          BY <5>2, <5>3
      <4> QED
        BY <4>1, <4>2, <4>3 DEF Good2
    <3>9. IsBest(next, kept, points, at, Good2)
      <4> QED
        BY <3>1, <3>2, <3>5, <3>6, <3>8 DEF IsBest
    <3>10. good \cup (IF points[r] > 0 THEN {r} ELSE {}) = Good2
      BY <1>4 DEF p, Good2
    <3> QED
      BY <3>9, <3>10 DEF next, p
  <2> QED
    BY <1>1, <2>3, <2>8, <2>9
<1> QED
  BY <1>2, <1>3, <1>4

\* The candidates of a place are the best of all that are found.
LEMMA CandidatesAreBest ==
    ASSUME NEW R, NEW found \in Seq(R), NEW kept \in Nat, NEW points \in [ToSet(found) -> Int]
    PROVE  LET at == [r \in ToSet(found) |-> Min({k \in DOMAIN found : found[k] = r})]
           IN  /\ at \in [ToSet(found) -> Nat]
               /\ IsBest(best_candidates(kept, found, points), kept, points, at,
                         {r \in ToSet(found) : points[r] > 0})
<1> DEFINE n == Len(found)
           All == ToSet(found)
           Where(r) == {k \in DOMAIN found : found[k] = r}
           at == [r \in All |-> Min(Where(r))]
           of == <<kept, points>>
<1>1. n \in Nat /\ DOMAIN found = 1 .. n
  BY LenProperties
<1>2. \A k \in 1 .. n : found[k] \in All
  BY <1>1 DEF ToSet
<1>3. ASSUME NEW r \in All
      PROVE  at[r] \in 1 .. n /\ found[at[r]] = r /\ \A k \in 1 .. n : found[k] = r => at[r] <= k
  <2>1. Where(r) # {}
    BY DEF ToSet
  <2>2. Where(r) \in SUBSET Int /\ IsFiniteSet(Where(r))
    <3>1. IsFiniteSet(1 .. n) /\ 1 .. n \subseteq Int
      BY <1>1, FS_Interval
    <3>2. Where(r) \in SUBSET (1 .. n)
      BY <1>1
    <3> HIDE DEF Where, n
    <3> QED
      BY <3>1, <3>2, FS_Subset
  <2> DEFINE S == Where(r)
  <2>3. at[r] = Min(S)
    OBVIOUS
  <2>4. \A k \in 1 .. n : found[k] = r => k \in S
    BY <1>1
  <2>5. \A k \in S : k \in 1 .. n /\ found[k] = r
    BY <1>1
  <2> HIDE DEF S, at
  <2>6. Min(S) \in S /\ \A k \in S : Min(S) <= k
    BY <2>1, <2>2, LeastAndGreatest DEF S
  <2> QED
    BY <2>3, <2>4, <2>5, <2>6
<1>4. at \in [All -> Nat] /\ points \in [All -> Int]
  <2>1. \A r \in All : at[r] \in Nat
    BY <1>1, <1>3
  <2> QED
    BY <2>1
<1> HIDE DEF n, All, at
<1>5. PICK acc : Keeping!Through(of, <<>>, found, n, acc)
  BY <1>1, Keeping!FoldLeftSteps
<1>6. /\ acc[0] = <<>>
      /\ \A k \in 1 .. n : acc[k] = KeepNext(of, acc[k - 1], found[k])
      /\ acc[n] = Keeping!OverSeq(of, <<>>, found)
  BY <1>5 DEF Keeping!Through
<1>7. \A k \in 1 .. n : acc[k] = keep_best(acc[k - 1], kept, points[found[k]], found[k])
  BY <1>6 DEF KeepNext
<1>8. acc[n] = best_candidates(kept, found, points)
  BY <1>6 DEF best_candidates, Keeping!OverSeq, KeepNext, FoldLeft, MapThenFoldSet, Max,
              Keeping!FoldLeft, Keeping!MapThenFoldSet, Keeping!Max
<1> HIDE DEF of
<1> DEFINE GoodTo(k) == {r \in All : points[r] > 0 /\ at[r] <= k}
           T == {k \in Nat : k <= n => IsBest(acc[k], kept, points, at, GoodTo(k))}
<1>9. 0 \in T
  <2>1. GoodTo(0) = {}
    <3>1. \A r \in All : ~(at[r] <= 0)
      BY <1>1, <1>3
    <3> QED
      BY <3>1
  <2>2. IsBest(<<>>, kept, points, at, {})
    <3>1. <<>> \in Seq(Int \X {}) /\ Len(<<>>) = 0 /\ 1 .. 0 = {}
      OBVIOUS
    <3> QED
      BY <3>1 DEF IsBest
  <2> QED
    BY <1>6, <2>1, <2>2
<1>10. ASSUME NEW k \in Nat, k \in T
       PROVE  k + 1 \in T
  <2> SUFFICES ASSUME k + 1 <= n
               PROVE  IsBest(acc[k + 1], kept, points, at, GoodTo(k + 1))
    <3> HIDE DEF GoodTo
    <3> QED
      OBVIOUS
  <2> DEFINE r == found[k + 1]
             good == GoodTo(k)
  <2>1. k <= n /\ k + 1 \in 1 .. n /\ (k + 1) - 1 = k
    BY <1>1
  <2>2. IsBest(acc[k], kept, points, at, good)
    BY <1>10, <2>1
  <2>3. r \in All /\ at[r] <= k + 1 /\ at[r] \in Nat
    BY <1>2, <1>3, <1>4, <2>1
  <2>4. acc[k + 1] = keep_best(acc[k], kept, points[r], r)
    BY <1>7, <2>1
  <2>5. points[r] > 0 => r \in good \/ \A g \in good : at[g] < at[r]
    <3>1. CASE at[r] <= k
      BY <2>3, <3>1
    <3>2. CASE at[r] = k + 1
      <4>1. \A g \in good : at[g] <= k /\ at[g] \in Nat
        BY <1>4
      <4> HIDE DEF good, r
      <4> QED
        BY <3>2, <4>1
    <3> HIDE DEF r, good
    <3> QED
      BY <2>3, <3>1, <3>2
  <2>6. GoodTo(k + 1) = good \cup (IF points[r] > 0 THEN {r} ELSE {})
    <3>1. ASSUME NEW q \in All, at[q] <= k + 1
          PROVE  at[q] <= k \/ q = r
      <4>1. at[q] \in Nat
        BY <1>4
      <4>2. CASE at[q] = k + 1
        BY <1>3, <4>2
      <4> QED
        BY <3>1, <4>1, <4>2
    <3>2. \A q \in All : at[q] <= k => at[q] <= k + 1
      <4>1. \A q \in All : at[q] \in Nat
        BY <1>4
      <4> QED
        BY <4>1
    <3> HIDE DEF r
    <3> QED
      BY <2>3, <3>1, <3>2
  <2>7. good \in SUBSET All /\ \A g \in good : points[g] > 0
    OBVIOUS
  <2> HIDE DEF good, r, GoodTo
  <2>8. IsBest(keep_best(acc[k], kept, points[r], r), kept, points, at,
               good \cup (IF points[r] > 0 THEN {r} ELSE {}))
    BY <1>4, <2>2, <2>3, <2>5, <2>7, KeepsBest
  <2> QED
    BY <2>4, <2>6, <2>8
<1>11. n \in T
  <2> HIDE DEF T
  <2> QED
    BY <1>1, <1>9, <1>10, Keeping!NumbersFrom0
<1>12. GoodTo(n) = {r \in All : points[r] > 0}
  <2>1. \A r \in All : at[r] <= n
    BY <1>1, <1>3
  <2> QED
    BY <2>1
<1>13. IsBest(acc[n], kept, points, at, GoodTo(n))
  <2> HIDE DEF GoodTo
  <2>1. n <= n
    BY <1>1
  <2> QED
    BY <1>11, <2>1
<1>14. IsBest(best_candidates(kept, found, points), kept, points, at, {r \in All : points[r] > 0})
  BY <1>8, <1>12, <1>13
<1> QED
  BY <1>4, <1>14 DEF All, at

\* The rank of each of the best is its place among them.
LEMMA RanksOfTheBest ==
    ASSUME NEW R, NEW points \in [R -> Int], NEW at \in [R -> Nat], NEW kept \in Nat,
           NEW good \in SUBSET R, IsFiniteSet(good), NEW best, IsBest(best, kept, points, at, good)
    PROVE  /\ Len(best) = Min({kept, Cardinality(good)})
           /\ \A k \in 1 .. Len(best) :
                 Cardinality(BetterThan(good, points, at, best[k][2])) + 1 = k
<1> DEFINE n == Len(best)
           ref == [k \in 1 .. n |-> best[k][2]]
<1>1. /\ n \in Nat /\ n <= kept
      /\ \A k \in 1 .. n : best[k][2] \in good
  <2>1. best \in Seq(Int \X good) /\ Len(best) <= kept
    BY DEF IsBest
  <2>2. n \in Nat /\ \A k \in 1 .. n : best[k] \in Int \X good
    BY <2>1, LenProperties, ElementOfSeq
  <2> QED
    BY <2>1, <2>2
<1>2. ref \in [1 .. n -> good]
  BY <1>1
<1>3. ASSUME NEW k \in 1 .. n, NEW l \in 1 .. n, k < l
      PROVE  Better(points, at, ref[k], ref[l])
  BY <1>3 DEF IsBest
<1>4. ASSUME NEW g \in good
      PROVE  \/ \E k \in 1 .. n : ref[k] = g
             \/ n = kept /\ \A k \in 1 .. n : Better(points, at, ref[k], g)
  BY DEF IsBest
<1>5. \A k \in 1 .. n : ref[k] = best[k][2]
  OBVIOUS
<1> HIDE DEF ref, n
<1>6. \A k \in 1 .. n : ref[k] \in R
  BY <1>2
<1>7. \A k, l \in 1 .. n : ref[k] = ref[l] => k = l
  <2> SUFFICES ASSUME NEW k \in 1 .. n, NEW l \in 1 .. n, ref[k] = ref[l], k # l
               PROVE  FALSE
    OBVIOUS
  <2>1. k < l \/ l < k
    BY <1>1
  <2>2. Better(points, at, ref[k], ref[k])
    BY <1>3, <2>1
  <2> QED
    BY <1>6, <2>2, BetterIsAnOrder
<1>8. ASSUME NEW k \in 1 .. n
      PROVE  Cardinality({a \in good : Better(points, at, a, ref[k])}) = k - 1
  <2> DEFINE first == 1 .. k - 1
             part == [l \in first |-> ref[l]]
  <2>1. \A l \in first : l \in 1 .. n /\ l < k
    BY <1>1
  <2>2. {a \in good : Better(points, at, a, ref[k])} = {part[l] : l \in first}
    <3>1. ASSUME NEW l \in first
          PROVE  part[l] \in good /\ Better(points, at, part[l], ref[k])
      <4>1. part[l] = ref[l] /\ l \in 1 .. n /\ l < k
        BY <2>1
      <4> HIDE DEF part
      <4> QED
        BY <1>2, <1>3, <4>1
    <3>2. ASSUME NEW a \in good, Better(points, at, a, ref[k])
          PROVE  \E l \in first : part[l] = a
      <4>1. a \in R /\ ref[k] \in R
        BY <1>6
      <4>2. ~Better(points, at, ref[k], a)
        BY <3>2, <4>1, BetterIsAnOrder
      <4>3. PICK l \in 1 .. n : ref[l] = a
        BY <1>4, <4>2
      <4>4. ~(k < l)
        BY <1>3, <4>2, <4>3
      <4>5. k # l
        BY <3>2, <4>1, <4>3, BetterIsAnOrder
      <4>6. l \in first
        BY <1>1, <4>4, <4>5
      <4>7. part[l] = a
        BY <4>3, <4>6
      <4> QED
        BY <4>6, <4>7
    <3> HIDE DEF part, first
    <3> QED
      BY <3>1, <3>2
  <2>3. IsFiniteSet(first) /\ Cardinality(first) = k - 1
    <3>1. k \in Nat /\ k >= 1
      BY <1>1
    <3>2. IsFiniteSet(1 .. k - 1) /\ Cardinality(1 .. k - 1) = IF 1 > k - 1 THEN 0 ELSE k - 1 - 1 + 1
      BY <3>1, FS_Interval
    <3> QED
      BY <3>1, <3>2
  <2>4. part \in [first -> good]
    BY <1>2, <2>1
  <2>5. \A l, m \in first : part[l] = part[m] => l = m
    BY <1>7, <2>1
  <2> HIDE DEF first, part
  <2> DEFINE before == {part[l] : l \in first}
  <2>6. /\ IsFiniteSet(before) /\ Cardinality(before) \in Nat
        /\ Cardinality(before) <= Cardinality(first)
        /\ (\A l, m \in first : part[l] = part[m] => l = m)
              => Cardinality(before) = Cardinality(first)
    <3>1. part \in [first -> before] /\ \A g \in before : \E l \in first : part[l] = g
      BY <2>4
    <3> HIDE DEF before
    <3> QED
      BY <2>3, <3>1, ImageIsFinite
  <2> QED
    BY <2>2, <2>3, <2>5, <2>6
<1>9. n = Min({kept, Cardinality(good)})
  <2> DEFINE I == {ref[k] : k \in 1 .. n}
  <2>1. IsFiniteSet(1 .. n) /\ Cardinality(1 .. n) = n
    BY <1>1, FS_Interval
  <2>2. IsFiniteSet(I) /\ Cardinality(I) = n
    <3>1. /\ IsFiniteSet(I) /\ Cardinality(I) \in Nat /\ Cardinality(I) <= Cardinality(1 .. n)
          /\ (\A k, l \in 1 .. n : ref[k] = ref[l] => k = l)
                => Cardinality(I) = Cardinality(1 .. n)
      <4>1. ref \in [1 .. n -> I] /\ \A g \in I : \E k \in 1 .. n : ref[k] = g
        BY <1>2
      <4> HIDE DEF I
      <4> QED
        BY <2>1, <4>1, ImageIsFinite
    <3> QED
      BY <1>7, <2>1, <3>1
  <2>3. I \in SUBSET good
    BY <1>2
  <2> HIDE DEF I
  <2>4. n <= Cardinality(good) /\ Cardinality(good) \in Nat
    BY <2>2, <2>3, FS_Subset, FS_CardinalityType
  <2>5. n # kept => n = Cardinality(good)
    <3> SUFFICES ASSUME n # kept
                 PROVE  n = Cardinality(good)
      OBVIOUS
    <3>1. I = good
      BY <1>4, <2>3 DEF I
    <3> QED
      BY <2>2, <3>1
  <2>6. \A a, b \in Nat : Min({a, b}) = IF b < a THEN b ELSE a
    BY DEF Min
  <2> DEFINE c == Cardinality(good)
  <2>7. Min({kept, c}) = IF c < kept THEN c ELSE kept
    BY <2>4, <2>6
  <2> HIDE DEF c
  <2>8. n <= c /\ c \in Nat /\ (n # kept => n = c)
    BY <2>4, <2>5 DEF c
  <2>9. n = Min({kept, c})
    BY <1>1, <2>7, <2>8
  <2> QED
    BY <2>9 DEF c
<1>10. ASSUME NEW k \in 1 .. n
       PROVE  Cardinality(BetterThan(good, points, at, best[k][2])) + 1 = k
  <2> DEFINE C == Cardinality(BetterThan(good, points, at, ref[k]))
  <2>1. C = k - 1
    BY <1>8 DEF BetterThan
  <2>2. C + 1 = k
    <3> HIDE DEF C
    <3> QED
      BY <1>1, <2>1
  <2> QED
    BY <1>5, <2>2
<1> QED
  BY <1>9, <1>10 DEF n

-----------------------------------------------------------------------------
(***************************************************************************)
(* The scores are numbers.                                                 *)
(***************************************************************************)
LEMMA ProductType ==
    ASSUME NEW a \in Int, NEW b \in Int
    PROVE  a * b \in Int
OBVIOUS

LEMMA DistanceType ==
    ASSUME NEW a, NEW b, a.at \in Nat, b.at \in Nat
    PROVE  Distance(a, b) \in Nat
BY DEF Distance

LEMMA ScoreType ==
    ASSUME NEW max \in Nat \ {0}, NEW d \in Nat
    PROVE  /\ geo_point_distance_score(d, max) \in Int
           /\ \A best, worst \in Int : ScoreAt(best, worst, max, d) \in Int
<1>1. geo_point_distance_score(d, max) \in Int
  <2>1. 6000 \div max \in Int /\ max - d \in Int
    OBVIOUS
  <2>2. (max - d) * (6000 \div max) \in Int
    BY <2>1, ProductType
  <2> QED
    BY <2>2 DEF geo_point_distance_score
<1>2. ASSUME NEW best \in Int, NEW worst \in Int
      PROVE  ScoreAt(best, worst, max, d) \in Int
  <2>1. (best - worst) * geo_point_distance_score(d, max) \in Int
    BY <1>1, ProductType
  <2>2. worst * 6000 \in Int
    OBVIOUS
  <2> QED
    BY <2>1, <2>2 DEF ScoreAt
<1> QED
  BY <1>1, <1>2

LEMMA PoiScoreType ==
    ASSUME NEW place, NEW know, NEW osm, place.at \in Nat, osm.at \in Nat
    PROVE  poi_score(place, know, osm) \in Int
<1>1. poi_factor(place, know, osm) \in Int
  <2>1. poi_evidence(place, know, osm) \in Int
    BY DEF poi_evidence, CONTACT_FACTOR, BRAND_NAME_FACTOR, BRAND_DOMAIN_FACTOR
  <2>2. \A a, b : category_factor(a, b) \in Int
    BY DEF category_factor, CATEGORY_PAIR_FACTOR
  <2>3. poi_evidence(place, know, osm)
        * category_factor(main_category(place.tags), main_category(osm.tags)) \in Int
    BY <2>1, <2>2, ProductType
  <2> QED
    BY <2>3 DEF poi_factor
<1>2. geo_point_distance_score(Distance(place, osm), POI_MAX_METERS) \in Int
  <2>1. POI_MAX_METERS \in Nat \ {0}
    BY DEF POI_MAX_METERS
  <2> QED
    BY <2>1, DistanceType, ScoreType
<1>3. poi_factor(place, know, osm) * geo_point_distance_score(Distance(place, osm), POI_MAX_METERS) \in Int
  BY <1>1, <1>2, ProductType
<1> QED
  BY <1>3 DEF poi_score

LEMMA TransitScoreType ==
    ASSUME NEW place, NEW osm, place.at \in Nat, osm.at \in Nat
    PROVE  transit_score(place, osm) \in Int
<1> DEFINE f == transit_factor(place, osm)
           fit == TransitFit(place, osm)
           refs == IF Kind(place.tags) \in {"platform", "stop_position"}
                   THEN local_ref_factor(local_refs(place.tags), local_refs(osm.tags))
                   ELSE 10
           evidence == compare_ids(Ids(place.tags), Ids(osm.tags))
           names == IF HasKey(place.tags, "name") /\ HasKey(osm.tags, "name")
                    THEN name_factor(Value(place.tags, "name"), Value(osm.tags, "name"))
                    ELSE 0
           None == \/ Kind(osm.tags) = "none" \/ fit = 0
                   \/ ~compatible(Modes(place.tags), Modes(osm.tags))
                   \/ evidence = "different"
           ById == [best |-> fit * 1000, worst |-> fit * 10 * SAME_ID_MIN_SCORE,
                    max |-> max_meters(place)]
           ByStop == [best |-> fit * refs * SAME_STOP_FACTOR, worst |-> 0, max |-> max_meters(place)]
           ByName == [best |-> fit * refs * names, worst |-> 0, max |-> NAME_MAX_METERS]
           Typed(g) == g.best \in Int /\ g.worst \in Int /\ g.max \in Nat \ {0}
<1>1. f = NoFactor \/ f = ById \/ f = ByStop \/ f = ByName
  <2>1. f = IF None THEN NoFactor
            ELSE IF evidence = "same" THEN ById ELSE IF evidence = "same_stop" THEN ByStop ELSE ByName
    BY DEF transit_factor
  <2> HIDE DEF f, None, evidence, ById, ByStop, ByName
  <2> QED
    BY <2>1
<1>2. fit \in Int
  <2>1. \A k, o : Fit(k, o) \in Int
    BY DEF Fit
  <2> QED
    BY <2>1 DEF TransitFit
<1>3. refs \in Int
  <2>1. \A a, b : local_ref_factor(a, b) \in Int
    BY DEF local_ref_factor
  <2> QED
    BY <2>1
<1>4. names \in Int
  <2>1. \A a, b : name_factor(a, b) \in Int
    BY DEF name_factor, NAME_FACTOR, SHORT_NAME_FACTOR
  <2> QED
    BY <2>1
<1>5. max_meters(place) \in Nat \ {0}
  BY DEF max_meters
<1> HIDE DEF fit, refs, names
<1>6. fit * refs \in Int
  BY <1>2, <1>3, ProductType
<1>7. fit * refs * names \in Int /\ fit * refs * SAME_STOP_FACTOR \in Int
  BY <1>4, <1>6, ProductType DEF SAME_STOP_FACTOR
<1>8. Typed(NoFactor)
  BY DEF NoFactor
<1>9. Typed(ById)
  BY <1>2, <1>5 DEF SAME_ID_MIN_SCORE
<1>10. Typed(ByStop)
  BY <1>5, <1>7
<1>11. Typed(ByName)
  BY <1>7 DEF NAME_MAX_METERS
<1> HIDE DEF f, ById, ByStop, ByName, Typed
<1>12. Typed(f)
  BY <1>1, <1>8, <1>9, <1>10, <1>11
<1>13. ScoreAt(f.best, f.worst, f.max, Distance(place, osm)) \in Int
  BY <1>12, DistanceType, ScoreType DEF Typed
<1> QED
  BY <1>13 DEF transit_score, f

LEMMA SettingsType ==
    ASSUME NEW place
    PROVE  settings(place).max \in Nat \ {0}
BY DEF settings, for_spider, Setting

LEMMA ConfirmedIsFinite ==
    ASSUME NEW place, NEW osm
    PROVE  Cardinality(Confirmed(place, osm)) \in {0, 1}
<1> DEFINE C == Confirmed(place, osm)
           keys == confirming_keys(infrastructure_kind(place.tags))
<1>1. C \subseteq keys
  BY DEF Confirmed
<1>2. keys = {} \/ \E key : keys = {key}
  BY DEF confirming_keys
<1>3. C = {} \/ \E key : C = {key}
  BY <1>1, <1>2
<1> HIDE DEF C
<1> QED
  BY <1>3, FS_EmptySet, FS_Singleton DEF C

LEMMA InfrastructureScoreType ==
    ASSUME NEW place, NEW osm, place.at \in Nat, osm.at \in Nat
    PROVE  infrastructure_score(place, osm) \in Int
<1> DEFINE f == infrastructure_factor(place, osm)
           c == Cardinality(Confirmed(place, osm))
<1>1. c \in Int
  BY ConfirmedIsFinite
<1> HIDE DEF c
<1>2. f.best \in Int /\ f.worst \in Int
  <2>1. KIND_FACTOR + CONFIRM_BONUS * (c + (IF StreetInRef(place, osm) THEN 1 ELSE 0)) \in Int
    BY <1>1 DEF KIND_FACTOR, CONFIRM_BONUS
  <2> QED
    BY <2>1 DEF infrastructure_factor, SAME_REF_MIN_SCORE, c
<1> HIDE DEF f
<1>3. ScoreAt(f.best, f.worst, settings(place).max, Distance(place, osm)) \in Int
  BY <1>2, SettingsType, DistanceType, ScoreType
<1> QED
  BY <1>3 DEF infrastructure_score, f

LEMMA CandidateScoreType ==
    ASSUME NEW place, NEW know, NEW osm, place.at \in Nat, osm.at \in Nat,
           create_matcher(place, know) # "none"
    PROVE  score_osm_candidate(place, know, osm) \in Int
<1>1. create_matcher(place, know) \in {"poi", "transit", "infrastructure"}
  BY DEF create_matcher
<1> QED
  BY <1>1, PoiScoreType, TransitScoreType, InfrastructureScoreType DEF score_osm_candidate

LEMMA RadiusType ==
    ASSUME NEW place, NEW know
    PROVE  search_radius(place, know) \in Nat
BY SettingsType DEF search_radius, match_distance

-----------------------------------------------------------------------------
(***************************************************************************)
(* What scores mean.                                                       *)
(***************************************************************************)
Maxima == {10, 15, 20, 30, 50, 100, 400, 1000}

\* A score is between that of the best and that of the worst.
LEMMA ScoreBounds ==
    ASSUME NEW max \in Maxima, NEW d \in Nat, NEW best \in Nat, NEW worst \in 0 .. best
    PROVE  /\ ScoreAt(best, worst, max, d) <= 6000 * best
           /\ ScoreAt(best, worst, max, d) > 0 => 6000 * worst <= ScoreAt(best, worst, max, d)
<1> DEFINE near == geo_point_distance_score(d, max)
<1>1. near \in 0 .. 6000
  <2>1. near = IF d <= max THEN (max - d) * (6000 \div max) ELSE 0
    BY DEF geo_point_distance_score
  <2> HIDE DEF near
  <2>2. CASE d > max
    <3>1. max \in Nat
      BY DEF Maxima
    <3>2. near = 0
      BY <2>1, <2>2, <3>1
    <3> QED
      BY <3>2
  <2>3. CASE d <= max
    <3>1. \/ max = 10 /\ near = (10 - d) * 600
          \/ max = 15 /\ near = (15 - d) * 400
          \/ max = 20 /\ near = (20 - d) * 300
          \/ max = 30 /\ near = (30 - d) * 200
          \/ max = 50 /\ near = (50 - d) * 120
          \/ max = 100 /\ near = (100 - d) * 60
          \/ max = 400 /\ near = (400 - d) * 15
          \/ max = 1000 /\ near = (1000 - d) * 6
      BY <2>1, <2>3 DEF Maxima
    <3> QED
      BY <2>3, <3>1
  <2> QED
    BY <2>2, <2>3 DEF Maxima
<1> HIDE DEF near
<1>2. \A x, y \in Nat : y <= 6000 => 0 <= x * y /\ x * y <= 6000 * x
  <2> SUFFICES ASSUME NEW x \in Nat, NEW y \in Nat, y <= 6000
               PROVE  0 <= x * y /\ x * y <= 6000 * x
    OBVIOUS
  <2>1. x * y \in Int /\ x * (6000 - y) \in Int
    BY ProductType
  <2>2. x * y >= 0 /\ x * (6000 - y) >= 0
    OBVIOUS
  <2>3. x * y + x * (6000 - y) = 6000 * x
    OBVIOUS
  <2> QED
    BY <2>1, <2>2, <2>3
<1>3. (best - worst) * near >= 0 /\ (best - worst) * near <= 6000 * (best - worst)
  <2>1. best - worst \in Nat /\ near \in Nat /\ near <= 6000
    BY <1>1
  <2> QED
    BY <1>2, <2>1
<1>4. (best - worst) * near \in Int
  BY <1>1, ProductType
<1>5. ScoreAt(best, worst, max, d) = 0
      \/ ScoreAt(best, worst, max, d) = worst * 6000 + (best - worst) * near
  BY DEF ScoreAt, near
<1> QED
  BY <1>3, <1>4, <1>5

\* What a name or a stop is worth at most.
LEMMA NamePoints ==
    ASSUME NEW g \in 0 .. 100, NEW n \in {0, 35, 40}, NEW best \in {g * 80, g * n}
    PROVE  best \in Nat /\ best <= 8000
<1>1. g * 80 \in Nat /\ g * 80 <= 8000
  OBVIOUS
<1>2. CASE n = 0
  BY <1>1, <1>2
<1>3. CASE n = 35
  BY <1>1, <1>3
<1>4. CASE n = 40
  BY <1>1, <1>4
<1> QED
  BY <1>2, <1>3, <1>4

\* Whose id is that of the place is worth more than any other.
LEMMA TransitScoreBounds ==
    ASSUME NEW place, NEW osm, place.at \in Nat, osm.at \in Nat, transit_score(place, osm) > 0
    PROVE  /\ compare_ids(Ids(place.tags), Ids(osm.tags)) # "different"
           /\ IF compare_ids(Ids(place.tags), Ids(osm.tags)) = "same"
              THEN transit_score(place, osm) >= 6000 * 8100
              ELSE transit_score(place, osm) <= 6000 * 8000
<1> DEFINE f == transit_factor(place, osm)
           fit == TransitFit(place, osm)
           refs == IF Kind(place.tags) \in {"platform", "stop_position"}
                   THEN local_ref_factor(local_refs(place.tags), local_refs(osm.tags))
                   ELSE 10
           evidence == compare_ids(Ids(place.tags), Ids(osm.tags))
           names == IF HasKey(place.tags, "name") /\ HasKey(osm.tags, "name")
                    THEN name_factor(Value(place.tags, "name"), Value(osm.tags, "name"))
                    ELSE 0
           None == \/ Kind(osm.tags) = "none" \/ fit = 0
                   \/ ~compatible(Modes(place.tags), Modes(osm.tags))
                   \/ evidence = "different"
           ById == [best |-> fit * 1000, worst |-> fit * 10 * SAME_ID_MIN_SCORE,
                    max |-> max_meters(place)]
           ByStop == [best |-> fit * refs * SAME_STOP_FACTOR, worst |-> 0, max |-> max_meters(place)]
           ByName == [best |-> fit * refs * names, worst |-> 0, max |-> NAME_MAX_METERS]
           points == ScoreAt(f.best, f.worst, f.max, Distance(place, osm))
<1>1. f = IF None THEN NoFactor
          ELSE IF evidence = "same" THEN ById ELSE IF evidence = "same_stop" THEN ByStop ELSE ByName
  BY DEF transit_factor
<1>2. points = transit_score(place, osm) /\ points > 0
  BY DEF transit_score
<1>3. fit \in {0, 9, 10}
  <2>1. \A k, o : Fit(k, o) \in {0, 9, 10}
    BY DEF Fit
  <2> QED
    BY <2>1 DEF TransitFit
<1>4. refs \in {0, 6, 8, 10}
  <2>1. \A a, b : local_ref_factor(a, b) \in {0, 6, 8, 10}
    BY DEF local_ref_factor
  <2> QED
    BY <2>1
<1>5. names \in {0, 35, 40}
  <2>1. \A a, b : name_factor(a, b) \in {0, 35, 40}
    BY DEF name_factor, NAME_FACTOR, SHORT_NAME_FACTOR
  <2> QED
    BY <2>1
<1>6. max_meters(place) \in Maxima /\ Distance(place, osm) \in Nat
  BY DistanceType DEF max_meters, Maxima
<1> HIDE DEF fit, refs, names, evidence
<1>7. ~None
  <2>1. CASE None
    <3>1. f = NoFactor
      BY <1>1, <2>1
    <3> HIDE DEF f
    <3>2. points = 0
      BY <3>1 DEF NoFactor, ScoreAt
    <3> QED
      BY <1>2, <3>2
  <2> QED
    BY <2>1
<1>8. fit \in {9, 10} /\ evidence # "different"
  BY <1>3, <1>7
<1> HIDE DEF None
<1>9. CASE evidence = "same"
  <2>1. f.best = fit * 1000 /\ f.worst = fit * 900 /\ f.max \in Maxima
    BY <1>1, <1>6, <1>7, <1>8, <1>9 DEF SAME_ID_MIN_SCORE
  <2> HIDE DEF f
  <2>2. f.best \in Nat /\ f.worst \in 0 .. f.best /\ f.worst >= 8100
    BY <1>8, <2>1
  <2>3. points > 0 => 6000 * f.worst <= points
    <3>1. /\ f.max \in Maxima /\ Distance(place, osm) \in Nat
          /\ f.best \in Nat /\ f.worst \in 0 .. f.best
      BY <1>6, <2>1, <2>2
    <3> QED
      BY <3>1, ScoreBounds
  <2>4. points \in Int
    <3>1. /\ f.max \in Nat \ {0} /\ Distance(place, osm) \in Nat
          /\ f.best \in Int /\ f.worst \in Int
      BY <1>6, <2>1, <2>2 DEF Maxima
    <3>2. \A best, worst \in Int : ScoreAt(best, worst, f.max, Distance(place, osm)) \in Int
      BY <3>1, ScoreType
    <3> QED
      BY <3>1, <3>2
  <2> HIDE DEF points
  <2> QED
    BY <1>2, <1>8, <1>9, <2>2, <2>3, <2>4 DEF evidence
<1>10. CASE evidence # "same"
  <2>1. /\ f.best \in {fit * refs * SAME_STOP_FACTOR, fit * refs * names}
        /\ f.worst = 0 /\ f.max \in Maxima
    BY <1>1, <1>6, <1>7, <1>10 DEF NAME_MAX_METERS, Maxima
  <2> HIDE DEF f
  <2>2. f.best \in Nat /\ f.best <= 8000
    <3>1. fit * refs \in 0 .. 100
      BY <1>4, <1>8
    <3> DEFINE g == fit * refs
    <3>2. g \in 0 .. 100
      BY <3>1
    <3>3. f.best \in {g * 80, g * names}
      BY <2>1 DEF SAME_STOP_FACTOR
    <3> HIDE DEF g
    <3> QED
      BY <1>5, <3>2, <3>3, NamePoints
  <2>3. points <= 6000 * f.best
    <3>1. f.worst \in 0 .. f.best
      BY <2>1, <2>2
    <3> QED
      BY <1>6, <2>1, <2>2, <3>1, ScoreBounds
  <2>4. points \in Int
    <3>1. /\ f.max \in Nat \ {0} /\ Distance(place, osm) \in Nat
          /\ f.best \in Int /\ f.worst \in Int
      BY <1>6, <2>1, <2>2 DEF Maxima
    <3>2. \A best, worst \in Int : ScoreAt(best, worst, f.max, Distance(place, osm)) \in Int
      BY <3>1, ScoreType
    <3> QED
      BY <3>1, <3>2
  <2> HIDE DEF points
  <2> QED
    BY <1>2, <1>8, <1>10, <2>2, <2>3, <2>4 DEF evidence
<1> QED
  BY <1>9, <1>10

\* Whose reference is that of the place is worth more than any other.
LEMMA InfrastructureScoreBounds ==
    ASSUME NEW place, NEW osm, place.at \in Nat, osm.at \in Nat, infrastructure_score(place, osm) > 0
    PROVE  IF SameReference(place, osm)
           THEN infrastructure_score(place, osm) >= 6000 * SAME_REF_MIN_SCORE
           ELSE infrastructure_score(place, osm) <= 6000 * 8800
<1> DEFINE f == infrastructure_factor(place, osm)
           c == Cardinality(Confirmed(place, osm))
           max == settings(place).max
           d == Distance(place, osm)
           points == ScoreAt(f.best, f.worst, max, d)
<1>1. c \in {0, 1} /\ d \in Nat /\ max \in Maxima
  <2>1. max \in Maxima
    BY DEF Maxima, settings, for_spider, Setting
  <2> QED
    BY <2>1, ConfirmedIsFinite, DistanceType
<1>2. points = infrastructure_score(place, osm) /\ points > 0
  BY DEF infrastructure_score
<1> HIDE DEF c, d, max
<1>3. f.best # 0
  <2> HIDE DEF f
  <2> QED
    BY <1>2 DEF ScoreAt
<1>4. CASE SameReference(place, osm)
  <2>1. f = [best |-> 10000, worst |-> SAME_REF_MIN_SCORE]
    BY <1>3, <1>4 DEF infrastructure_factor
  <2> HIDE DEF f
  <2>2. f.best = 10000 /\ f.worst = 9000
    BY <2>1 DEF SAME_REF_MIN_SCORE
  <2>3. points > 0 => 6000 * f.worst <= points
    <3>1. f.best \in Nat /\ f.worst \in 0 .. f.best
      BY <2>2
    <3> QED
      BY <1>1, <3>1, ScoreBounds
  <2> HIDE DEF points
  <2> QED
    BY <1>2, <1>4, <2>2, <2>3 DEF SAME_REF_MIN_SCORE
<1>5. CASE ~SameReference(place, osm)
  <2>1. f = [best |-> KIND_FACTOR
                      + CONFIRM_BONUS * (c + (IF StreetInRef(place, osm) THEN 1 ELSE 0)),
             worst |-> 0]
    BY <1>3, <1>5 DEF infrastructure_factor, c
  <2> HIDE DEF f
  <2>2. f.best \in Nat /\ f.best <= 8800 /\ f.worst = 0
    BY <1>1, <2>1 DEF KIND_FACTOR, CONFIRM_BONUS
  <2>3. points <= 6000 * f.best
    <3>1. f.worst \in 0 .. f.best
      BY <2>2
    <3> QED
      BY <1>1, <2>2, <3>1, ScoreBounds
  <2>4. points \in Int
    <3>1. max \in Nat \ {0} /\ f.worst \in Int /\ f.best \in Int
      BY <1>1, <2>2 DEF Maxima
    <3> QED
      BY <1>1, <3>1, ScoreType
  <2> HIDE DEF points
  <2> QED
    BY <1>2, <1>5, <2>2, <2>3, <2>4
<1> QED
  BY <1>4, <1>5

-----------------------------------------------------------------------------
(***************************************************************************)
(* Importance.                                                             *)
(***************************************************************************)
\* The signals: the views of all places, and the quantiles of brands.
AreSignals(signals) ==
    /\ \E S : signals.locations \in Seq(S)
    /\ IsFiniteSet(DOMAIN signals.brands)
    /\ \A id \in DOMAIN signals.brands : signals.brands[id] \in Int

LEMMA MidRankType ==
    ASSUME NEW S, NEW s \in Seq(S), NEW v
    PROVE  MidRank(s, v) \in Nat
<1> DEFINE below == {i \in DOMAIN s : s[i] < v}
           upto == {i \in DOMAIN s : s[i] <= v}
<1>1. IsFiniteSet(DOMAIN s)
  BY LenProperties, FS_Interval
<1>2. IsFiniteSet(below) /\ IsFiniteSet(upto)
  BY <1>1, FS_Subset
<1>3. Cardinality(below) \in Nat /\ Cardinality(upto) \in Nat
  BY <1>2, FS_CardinalityType
<1>4. MidRank(s, v) = Cardinality(below) + Cardinality(upto)
  BY DEF MidRank, CountWhere
<1> HIDE DEF below, upto
<1> QED
  BY <1>3, <1>4

LEMMA TenthsType ==
    ASSUME NEW S, NEW s \in Seq(S), NEW v
    PROVE  Tenths(s, v) \in Int
<1>1. CASE s = <<>>
  BY <1>1 DEF Tenths
<1>2. CASE s # <<>>
  <2>1. MidRank(s, v) \in Nat
    BY MidRankType
  <2>2. Len(s) \in Nat \ {0}
    BY <1>2, LenProperties, EmptySeq
  <2>3. Tenths(s, v) = (10 * MidRank(s, v)) \div (2 * Len(s))
    BY <1>2 DEF Tenths
  <2>4. \A a \in Nat, b \in Nat \ {0} : a \div b \in Int
    OBVIOUS
  <2>5. 10 * MidRank(s, v) \in Nat /\ 2 * Len(s) \in Nat \ {0}
    BY <2>1, <2>2
  <2> QED
    BY <2>3, <2>4, <2>5
<1> QED
  BY <1>1, <1>2

\* Sorted by whatever order, a sequence is one.
LEMMA SortedIsSeq ==
    ASSUME NEW S, NEW s \in Seq(S)
    PROVE  /\ \E R : SortBy(s, <) \in Seq(R)
           /\ \E R : SortBy(s, LAMBDA a, b : a[1] < b[1]) \in Seq(R)
<1>1. DOMAIN s = 1 .. Len(s) /\ Len(s) \in Nat
  BY LenProperties
<1>2. ASSUME NEW t, t = [k \in DOMAIN s |-> t[k]]
      PROVE  \E R : t \in Seq(R)
  <2>1. t \in [1 .. Len(s) -> {t[k] : k \in DOMAIN s}]
    BY <1>1, <1>2
  <2>2. t \in Seq({t[k] : k \in DOMAIN s})
    BY <1>1, <2>1, SeqDef
  <2> QED
    BY <2>2
<1>3. SortBy(s, <) = [k \in DOMAIN s |-> SortBy(s, <)[k]]
  BY DEF SortBy
<1>4. SortBy(s, LAMBDA a, b : a[1] < b[1]) = [k \in DOMAIN s |-> SortBy(s, LAMBDA a, b : a[1] < b[1])[k]]
  BY DEF SortBy
<1> QED
  BY <1>2, <1>3, <1>4

LEMMA SetToSeqIsSeq ==
    ASSUME NEW S, IsFiniteSet(S)
    PROVE  SetToSeq(S) \in Seq(S) /\ ToSet(SetToSeq(S)) = S
<1> DEFINE n == Cardinality(S)
<1>1. n \in Nat
  BY FS_CardinalityType
<1>2. PICK f : f \in Bijection(1 .. n, S)
  <2>1. ExistsBijection(1 .. n, S)
    BY FS_NatBijection, FS_CountingElements, FS_CardinalityType
  <2> QED
    BY <2>1 DEF ExistsBijection
<1>3. f \in [1 .. n -> S] /\ IsInjective(f)
  <2>1. f \in [1 .. n -> S] /\ \A a, b \in 1 .. n : f[a] = f[b] => a = b
    BY <1>2 DEF Bijection, Injection, IsInjective
  <2> QED
    BY <2>1 DEF IsInjective
<1>4. SetToSeq(S) \in [1 .. n -> S] /\ IsInjective(SetToSeq(S))
  BY <1>3 DEF SetToSeq
<1> DEFINE e == SetToSeq(S)
           I == {e[k] : k \in 1 .. n}
<1>5. IsFiniteSet(1 .. n) /\ Cardinality(1 .. n) = n
  BY <1>1, FS_Interval, FS_CountingElements
<1>6. e \in [1 .. n -> S] /\ \A a, b \in 1 .. n : e[a] = e[b] => a = b
  BY <1>4 DEF IsInjective
<1> HIDE DEF e
<1>8. e \in [1 .. n -> I] /\ \A t \in I : \E k \in 1 .. n : e[k] = t
  BY <1>6
<1>9. I \in SUBSET S
  BY <1>6
<1> HIDE DEF I, n
<1>10. Cardinality(I) = n
  BY <1>5, <1>6, <1>8, ImageIsFinite
<1>7. ToSet(e) = S
  <2>1. I = S
    BY <1>9, <1>10, FS_Subset DEF n
  <2> QED
    BY <1>6, <2>1 DEF ToSet, I
<1> QED
  BY <1>1, <1>6, <1>7, SeqDef DEF e, n

LEMMA SignalsType ==
    ASSUME NEW S, NEW places \in Seq(S), NEW features
    PROVE  AreSignals(open_signals(places, features))
<1> DEFINE views == [i \in DOMAIN places |-> Views(places[i].at)]
           ids == collect_wikidata_ids(places, features)
           pageviews == read_pageviews(ids)
           pairs == {<<pageviews[id], id>> : id \in DOMAIN pageviews}
           sorted == SortBy(SetToSeq(pairs), LAMBDA a, b : a[1] < b[1])
           ranks == [i \in DOMAIN sorted |-> sorted[i][1]]
<1>1. \E R : compute_osmviews_ranks(places) \in Seq(R)
  <2>1. DOMAIN places = 1 .. Len(places) /\ Len(places) \in Nat
    BY LenProperties
  <2>2. views \in [1 .. Len(places) -> {views[i] : i \in DOMAIN places}]
    BY <2>1
  <2>3. \E R : views \in Seq(R)
    BY <2>1, <2>2, SeqDef, ZenonT(60)
  <2>4. compute_osmviews_ranks(places) = SortBy(views, <)
    BY DEF compute_osmviews_ranks
  <2> HIDE DEF views
  <2> QED
    BY <2>3, <2>4, SortedIsSeq
<1>2. IsFiniteSet(DOMAIN pageviews)
  BY QRankAssumption, FS_Intersection DEF read_pageviews
<1> HIDE DEF pageviews
<1>3. IsFiniteSet(pairs)
  <2> DEFINE pair == [id \in DOMAIN pageviews |-> <<pageviews[id], id>>]
  <2>1. pair \in [DOMAIN pageviews -> pairs] /\ \A p \in pairs : \E id \in DOMAIN pageviews : pair[id] = p
    OBVIOUS
  <2> HIDE DEF pair, pairs
  <2> QED
    BY <1>2, <2>1, ImageIsFinite
<1> HIDE DEF pairs
<1>4. \E R : sorted \in Seq(R)
  BY <1>3, SetToSeqIsSeq, SortedIsSeq
<1> HIDE DEF sorted
<1>5. \E R : ranks \in Seq(R)
  <2>1. DOMAIN sorted = 1 .. Len(sorted) /\ Len(sorted) \in Nat
    BY <1>4, LenProperties
  <2>2. ranks \in [1 .. Len(sorted) -> {ranks[i] : i \in DOMAIN sorted}]
    BY <2>1
  <2> QED
    BY <2>1, <2>2, SeqDef, ZenonT(60)
<1>6. compute_qrank_quantiles(ids) = [id \in DOMAIN pageviews |-> Tenths(ranks, pageviews[id])]
  BY DEF compute_qrank_quantiles, pageviews, pairs, sorted
<1> HIDE DEF ranks, ids
<1>7. \A id \in DOMAIN pageviews : Tenths(ranks, pageviews[id]) \in Int
  BY <1>5, TenthsType
<1>8. /\ open_signals(places, features).locations = compute_osmviews_ranks(places)
      /\ open_signals(places, features).brands = compute_qrank_quantiles(ids)
  BY DEF open_signals, ids
<1> QED
  BY <1>1, <1>2, <1>6, <1>7, <1>8 DEF AreSignals

LEMMA ImportanceOfMask ==
    ASSUME NEW tags
    PROVE  importance(Mask(tags)) \in Int
<1> DEFINE bits == Mask(tags) \cap CATEGORY_BITS
           of == {CATEGORY_IMPORTANCE[bit] : bit \in bits}
<1>1. \A bit \in CATEGORY_BITS : \E k \in 1 .. 9 : bit = BITS[k]
  <2>1. DOMAIN BITS = 1 .. 11 /\ BITS = [k \in 1 .. 11 |-> BITS[k]]
    BY DEF BITS
  <2> HIDE DEF BITS
  <2>2. SubSeq(BITS, 1, 9) = [k \in 1 .. 9 |-> BITS[k]]
    <3>1. BITS \in [1 .. 11 -> {BITS[k] : k \in 1 .. 11}]
      BY <2>1
    <3> DEFINE R == {BITS[k] : k \in 1 .. 11}
    <3> HIDE DEF R
    <3>3. BITS \in Seq(R)
      BY <3>1, 11 \in Nat, SeqDef DEF R
    <3>2. BITS \in Seq(R) /\ Len(BITS) = 11
      BY <2>1, <3>3, LenProperties
    <3> QED
      BY <3>2, SubSeqProperties
  <2> QED
    BY <2>2 DEF CATEGORY_BITS, ToSet
<1>2. \A bit \in CATEGORY_BITS : CATEGORY_IMPORTANCE[bit] \in 1 .. 8
  <2>1. \A k \in 1 .. 9 : BITS[k] \in {"SHOP", "RESTAURANT", "LODGING", "SCHOOL", "TRANSIT",
                                       "PARKING", "FUEL", "SHRUBBERY", "STREET_FURNITURE"}
    BY DEF BITS
  <2>2. \A bit \in {"SHOP", "RESTAURANT", "LODGING", "SCHOOL", "TRANSIT", "PARKING", "FUEL",
                     "SHRUBBERY", "STREET_FURNITURE"} : CATEGORY_IMPORTANCE[bit] \in 1 .. 8
    BY DEF CATEGORY_IMPORTANCE
  <2> QED
    BY <1>1, <2>1, <2>2
<1>3. of \in SUBSET (1 .. 8)
  BY <1>2
<1>4. CASE bits # {}
  <2>1. of # {} /\ IsFiniteSet(of) /\ of \in SUBSET Int
    <3>4. IsFiniteSet(1 .. 8)
      BY FS_Interval, 1 \in Int, 8 \in Int, Zenon
    <3>1. IsFiniteSet(1 .. 8) /\ 1 .. 8 \subseteq Int
      BY <3>4
    <3>2. of # {}
      BY <1>4
    <3> HIDE DEF of
    <3> QED
      BY <1>3, <3>1, <3>2, FS_Subset
  <2> HIDE DEF of
  <2>2. Max(of) \in Int
    BY <2>1, LeastAndGreatest
  <2> QED
    BY <1>4, <2>2 DEF importance, of
<1> QED
  BY <1>4 DEF importance

\* The importance of a row before its rank among all of them is known.
LEMMA ImportanceType ==
    ASSUME NEW signals, AreSignals(signals)
    PROVE  /\ \A place, tags : score(signals, place, tags) \in Int
           /\ \A feature : score_osm(signals, feature) \in Int
<1>1. ASSUME NEW tags
      PROVE  brand_quantile(signals, tags) = {} \/ \E b \in Int : brand_quantile(signals, tags) = {b}
  <2> DEFINE ids == WikidataIds(tags) \cap DOMAIN signals.brands
             of == {signals.brands[id] : id \in ids}
  <2>1. IsFiniteSet(ids) /\ \A id \in ids : signals.brands[id] \in Int
    BY FS_Intersection DEF AreSignals
  <2>2. IsFiniteSet(of) /\ of \in SUBSET Int /\ (ids # {} => of # {})
    <3>1. of \in SUBSET Int /\ (ids # {} => of # {})
      BY <2>1
    <3> DEFINE f == [id \in ids |-> signals.brands[id]]
    <3>2. f \in [ids -> of] /\ \A b \in of : \E id \in ids : f[id] = b
      OBVIOUS
    <3> HIDE DEF ids, of, f
    <3>3. IsFiniteSet(of)
      BY <2>1, <3>2, ImageIsFinite
    <3> QED
      BY <3>1, <3>3
  <2>3. brand_quantile(signals, tags) = IF ids = {} THEN {} ELSE {Max(of)}
    BY DEF brand_quantile
  <2> HIDE DEF ids, of
  <2>4. ids # {} => Max(of) \in Int
    BY <2>2, LeastAndGreatest
  <2> QED
    BY <2>3, <2>4
<1>2. ASSUME NEW location \in Int, NEW brand, NEW category \in Int,
             brand = {} \/ \E b \in Int : brand = {b}
      PROVE  Weighted(location, brand, category) \in Int
  <2>1. CASE brand = {}
    BY <2>1 DEF Weighted, LOCATION_WEIGHT, BRAND_WEIGHT, CATEGORY_WEIGHT
  <2>2. CASE brand # {}
    <3>1. PICK b \in Int : brand = {b}
      BY <1>2, <2>2
    <3> DEFINE w == CHOOSE x \in brand : TRUE
    <3>2. w = b
      BY <3>1
    <3>3. Weighted(location, brand, category) = (4 + 3) * (4 * location + 3 * category + 3 * w)
      BY <2>2 DEF Weighted, LOCATION_WEIGHT, BRAND_WEIGHT, CATEGORY_WEIGHT
    <3> HIDE DEF w
    <3> QED
      BY <3>2, <3>3
  <2> QED
    BY <2>1, <2>2
<1>3. \A v : Tenths(signals.locations, v) \in Int
  BY TenthsType DEF AreSignals
<1>4. ASSUME NEW place, NEW tags
      PROVE  score(signals, place, tags) \in Int
  <2> DEFINE own == brand_quantile(signals, place.tags)
             brand == IF own # {} THEN own ELSE brand_quantile(signals, tags)
  <2>1. brand = {} \/ \E b \in Int : brand = {b}
    BY <1>1
  <2>2. score(signals, place, tags) =
          Weighted(Tenths(signals.locations, Views(place.at)), brand, importance(Mask(place.tags)))
    BY DEF score
  <2> HIDE DEF brand
  <2> QED
    BY <1>2, <1>3, <2>1, <2>2, ImportanceOfMask
<1>5. ASSUME NEW feature
      PROVE  score_osm(signals, feature) \in Int
  <2>1. score_osm(signals, feature) =
          Weighted(Tenths(signals.locations, Views(feature.at)),
                   brand_quantile(signals, feature.tags), importance(Mask(feature.tags)))
    BY DEF score_osm
  <2> QED
    BY <1>1, <1>2, <1>3, <2>1, ImportanceOfMask
<1> QED
  BY <1>4, <1>5

\* Of pairs of numbers up to n: those in the first k columns, and one column.
InColumns(R, p, k) == {q \in R : \E i \in 1 .. k : q[2] = p[i]}
Column(R, n, i) == {j \in 1 .. n : <<j, i>> \in R}

\* An order of the numbers up to n, and a set of pairs of them.
IsOrder(p, n) == p \in [1 .. n -> 1 .. n] /\ \A i, j \in 1 .. n : p[i] = p[j] => i = j
InSquare(R, n) == R \subseteq (1 .. n) \X (1 .. n)

LEMMA OneColumnMore ==
    ASSUME NEW n \in Nat, NEW R, InSquare(R, n), NEW p, IsOrder(p, n),
           NEW k \in Nat, k + 1 \in 1 .. n
    PROVE  /\ Cardinality(InColumns(R, p, k)) \in Nat
           /\ Cardinality(Column(R, n, p[k + 1])) \in Nat
           /\ Cardinality(InColumns(R, p, k + 1)) =
                 Cardinality(InColumns(R, p, k)) + Cardinality(Column(R, n, p[k + 1]))
<1> DEFINE c == p[k + 1]
           column == {q \in R : q[2] = c}
           col == Column(R, n, c)
           f == [j \in col |-> <<j, c>>]
<1> USE DEF IsOrder, InSquare
<1>1. IsFiniteSet(1 .. n) /\ IsFiniteSet(R)
  <2>1. IsFiniteSet(1 .. n)
    BY FS_Interval, 1 \in Int, n \in Int, Zenon
  <2>2. IsFiniteSet((1 .. n) \X (1 .. n))
    BY <2>1, FS_Product
  <2> QED
    BY <2>1, <2>2, FS_Subset
<1>2. IsFiniteSet(InColumns(R, p, k)) /\ IsFiniteSet(column) /\ IsFiniteSet(col)
  BY <1>1, FS_Subset DEF InColumns, Column
<1>3. Cardinality(column) = Cardinality(col)
  <2>1. f \in [col -> column]
    BY DEF Column
  <2>2. \A q \in column : \E j \in col : f[j] = q
    <3>1. ASSUME NEW q \in column
          PROVE  q = <<q[1], c>> /\ q[1] \in col
      <4>1. q \in R /\ q[2] = c
        OBVIOUS
      <4>2. q = <<q[1], q[2]>> /\ q[1] \in 1 .. n
        BY <4>1
      <4>3. <<q[1], c>> \in R
        BY <4>1, <4>2
      <4> QED
        BY <4>1, <4>2, <4>3 DEF Column
    <3> HIDE DEF col, column
    <3> QED
      BY <3>1
  <2>3. \A i, j \in col : f[i] = f[j] => i = j
    OBVIOUS
  <2> HIDE DEF f, col, column
  <2> QED
    BY <1>2, <2>1, <2>2, <2>3, ImageIsFinite
<1>4. InColumns(R, p, k + 1) = InColumns(R, p, k) \cup column
  <2>1. 1 .. k + 1 = (1 .. k) \cup {k + 1}
    OBVIOUS
  <2> QED
    BY <2>1 DEF InColumns
<1>5. InColumns(R, p, k) \cap column = {}
  <2>1. \A i \in 1 .. k : p[i] # c
    OBVIOUS
  <2> QED
    BY <2>1 DEF InColumns
<1> HIDE DEF column, col, f, c
<1>6. /\ Cardinality(InColumns(R, p, k)) \in Nat /\ Cardinality(column) \in Nat
      /\ Cardinality(InColumns(R, p, k + 1)) = Cardinality(InColumns(R, p, k)) + Cardinality(column)
  <2> DEFINE left == InColumns(R, p, k)
  <2>1. IsFiniteSet(left) /\ IsFiniteSet(column) /\ left \cap column = {}
    BY <1>2, <1>5
  <2>2. Cardinality(left) \in Nat /\ Cardinality(column) \in Nat /\ Cardinality({}) = 0
    BY <2>1, FS_CardinalityType, FS_EmptySet
  <2> HIDE DEF left
  <2>3. Cardinality(left \cup column) = Cardinality(left) + Cardinality(column) - Cardinality(left \cap column)
    BY <2>1, FS_Union
  <2>6. Cardinality(left \cap column) = 0
    BY <2>1, <2>2, Zenon
  <2>4. Cardinality(left \cup column) = Cardinality(left) + Cardinality(column)
    BY <2>2, <2>3, <2>6
  <2>5. InColumns(R, p, k + 1) = left \cup column
    BY <1>4 DEF left
  <2> QED
    BY <2>2, <2>4, <2>5 DEF left
<1> QED
  BY <1>3, <1>6 DEF col, c

\* Of any two numbers at most one is less than the other.
LEMMA LessOrNot ==
    ASSUME NEW n \in Nat, NEW s \in [1 .. n -> Int]
    PROVE  LET less == {q \in (1 .. n) \X (1 .. n) : s[q[1]] < s[q[2]]}
               upto == {q \in (1 .. n) \X (1 .. n) : s[q[1]] <= s[q[2]]}
           IN  Cardinality(less) + Cardinality(upto) = n * n
<1> DEFINE all == (1 .. n) \X (1 .. n)
           less == {q \in all : s[q[1]] < s[q[2]]}
           upto == {q \in all : s[q[1]] <= s[q[2]]}
           more == {q \in all : s[q[2]] < s[q[1]]}
           swap == [q \in less |-> <<q[2], q[1]>>]
<1>1. IsFiniteSet(all) /\ Cardinality(all) = n * n
  <2>1. IsFiniteSet(1 .. n) /\ Cardinality(1 .. n) = IF 1 > n THEN 0 ELSE n - 1 + 1
    BY FS_Interval, 1 \in Int, n \in Int, Zenon
  <2>2. Cardinality(1 .. n) = n
    BY <2>1
  <2>3. IsFiniteSet(all) /\ Cardinality(all) = Cardinality(1 .. n) * Cardinality(1 .. n)
    BY <2>1, FS_Product
  <2> HIDE DEF all
  <2> QED
    BY <2>2, <2>3, Zenon
<1>2. IsFiniteSet(less) /\ IsFiniteSet(upto) /\ IsFiniteSet(more)
  BY <1>1, FS_Subset
<1>3. Cardinality(more) = Cardinality(less)
  <2>1. swap \in [less -> more]
    OBVIOUS
  <2>2. \A q \in more : <<q[2], q[1]>> \in less /\ swap[<<q[2], q[1]>>] = q
    OBVIOUS
  <2>3. \A q, r \in less : swap[q] = swap[r] => q = r
    OBVIOUS
  <2> HIDE DEF swap, less, more
  <2>4. \A q \in more : \E r \in less : swap[r] = q
    BY <2>2
  <2> QED
    BY <1>2, <2>1, <2>3, <2>4, ImageIsFinite
<1>4. all = more \cup upto /\ more \cap upto = {}
  <2>1. \A i \in 1 .. n : s[i] \in Int
    OBVIOUS
  <2> QED
    BY <2>1
<1> HIDE DEF all, less, upto, more
<1>5. Cardinality(all) = Cardinality(more) + Cardinality(upto)
  <2>1. Cardinality(more) \in Nat /\ Cardinality(upto) \in Nat /\ Cardinality({}) = 0
    BY <1>2, FS_CardinalityType, FS_EmptySet
  <2>2. Cardinality(more \cup upto) = Cardinality(more) + Cardinality(upto) - Cardinality(more \cap upto)
    BY <1>2, FS_Union
  <2>3. Cardinality(more \cap upto) = 0
    BY <1>4, <2>1, Zenon
  <2>4. Cardinality(all) = Cardinality(more \cup upto)
    BY <1>4, Zenon
  <2> QED
    BY <2>1, <2>2, <2>3, <2>4
<1>6. Cardinality(less) + Cardinality(upto) = n * n
  BY <1>1, <1>3, <1>5
<1> QED
  BY <1>6 DEF less, upto, all

\* The ranks of the first k of n numbers, taken in another order, added up.
AddsRanks(acc, n, s, p) ==
    acc[0] = 0 /\ \A k \in 1 .. n : acc[k] = acc[k - 1] + MidRank(s, s[p[k]])

\* The ranks among n numbers, taken in another order, are n on average.
LEMMA RanksAverage ==
    ASSUME NEW n \in Nat, NEW s \in [1 .. n -> Int], NEW p, IsOrder(p, n),
           NEW acc, AddsRanks(acc, n, s, p)
    PROVE  acc[n] = n * n
<1> DEFINE less == {q \in (1 .. n) \X (1 .. n) : s[q[1]] < s[q[2]]}
           upto == {q \in (1 .. n) \X (1 .. n) : s[q[1]] <= s[q[2]]}
           T == {k \in Nat : k <= n => acc[k] = Cardinality(InColumns(less, p, k))
                                                + Cardinality(InColumns(upto, p, k))}
<1>1. InSquare(less, n) /\ InSquare(upto, n)
  BY DEF InSquare
<1>2. \A k \in 1 .. n : MidRank(s, s[p[k]]) = Cardinality(Column(less, n, p[k]))
                                              + Cardinality(Column(upto, n, p[k]))
  <2> SUFFICES ASSUME NEW k \in 1 .. n
               PROVE  /\ {i \in DOMAIN s : s[i] < s[p[k]]} = Column(less, n, p[k])
                      /\ {i \in DOMAIN s : s[i] <= s[p[k]]} = Column(upto, n, p[k])
    BY DEF MidRank, CountWhere
  <2> QED
    BY DEF Column, IsOrder
<1> HIDE DEF less, upto
<1>3. 0 \in T
  <2>1. InColumns(less, p, 0) = {} /\ InColumns(upto, p, 0) = {}
    BY DEF InColumns
  <2>2. Cardinality(InColumns(less, p, 0)) = 0 /\ Cardinality(InColumns(upto, p, 0)) = 0
    BY <2>1, FS_EmptySet, Zenon
  <2> QED
    BY <2>2 DEF AddsRanks
<1>4. ASSUME NEW k \in Nat, k \in T
      PROVE  k + 1 \in T
  <2> SUFFICES ASSUME k + 1 <= n
               PROVE  acc[k + 1] = Cardinality(InColumns(less, p, k + 1))
                                   + Cardinality(InColumns(upto, p, k + 1))
    OBVIOUS
  <2>1. k + 1 \in 1 .. n /\ (k + 1) - 1 = k
    OBVIOUS
  <2>2. acc[k] = Cardinality(InColumns(less, p, k)) + Cardinality(InColumns(upto, p, k))
    BY <1>4
  <2>3. acc[k + 1] = acc[k] + (Cardinality(Column(less, n, p[k + 1]))
                               + Cardinality(Column(upto, n, p[k + 1])))
    BY <1>2, <2>1 DEF AddsRanks
  <2>4. /\ Cardinality(InColumns(less, p, k)) \in Nat
        /\ Cardinality(Column(less, n, p[k + 1])) \in Nat
        /\ Cardinality(InColumns(less, p, k + 1)) =
              Cardinality(InColumns(less, p, k)) + Cardinality(Column(less, n, p[k + 1]))
    BY <1>1, <2>1, OneColumnMore
  <2>5. /\ Cardinality(InColumns(upto, p, k)) \in Nat
        /\ Cardinality(Column(upto, n, p[k + 1])) \in Nat
        /\ Cardinality(InColumns(upto, p, k + 1)) =
              Cardinality(InColumns(upto, p, k)) + Cardinality(Column(upto, n, p[k + 1]))
    BY <1>1, <2>1, OneColumnMore
  <2> QED
    BY <2>2, <2>3, <2>4, <2>5
<1>5. n \in T
  <2> HIDE DEF T
  <2> QED
    BY <1>3, <1>4, Keeping!NumbersFrom0
<1>6. InColumns(less, p, n) = less /\ InColumns(upto, p, n) = upto
  <2>1. \A c \in 1 .. n : \E i \in 1 .. n : p[i] = c
    <3>1. p \in Injection(1 .. n, 1 .. n)
      BY Fun_IsInj DEF IsOrder
    <3>2. IsFiniteSet(1 .. n)
      BY FS_Interval, 1 \in Int, n \in Int, Zenon
    <3>3. p \in Surjection(1 .. n, 1 .. n)
      BY <3>1, <3>2, FS_Injection
    <3> QED
      BY <3>3 DEF Surjection
  <2> QED
    BY <1>1, <2>1 DEF InColumns, InSquare
<1>7. Cardinality(less) + Cardinality(upto) = n * n
  BY LessOrNot DEF less, upto
<1>8. acc[n] = Cardinality(less) + Cardinality(upto)
  BY <1>5, <1>6
<1> QED
  BY <1>7, <1>8

-----------------------------------------------------------------------------
(***************************************************************************)
(* Contacts that places far apart share.                                   *)
(***************************************************************************)
IsTags(tags) ==
    /\ tags \in Seq(ToSet(tags))
    /\ \A tag \in ToSet(tags) : tag[2] \in Seq(ToSet(tag[2]))

LEMMA ToSetIsFinite ==
    ASSUME NEW S, NEW s \in Seq(S)
    PROVE  IsFiniteSet(ToSet(s))
<1>1. DOMAIN s = 1 .. Len(s) /\ Len(s) \in Nat
  BY LenProperties
<1>2. IsFiniteSet(1 .. Len(s))
  BY <1>1, FS_Interval
<1>3. s \in [1 .. Len(s) -> ToSet(s)] /\ \A t \in ToSet(s) : \E i \in 1 .. Len(s) : s[i] = t
  BY <1>1, LenProperties DEF ToSet
<1> QED
  BY <1>2, <1>3, ImageIsFinite

LEMMA PartsAreFinite ==
    ASSUME NEW tags, IsTags(tags), NEW keys
    PROVE  IsFiniteSet(Parts(tags, keys))
<1> DEFINE D == {j \in DOMAIN tags : tags[j][1] \in keys}
           of == [i \in D |-> ToSet(tags[i][2])]
           I == {of[i] : i \in D}
<1>1. DOMAIN tags = 1 .. Len(tags) /\ Len(tags) \in Nat
  BY LenProperties DEF IsTags
<1>2. IsFiniteSet(DOMAIN tags)
  BY <1>1, FS_Interval
<1>3. IsFiniteSet(D)
  BY <1>2, FS_Subset
<1>4. IsFiniteSet(I)
  <2>1. of \in [D -> I] /\ \A t \in I : \E i \in D : of[i] = t
    OBVIOUS
  <2> HIDE DEF D, of, I
  <2> QED
    BY <1>3, <2>1, ImageIsFinite
<1>5. \A t \in I : IsFiniteSet(t)
  <2>1. \A i \in D : tags[i][2] \in Seq(ToSet(tags[i][2]))
    BY DEF IsTags, ToSet
  <2>2. \A i \in D : IsFiniteSet(ToSet(tags[i][2]))
    BY <2>1, ToSetIsFinite
  <2> QED
    BY <2>2
<1>6. Parts(tags, keys) = UNION I
  BY DEF Parts
<1> HIDE DEF I
<1> QED
  BY <1>4, <1>5, <1>6, FS_UNION

LEMMA SightingsAreFinite ==
    ASSUME NEW place, IsTags(place.tags)
    PROVE  IsFiniteSet(sightings(place))
<1> DEFINE Of(s) == {[signal |-> s, value |-> v, at |-> place.at] : v \in ContactValues(place.tags, s)}
<1>1. ASSUME NEW s
      PROVE  IsFiniteSet(Of(s))
  <2> DEFINE V == ContactValues(place.tags, s)
             f == [v \in V |-> [signal |-> s, value |-> v, at |-> place.at]]
  <2>1. IsFiniteSet(V)
    <3>1. V \subseteq Parts(place.tags, SIGNALS[s])
      BY DEF ContactValues, ParseValues
    <3> HIDE DEF V
    <3> QED
      BY <3>1, PartsAreFinite, FS_Subset
  <2> HIDE DEF V
  <2>2. f \in [V -> Of(s)] /\ \A t \in Of(s) : \E v \in V : f[v] = t
    BY DEF V
  <2> HIDE DEF f, Of
  <2> QED
    BY <2>1, <2>2, ImageIsFinite
<1>2. DOMAIN SIGNALS = {"Phone", "Email", "Website"}
  BY DEF SIGNALS
<1>3. sightings(place) = (Of("Phone") \cup Of("Email")) \cup Of("Website")
  BY <1>2 DEF sightings
<1> HIDE DEF Of
<1> QED
  BY <1>1, <1>3, FS_Union

SightingNext(of, found, s) == AddSighting(found, s)
Grouping == INSTANCE Folding WITH Op <- SightingNext

SameKey(g, s) == g.signal = s.signal /\ g.value = s.value
IsGroup(g) ==
    /\ g = [signal |-> g.signal, value |-> g.value, lo |-> g.lo, hi |-> g.hi]
    /\ g.lo \in Nat /\ g.hi \in Nat
Within_group(g, s) == g.lo <= s.at /\ s.at <= g.hi
Grouped(found, stream, k) ==
    /\ \A j \in 1 .. k : \E g \in found : SameKey(g, stream[j])
    /\ \A g \in found : IsGroup(g)
    /\ \A g \in found : \A j \in 1 .. k : SameKey(g, stream[j]) => Within_group(g, stream[j])

LEMMA OneSightingMore ==
    ASSUME NEW found, NEW stream, NEW k \in Nat, Grouped(found, stream, k),
           \A j \in 1 .. k + 1 : stream[j].at \in Nat
    PROVE  Grouped(AddSighting(found, stream[k + 1]), stream, k + 1)
<1> DEFINE s == stream[k + 1]
           G == GroupOf(found, s)
           next == AddSighting(found, s)
<1>1. \A j \in 1 .. k + 1 : j \in 1 .. k \/ j = k + 1
  OBVIOUS
<1>2. s.at \in Nat /\ \A j \in 1 .. k : stream[j].at \in Nat
  OBVIOUS
<1>3. \A g \in found : g \in G <=> SameKey(g, s)
  BY DEF GroupOf, SameKey
<1>4. G \subseteq found
  BY DEF GroupOf
<1>5. CASE G = {}
  <2> DEFINE new == NewGroup(s)
  <2>1. new = [signal |-> s.signal, value |-> s.value, lo |-> s.at, hi |-> s.at]
    BY DEF NewGroup
  <2>2. IsGroup(new) /\ SameKey(new, s) /\ Within_group(new, s)
    BY <1>2, <2>1 DEF IsGroup, SameKey, Within_group
  <2>3. \A j \in 1 .. k : ~SameKey(new, stream[j])
    <3> SUFFICES ASSUME NEW j \in 1 .. k, SameKey(new, stream[j])
                 PROVE  FALSE
      OBVIOUS
    <3>1. PICK g \in found : SameKey(g, stream[j])
      BY DEF Grouped
    <3>2. SameKey(g, s)
      BY <2>2, <3>1 DEF SameKey
    <3> QED
      BY <1>3, <1>5, <3>2
  <2>4. next = found \cup {new}
    BY <1>5 DEF AddSighting
  <2> HIDE DEF new, s, G, next
  <2>5. \A j \in 1 .. k + 1 : \E g \in next : SameKey(g, stream[j])
    BY <1>1, <2>2, <2>4 DEF Grouped, s
  <2>6. \A g \in next : IsGroup(g)
    BY <2>2, <2>4 DEF Grouped
  <2>7. \A g \in next : \A j \in 1 .. k + 1 : SameKey(g, stream[j]) => Within_group(g, stream[j])
    <3>1. \A g \in found : ~SameKey(g, s)
      BY <1>3, <1>5
    <3> QED
      BY <1>1, <2>2, <2>3, <2>4, <3>1 DEF Grouped, s
  <2>8. Grouped(next, stream, k + 1)
    BY <2>5, <2>6, <2>7 DEF Grouped
  <2> QED
    BY <2>8 DEF next, s
<1>6. CASE G # {}
  <2>1. next = (found \ G) \cup {AddToGroup(g, s) : g \in G}
    BY <1>6 DEF AddSighting
  <2>2. ASSUME NEW g \in G
        PROVE  LET h == AddToGroup(g, s)
               IN  /\ IsGroup(h) /\ SameKey(h, s) /\ Within_group(h, s)
                   /\ \A j \in 1 .. k : SameKey(g, stream[j]) => Within_group(h, stream[j])
                   /\ h.signal = g.signal /\ h.value = g.value
    <3> DEFINE lo == Min({g.lo, s.at})
               hi == Max({g.hi, s.at})
               h == AddToGroup(g, s)
    <3>1. IsGroup(g) /\ SameKey(g, s) /\ g \in found
      BY <1>3, <1>4 DEF Grouped
    <3>2. lo \in Nat /\ hi \in Nat /\ lo <= g.lo /\ lo <= s.at /\ g.hi <= hi /\ s.at <= hi
      <4>1. g.lo \in Nat /\ g.hi \in Nat
        BY <3>1 DEF IsGroup
      <4>2. \A a, b \in Nat : Min({a, b}) = IF b < a THEN b ELSE a
        BY DEF Min
      <4>3. \A a, b \in Nat : Max({a, b}) = IF b < a THEN a ELSE b
        BY DEF Max
      <4> HIDE DEF s
      <4>4. lo = IF s.at < g.lo THEN s.at ELSE g.lo
        BY <1>2, <4>1, <4>2
      <4>5. hi = IF s.at < g.hi THEN g.hi ELSE s.at
        BY <1>2, <4>1, <4>3
      <4> HIDE DEF lo, hi
      <4> QED
        BY <1>2, <4>1, <4>4, <4>5
    <3>6. h = [g EXCEPT !.lo = lo, !.hi = hi]
      BY DEF AddToGroup
    <3> HIDE DEF lo, hi, h, s
    <3>3. h = [signal |-> g.signal, value |-> g.value, lo |-> lo, hi |-> hi]
      BY <3>1, <3>6 DEF IsGroup
    <3>4. IsGroup(h) /\ SameKey(h, s) /\ Within_group(h, s) /\ h.signal = g.signal /\ h.value = g.value
      BY <3>1, <3>2, <3>3 DEF IsGroup, SameKey, Within_group
    <3>5. ASSUME NEW j \in 1 .. k, SameKey(g, stream[j])
          PROVE  Within_group(h, stream[j])
      <4>1. Within_group(g, stream[j])
        BY <3>1, <3>5 DEF Grouped
      <4> QED
        BY <1>2, <3>1, <3>2, <3>3, <4>1 DEF Within_group, IsGroup
    <3> QED
      BY <3>4, <3>5 DEF h
  <2> HIDE DEF s, G, next
  <2>3. \A x \in next : \/ x \in found /\ ~SameKey(x, s)
                        \/ \E g \in G : x = AddToGroup(g, s)
    BY <1>3, <2>1
  <2>4. \A j \in 1 .. k + 1 : \E x \in next : SameKey(x, stream[j])
    <3> SUFFICES ASSUME NEW j \in 1 .. k + 1
                 PROVE  \E x \in next : SameKey(x, stream[j])
      OBVIOUS
    <3>1. CASE j = k + 1
      <4>1. PICK g \in G : TRUE
        BY <1>6
      <4>2. AddToGroup(g, s) \in next
        BY <2>1
      <4> QED
        BY <2>2, <3>1, <4>2 DEF s
    <3>2. CASE j \in 1 .. k
      <4>1. PICK g \in found : SameKey(g, stream[j])
        BY <3>2 DEF Grouped
      <4>2. CASE g \in G
        <5>1. AddToGroup(g, s) \in next /\ SameKey(AddToGroup(g, s), stream[j])
          BY <2>1, <2>2, <4>1, <4>2 DEF SameKey
        <5> QED
          BY <5>1
      <4>3. CASE g \notin G
        BY <2>1, <4>1, <4>3
      <4> QED
        BY <4>2, <4>3
    <3> QED
      BY <1>1, <3>1, <3>2
  <2>5. \A x \in next : IsGroup(x)
    BY <2>2, <2>3 DEF Grouped
  <2>6. ASSUME NEW x \in next, NEW j \in 1 .. k + 1, SameKey(x, stream[j])
        PROVE  Within_group(x, stream[j])
    <3>1. CASE x \in found /\ ~SameKey(x, s)
      <4>1. j \in 1 .. k
        BY <1>1, <2>6, <3>1 DEF s
      <4> QED
        BY <2>6, <3>1, <4>1 DEF Grouped
    <3>2. CASE \E g \in G : x = AddToGroup(g, s)
      <4>1. PICK g \in G : x = AddToGroup(g, s)
        BY <3>2
      <4>2. CASE j = k + 1
        BY <2>2, <4>1, <4>2 DEF s
      <4>3. CASE j \in 1 .. k
        <5>1. SameKey(g, stream[j])
          BY <2>2, <2>6, <4>1 DEF SameKey
        <5> QED
          BY <2>2, <4>1, <4>3, <5>1
      <4> QED
        BY <1>1, <4>2, <4>3
    <3> QED
      BY <2>3, <3>1, <3>2
  <2>7. Grouped(next, stream, k + 1)
    BY <2>4, <2>5, <2>6 DEF Grouped
  <2> QED
    BY <2>7 DEF next, s
<1> QED
  BY <1>5, <1>6

-----------------------------------------------------------------------------
(***************************************************************************)
(* Domains that places of different brands share.                          *)
(***************************************************************************)
IsStats(s) == s = [brand |-> s.brand, features |-> s.features, mixed |-> s.mixed]
BrandAgrees(s, brand) == s.mixed = TRUE \/ (s.brand = brand /\ brand # NoBrand)
Tells(tags, d) == d \in website_domains(tags) /\ ~has_several_ids(tags)
StatsOf(stats, d) == IF d \in DOMAIN stats THEN stats[d]
                     ELSE [brand |-> NoBrand, features |-> 0, mixed |-> FALSE]
FeaturesCounted(stats, places, k) ==
    /\ \A d \in DOMAIN stats : IsStats(stats[d])
    /\ \A i \in 1 .. k : \A d : Tells(places[i].tags, d) =>
          d \in DOMAIN stats /\ BrandAgrees(stats[d], brand_id(places[i].tags))

LEMMA AddStatsAgrees ==
    ASSUME NEW s, IsStats(s), NEW brand
    PROVE  /\ IsStats(AddStats(s, brand))
           /\ BrandAgrees(AddStats(s, brand), brand)
           /\ \A b : BrandAgrees(s, b) => BrandAgrees(AddStats(s, brand), b)
<1>1. CASE brand # NoBrand /\ s.brand \in {NoBrand, brand}
  <2>1. AddStats(s, brand) = [brand |-> brand, features |-> s.features + 1, mixed |-> s.mixed]
    <3>1. AddStats(s, brand) = [s EXCEPT !.features = s.features + 1, !.brand = brand]
      BY <1>1 DEF AddStats
    <3> QED
      BY <3>1 DEF IsStats
  <2> QED
    BY <1>1, <2>1 DEF IsStats, BrandAgrees
<1>2. CASE ~(brand # NoBrand /\ s.brand \in {NoBrand, brand})
  <2>1. AddStats(s, brand) = [brand |-> s.brand, features |-> s.features + 1, mixed |-> TRUE]
    <3>1. AddStats(s, brand) = [s EXCEPT !.features = s.features + 1, !.mixed = TRUE]
      BY <1>2 DEF AddStats
    <3> QED
      BY <3>1 DEF IsStats
  <2> QED
    BY <2>1 DEF IsStats, BrandAgrees
<1> QED
  BY <1>1, <1>2

LEMMA OneFeatureMore ==
    ASSUME NEW builder, NEW places, NEW k \in Nat, FeaturesCounted(builder.stats, places, k)
    PROVE  FeaturesCounted(AddFeature(builder, places[k + 1]).stats, places, k + 1)
<1> DEFINE tags == places[k + 1].tags
           domains == website_domains(tags)
           brand == brand_id(tags)
           stats == builder.stats
           next == AddFeature(builder, places[k + 1]).stats
<1>1. \A j \in 1 .. k + 1 : j \in 1 .. k \/ j = k + 1
  OBVIOUS
<1>2. CASE domains = {} \/ has_several_ids(tags)
  <2>1. next = stats
    BY <1>2 DEF AddFeature
  <2>2. \A d : ~Tells(tags, d)
    BY <1>2 DEF Tells
  <2> HIDE DEF next, stats
  <2>3. FeaturesCounted(next, places, k + 1)
    BY <1>1, <2>1, <2>2 DEF FeaturesCounted, tags, stats
  <2> QED
    BY <2>3 DEF next
<1>3. CASE ~(domains = {} \/ has_several_ids(tags))
  <2>1. next = [d \in DOMAIN stats \cup domains |->
                   IF d \in domains THEN AddStats(StatsOf(stats, d), brand) ELSE stats[d]]
    BY <1>3 DEF AddFeature, StatsOf
  <2> HIDE DEF next
  <2>2. \A d : IsStats(StatsOf(stats, d))
    BY DEF FeaturesCounted, StatsOf, IsStats
  <2>3. \A d \in domains : /\ IsStats(next[d]) /\ BrandAgrees(next[d], brand)
                           /\ d \in DOMAIN stats => \A b : BrandAgrees(stats[d], b) => BrandAgrees(next[d], b)
    BY <2>1, <2>2, AddStatsAgrees DEF StatsOf
  <2>4. \A d \in DOMAIN stats \ domains : next[d] = stats[d]
    BY <2>1
  <2>5. DOMAIN next = DOMAIN stats \cup domains
    BY <2>1
  <2>6. \A d : Tells(tags, d) => d \in domains
    BY DEF Tells
  <2> HIDE DEF domains, brand, stats
  <2>7. \A d \in DOMAIN next : IsStats(next[d])
    BY <2>3, <2>4, <2>5 DEF FeaturesCounted, stats
  <2>8. ASSUME NEW i \in 1 .. k + 1, NEW d, Tells(places[i].tags, d)
        PROVE  d \in DOMAIN next /\ BrandAgrees(next[d], brand_id(places[i].tags))
    <3>1. CASE i = k + 1
      BY <2>3, <2>5, <2>6, <2>8, <3>1 DEF brand
    <3>2. CASE i \in 1 .. k
      <4>1. d \in DOMAIN stats /\ BrandAgrees(stats[d], brand_id(places[i].tags))
        BY <2>8, <3>2 DEF FeaturesCounted, stats
      <4> QED
        BY <2>3, <2>4, <2>5, <4>1
    <3> QED
      BY <1>1, <3>1, <3>2
  <2>9. FeaturesCounted(next, places, k + 1)
    BY <2>7, <2>8 DEF FeaturesCounted
  <2> QED
    BY <2>9 DEF next
<1> QED
  BY <1>2, <1>3

FeatureNext(of, builder, place) == AddFeature(builder, place)
Counting == INSTANCE Folding WITH Op <- FeatureNext

LEMMA DomainsAreOfOneBrand ==
    ASSUME NEW S, NEW places \in Seq(S), NEW d \in DOMAIN build_brand_domains(places),
           NEW i \in DOMAIN places, Tells(places[i].tags, d)
    PROVE  brand_id(places[i].tags) = build_brand_domains(places)[d]
<1> DEFINE n == Len(places)
           builder == FoldLeft(AddFeature, EmptyBuilder, places)
<1>1. n \in Nat /\ DOMAIN places = 1 .. n
  BY LenProperties
<1>2. Counting!OverSeq(0, EmptyBuilder, places) = builder
  BY DEF FoldLeft, MapThenFoldSet, Max, Counting!OverSeq, Counting!FoldLeft,
         Counting!MapThenFoldSet, Counting!Max, FeatureNext
<1>3. PICK acc : Counting!Through(0, EmptyBuilder, places, n, acc)
  <2> HIDE DEF n, builder
  <2> QED
    BY <1>1, Counting!FoldLeftSteps
<1> HIDE DEF builder, n
<1>4. /\ acc[0] = EmptyBuilder
      /\ \A k \in 1 .. n : acc[k] = AddFeature(acc[k - 1], places[k])
      /\ acc[n] = builder
  BY <1>2, <1>3 DEF Counting!Through, FeatureNext
<1> DEFINE T == {k \in Nat : k <= n => FeaturesCounted(acc[k].stats, places, k)}
<1>5. 0 \in T
  <2>1. acc[0].stats = <<>>
    BY <1>4 DEF EmptyBuilder
  <2>2. DOMAIN acc[0].stats = {}
    BY <2>1
  <2> QED
    BY <2>2 DEF FeaturesCounted
<1>6. ASSUME NEW k \in Nat, k \in T
      PROVE  k + 1 \in T
  <2> SUFFICES ASSUME k + 1 <= n
               PROVE  FeaturesCounted(acc[k + 1].stats, places, k + 1)
    OBVIOUS
  <2>1. FeaturesCounted(acc[k].stats, places, k)
    BY <1>1, <1>6
  <2>2. k + 1 \in 1 .. n /\ k + 1 - 1 = k
    BY <1>1
  <2>3. acc[k + 1] = AddFeature(acc[k], places[k + 1])
    BY <1>4, <2>2
  <2> QED
    BY <2>1, <2>3, OneFeatureMore
<1>7. n \in T
  <2> HIDE DEF T
  <2> QED
    BY <1>1, <1>5, <1>6, Counting!NumbersFrom0
<1>8. FeaturesCounted(builder.stats, places, n)
  BY <1>1, <1>4, <1>7
<1>9. /\ d \in DOMAIN builder.stats
      /\ BelongsToBrand(builder.stats[d], builder)
      /\ build_brand_domains(places)[d] = builder.stats[d].brand
  BY DEF build_brand_domains, builder
<1>10. BrandAgrees(builder.stats[d], brand_id(places[i].tags))
  BY <1>1, <1>8 DEF FeaturesCounted
<1> QED
  BY <1>9, <1>10 DEF BrandAgrees, BelongsToBrand

-----------------------------------------------------------------------------
(***************************************************************************)
(* What is left of the contacts after those that places far apart share.   *)
(***************************************************************************)
IsPlaced(place) == IsTags(place.tags) /\ place.at \in Nat
Streamed(places) == FlattenSeq([i \in DOMAIN places |-> SetToSeq(sightings(places[i]))])

LEMMA StreamHasEverySighting ==
    ASSUME NEW S, NEW places \in Seq(S), \A i \in DOMAIN places : IsPlaced(places[i])
    PROVE  /\ DOMAIN Streamed(places) = 1 .. Len(Streamed(places))
           /\ Len(Streamed(places)) \in Nat
           /\ \A j \in DOMAIN Streamed(places) : Streamed(places)[j].at \in Nat
           /\ \A i \in DOMAIN places : \A x \in sightings(places[i]) :
                \E j \in DOMAIN Streamed(places) : Streamed(places)[j] = x
<1> DEFINE R == UNION {sightings(places[i]) : i \in DOMAIN places}
           seqs == [i \in DOMAIN places |-> SetToSeq(sightings(places[i]))]
           stream == Streamed(places)
<1>1. \A i \in DOMAIN places : IsFiniteSet(sightings(places[i]))
  BY SightingsAreFinite DEF IsPlaced
<1>2. \A i \in DOMAIN places : /\ seqs[i] \in Seq(sightings(places[i]))
                               /\ ToSet(seqs[i]) = sightings(places[i])
  BY <1>1, SetToSeqIsSeq
<1>3. \A i \in DOMAIN places : sightings(places[i]) \subseteq R
  OBVIOUS
<1>4. \A x \in R : x.at \in Nat
  <2>1. \A i \in DOMAIN places : \A x \in sightings(places[i]) : x.at = places[i].at
    BY DEF sightings
  <2> QED
    BY <2>1 DEF IsPlaced
<1>5. stream = FlattenSeq(seqs)
  BY DEF Streamed
<1>6. DOMAIN seqs = 1 .. Len(places) /\ Len(places) \in Nat
  BY LenProperties
<1>7. DOMAIN seqs = DOMAIN places
  OBVIOUS
<1> HIDE DEF R, seqs, stream
<1>8. \A i \in DOMAIN seqs : seqs[i] \in Seq(R)
  <2>1. \A A, B : A \subseteq B => Seq(A) \subseteq Seq(B)
    <3> SUFFICES ASSUME NEW A, NEW B, A \subseteq B, NEW s \in Seq(A)
                 PROVE  s \in Seq(B)
      OBVIOUS
    <3>1. /\ Len(s) \in Nat /\ DOMAIN s = 1 .. Len(s) /\ \A k \in 1 .. Len(s) : s[k] \in A
          /\ s = [k \in 1 .. Len(s) |-> s[k]]
      BY LenProperties, ElementOfSeq
    <3>2. s \in [1 .. Len(s) -> B]
      BY <3>1
    <3> QED
      BY <3>1, <3>2, SeqDef
  <2> QED
    BY <1>2, <1>3, <1>7, <2>1
<1>9. seqs \in Seq(Seq(R))
  <2>1. seqs = [i \in 1 .. Len(places) |-> seqs[i]]
    BY <1>6 DEF seqs
  <2>2. seqs \in [1 .. Len(places) -> Seq(R)]
    BY <1>6, <1>8, <2>1
  <2> QED
    BY <1>6, <2>2, SeqDef
<1>10. stream \in Seq(R) /\ \A i \in DOMAIN seqs : ToSet(seqs[i]) \subseteq ToSet(stream)
  BY <1>5, <1>9, FlattenIsSeq
<1>11. DOMAIN stream = 1 .. Len(stream) /\ Len(stream) \in Nat
       /\ \A j \in DOMAIN stream : stream[j] \in R
  BY <1>10, LenProperties, ElementOfSeq
<1>12. \A j \in DOMAIN stream : stream[j].at \in Nat
  BY <1>4, <1>11
<1>13. \A i \in DOMAIN places : \A x \in sightings(places[i]) : x \in ToSet(stream)
  BY <1>2, <1>7, <1>10
<1>14. \A i \in DOMAIN places : \A x \in sightings(places[i]) : \E j \in DOMAIN stream : stream[j] = x
  BY <1>13 DEF ToSet
<1> QED
  BY <1>11, <1>12, <1>14 DEF stream

LEMMA GroupsOfTheStream ==
    ASSUME NEW stream, NEW n \in Nat, DOMAIN stream = 1 .. n, \A j \in 1 .. n : stream[j].at \in Nat
    PROVE  Grouped(FoldLeft(AddSighting, {}, stream), stream, n)
<1> DEFINE found == FoldLeft(AddSighting, {}, stream)
<1>1. Grouping!OverSeq(0, {}, stream) = found
  BY DEF FoldLeft, MapThenFoldSet, Max, Grouping!OverSeq, Grouping!FoldLeft,
         Grouping!MapThenFoldSet, Grouping!Max, SightingNext
<1> HIDE DEF found
<1>2. PICK acc : Grouping!Through(0, {}, stream, n, acc)
  BY Grouping!FoldLeftSteps
<1>3. /\ acc[0] = {}
      /\ \A k \in 1 .. n : acc[k] = AddSighting(acc[k - 1], stream[k])
      /\ acc[n] = found
  BY <1>1, <1>2 DEF Grouping!Through, SightingNext
<1> DEFINE T == {k \in Nat : k <= n => Grouped(acc[k], stream, k)}
<1>4. 0 \in T
  BY <1>3 DEF Grouped
<1>5. ASSUME NEW k \in Nat, k \in T
      PROVE  k + 1 \in T
  <2> SUFFICES ASSUME k + 1 <= n
               PROVE  Grouped(acc[k + 1], stream, k + 1)
    OBVIOUS
  <2>1. Grouped(acc[k], stream, k)
    BY <1>5
  <2>2. k + 1 \in 1 .. n /\ k + 1 - 1 = k /\ \A j \in 1 .. k + 1 : j \in 1 .. n
    OBVIOUS
  <2>3. acc[k + 1] = AddSighting(acc[k], stream[k + 1])
    BY <1>3, <2>2
  <2>4. \A j \in 1 .. k + 1 : stream[j].at \in Nat
    BY <2>2
  <2> QED
    BY <2>1, <2>3, <2>4, OneSightingMore
<1>6. n \in T
  <2> HIDE DEF T
  <2> QED
    BY <1>4, <1>5, Grouping!NumbersFrom0
<1> QED
  BY <1>3, <1>6 DEF found

\* Two places that share what is not nondescript are close to each other.
LEMMA SharedByNeighborsOnly ==
    ASSUME NEW S, NEW places \in Seq(S), \A i \in DOMAIN places : IsPlaced(places[i]),
           NEW s \in DOMAIN SIGNALS, NEW v, v \notin Know(places).nondescript[s],
           NEW i \in DOMAIN places, v \in ContactValues(places[i].tags, s),
           NEW j \in DOMAIN places, v \in ContactValues(places[j].tags, s)
    PROVE  places[i].at - places[j].at < min_spread[s]
<1> DEFINE stream == Streamed(places)
           n == Len(stream)
           found == FoldLeft(AddSighting, {}, stream)
           Seen(k) == [signal |-> s, value |-> v, at |-> places[k].at]
<1>1. Seen(i) \in sightings(places[i]) /\ Seen(j) \in sightings(places[j])
  BY DEF sightings
<1>2. /\ DOMAIN stream = 1 .. n /\ n \in Nat
      /\ \A k \in DOMAIN stream : stream[k].at \in Nat
      /\ \A k \in DOMAIN places : \A x \in sightings(places[k]) :
                \E l \in DOMAIN stream : stream[l] = x
  BY StreamHasEverySighting
<1>3. Know(places).nondescript = find_nondescript(stream)
  BY DEF Know, Streamed
<1>4. \A g \in found : g.signal = s /\ g.value = v => ~is_nondescript(g)
  BY <1>3 DEF find_nondescript
<1>5. min_spread[s] \in Nat /\ 0 < min_spread[s]
  BY DEF min_spread, SIGNALS
<1> HIDE DEF stream, n, found
<1>6. Grouped(found, stream, n)
  BY <1>2, GroupsOfTheStream DEF found
<1>7. PICK a \in 1 .. n : stream[a] = Seen(i)
  BY <1>1, <1>2
<1>8. PICK b \in 1 .. n : stream[b] = Seen(j)
  BY <1>1, <1>2
<1>9. PICK g \in found : SameKey(g, stream[a])
  BY <1>6 DEF Grouped
<1>10. g.signal = s /\ g.value = v /\ SameKey(g, stream[b])
  BY <1>7, <1>8, <1>9 DEF SameKey
<1>11. Within_group(g, stream[a]) /\ Within_group(g, stream[b]) /\ IsGroup(g)
  BY <1>6, <1>9, <1>10 DEF Grouped
<1>12. g.lo \in Nat /\ g.hi \in Nat /\ places[i].at \in Nat /\ places[j].at \in Nat
       /\ places[i].at <= g.hi /\ g.lo <= places[j].at
  BY <1>7, <1>8, <1>11 DEF IsGroup, Within_group, IsPlaced
<1>13. g.hi = g.lo \/ g.hi - g.lo < min_spread[s]
  BY <1>4, <1>5, <1>10, <1>12 DEF is_nondescript
<1> QED
  BY <1>5, <1>12, <1>13
=============================================================================
