------------------------------- MODULE Folding -------------------------------
(***************************************************************************)
(* Lemmas about the folds of the community modules, for an operator that   *)
(* takes a parameter, what has been accumulated, and an element.  A fold   *)
(* is a recursive function; that there is such a function at all is shown  *)
(* by induction over the elements, here once and for all operators: a      *)
(* module that needs it instantiates this one with the operator at hand.   *)
(***************************************************************************)
EXTENDS SequencesExt, FiniteSetTheorems, SequenceTheorems, NaturalsInduction,
        WellFoundedInduction, TLAPS

CONSTANT Op(_, _, _)

OverSeq(p, base, seq) == FoldLeft(LAMBDA a, x : Op(p, a, x), base, seq)
OverSet(p, base, S) == FoldSet(LAMBDA x, a : Op(p, a, x), base, S)

\* Induction over the numbers, as a fact about a set of them.
LEMMA NumbersFrom0 ==
    ASSUME NEW T, 0 \in T, \A n \in Nat : n \in T => n + 1 \in T
    PROVE  Nat \subseteq T
<1> SUFFICES ASSUME Nat \ T # {} PROVE FALSE
  OBVIOUS
<1> DEFINE Less == {ss \in Nat \X Nat : ss[1] < ss[2]}
<1>1. IsWellFoundedOn(Less, Nat)
  BY NatLessThanWellFounded DEF OpToRel
<1>2. PICK m \in Nat \ T : \A k \in Nat \ T : ~(<<k, m>> \in Less)
  <2> HIDE DEF Less
  <2> QED
    BY <1>1, WFMin
<1>3. \A k \in Nat : k < m => k \in T
  BY <1>2
<1>4. m # 0 /\ m - 1 \in Nat /\ m - 1 < m /\ m = (m - 1) + 1
  BY <1>2
<1> QED
  BY <1>2, <1>3, <1>4

-----------------------------------------------------------------------------
(***************************************************************************)
(* Over a sequence.                                                        *)
(***************************************************************************)
\* What has been accumulated after each of the n elements.
Through(p, base, seq, n, acc) ==
    /\ acc[0] = base
    /\ \A k \in 1 .. n : acc[k] = Op(p, acc[k - 1], seq[k])
    /\ acc[n] = OverSeq(p, base, seq)

LEMMA FoldLeftSteps ==
    ASSUME NEW p, NEW base, NEW n \in Nat, NEW seq, DOMAIN seq = 1 .. n
    PROVE  \E acc : Through(p, base, seq, n, acc)
<1> DEFINE Step(it, s) ==
               IF s = {} THEN base ELSE Op(p, it[s \ {Max(s)}], seq[Max(s)])
           Solves(it, m) == it = [s \in SUBSET (1 .. m) |-> Step(it, s)]
           T == {m \in Nat : \E it : Solves(it, m)}
<1>1. 0 \in T
  <2> DEFINE it == [s \in SUBSET (1 .. 0) |-> base]
  <2>1. \A s \in SUBSET (1 .. 0) : s = {}
    OBVIOUS
  <2>2. Solves(it, 0)
    BY <2>1
  <2> QED
    BY <2>2
<1>2. ASSUME NEW m \in Nat, m \in T
      PROVE  m + 1 \in T
  <2>1. PICK it : Solves(it, m)
    BY <1>2
  <2> DEFINE next == [s \in SUBSET (1 .. m + 1) |->
                        IF m + 1 \in s THEN Op(p, it[s \ {m + 1}], seq[m + 1]) ELSE it[s]]
  <2>2. ASSUME NEW s \in SUBSET (1 .. m + 1)
        PROVE  next[s] = Step(next, s)
    <3>1. CASE m + 1 \in s
      <4>1. Max(s) = m + 1
        <5>1. \A y \in s : y \in Nat /\ m + 1 >= y
          OBVIOUS
        <5>2. \A x \in s : (\A y \in s : x >= y) => x = m + 1
          BY <3>1, <5>1
        <5> QED
          BY <3>1, <5>1, <5>2 DEF Max
      <4>2. s \ {m + 1} \in SUBSET (1 .. m + 1) /\ m + 1 \notin s \ {m + 1}
        OBVIOUS
      <4>3. next[s \ {m + 1}] = it[s \ {m + 1}]
        BY <4>2
      <4>4. next[s] = Op(p, it[s \ {m + 1}], seq[m + 1])
        BY <3>1
      <4> HIDE DEF next
      <4> QED
        BY <3>1, <4>1, <4>3, <4>4
    <3>2. CASE m + 1 \notin s
      <4>1. s \in SUBSET (1 .. m)
        BY <3>2
      <4>2. s \ {Max(s)} \in SUBSET (1 .. m + 1) /\ m + 1 \notin s \ {Max(s)}
        BY <3>2
      <4>3. next[s \ {Max(s)}] = it[s \ {Max(s)}]
        BY <4>2
      <4>4. next[s] = it[s]
        BY <3>2
      <4>5. it[s] = Step(it, s)
        BY <2>1, <4>1
      <4> HIDE DEF next
      <4> QED
        BY <4>3, <4>4, <4>5
    <3> QED
      BY <3>1, <3>2
  <2>3. Solves(next, m + 1)
    <3> DEFINE other == [s \in SUBSET (1 .. m + 1) |-> Step(next, s)]
    <3>1. next = other
      <4>1. \A s \in SUBSET (1 .. m + 1) : next[s] = other[s]
        BY <2>2
      <4> QED
        BY <4>1
    <3> QED
      BY <3>1
  <2>4. \E it_ : Solves(it_, m + 1)
    <3> HIDE DEF Solves, next
    <3> QED
      BY <2>3
  <2> HIDE DEF Solves, next
  <2> QED
    BY <2>4
<1>3. n \in T
  <2> HIDE DEF T
  <2> QED
    BY <1>1, <1>2, NumbersFrom0
<1> DEFINE iter == CHOOSE it : Solves(it, n)
<1>4. Solves(iter, n)
  <2> HIDE DEF Solves
  <2> QED
    BY <1>3
<1>5. OverSeq(p, base, seq) = iter[1 .. n]
  BY DEF OverSeq, FoldLeft, MapThenFoldSet
<1> HIDE DEF iter
<1> DEFINE acc == [k \in 0 .. n |-> iter[1 .. k]]
<1>6. acc[0] = base
  <2>1. 1 .. 0 = {} /\ 0 \in 0 .. n
    OBVIOUS
  <2>2. iter[{}] = Step(iter, {})
    BY <1>4
  <2> QED
    BY <2>1, <2>2
<1>7. ASSUME NEW k \in 1 .. n
      PROVE  acc[k] = Op(p, acc[k - 1], seq[k])
  <2>1. 1 .. k \in SUBSET (1 .. n) /\ k \in 1 .. k /\ (1 .. k) \ {k} = 1 .. k - 1
    OBVIOUS
  <2>2. Max(1 .. k) = k
    BY DEF Max
  <2>3. iter[1 .. k] = Step(iter, 1 .. k)
    BY <1>4, <2>1
  <2>4. iter[1 .. k] = Op(p, iter[1 .. k - 1], seq[k])
    BY <2>1, <2>2, <2>3
  <2>5. k \in 0 .. n /\ k - 1 \in 0 .. n
    OBVIOUS
  <2> QED
    BY <2>4, <2>5
<1>8. acc[n] = iter[1 .. n]
  OBVIOUS
<1> HIDE DEF acc
<1>9. Through(p, base, seq, n, acc)
  BY <1>5, <1>6, <1>7, <1>8 DEF Through
<1> QED
  BY <1>9

-----------------------------------------------------------------------------
(***************************************************************************)
(* Over a set, in some order.                                              *)
(***************************************************************************)
\* The elements one after the other, and what has been accumulated after each.
Run(p, base, S, n, e, acc) ==
    /\ e \in [1 .. n -> S]
    /\ \A x \in S : \E k \in 1 .. n : e[k] = x
    /\ acc[0] = base
    /\ \A k \in 1 .. n : acc[k] = Op(p, acc[k - 1], e[k])
    /\ acc[n] = OverSet(p, base, S)

LEMMA FoldSetSteps ==
    ASSUME NEW p, NEW base, NEW S, IsFiniteSet(S)
    PROVE  \E n \in Nat : \E e, acc : Run(p, base, S, n, e, acc)
<1> DEFINE Some(s) == CHOOSE x \in s : TRUE
           Step(it, s) == IF s = {} THEN base ELSE Op(p, it[s \ {Some(s)}], Some(s))
           UpTo(m) == {s \in SUBSET S : Cardinality(s) <= m}
           Solves(it, m) == it = [s \in UpTo(m) |-> Step(it, s)]
           T == {m \in Nat : \E it : Solves(it, m)}
<1>1. ASSUME NEW s \in SUBSET S
      PROVE  /\ IsFiniteSet(s) /\ Cardinality(s) \in Nat
             /\ Cardinality(s) <= Cardinality(S)
             /\ Cardinality(s) = 0 <=> s = {}
             /\ s # {} => /\ Some(s) \in s /\ s \ {Some(s)} \in SUBSET S
                           /\ Cardinality(s \ {Some(s)}) = Cardinality(s) - 1
  <2>1. IsFiniteSet(s) /\ Cardinality(s) <= Cardinality(S)
    BY FS_Subset
  <2>2. Cardinality(s) \in Nat /\ (Cardinality(s) = 0 <=> s = {})
    BY <2>1, FS_CardinalityType, FS_EmptySet
  <2>3. s # {} => Some(s) \in s
    OBVIOUS
  <2> HIDE DEF Some
  <2>4. s # {} => Cardinality(s \ {Some(s)}) = Cardinality(s) - 1
    BY <2>1, <2>3, FS_RemoveElement
  <2> QED
    BY <2>1, <2>2, <2>3, <2>4
<1> HIDE DEF Some
<1>2. 0 \in T
  <2> DEFINE it == [s \in UpTo(0) |-> base]
  <2>1. \A s \in UpTo(0) : s = {}
    <3>1. \A s \in SUBSET S : Cardinality(s) <= 0 => s = {}
      <4>1. \A s \in SUBSET S : Cardinality(s) \in Nat /\ (Cardinality(s) = 0 <=> s = {})
        BY <1>1
      <4> QED
        BY <4>1
    <3> QED
      BY <3>1
  <2>2. Solves(it, 0)
    <3>1. \A s \in UpTo(0) : it[s] = Step(it, s)
      BY <2>1
    <3> HIDE DEF Step, UpTo
    <3> QED
      BY <3>1
  <2> HIDE DEF Solves, it
  <2> QED
    BY <2>2
<1>3. ASSUME NEW m \in Nat, m \in T
      PROVE  m + 1 \in T
  <2>1. PICK it : Solves(it, m)
    <3> HIDE DEF Solves
    <3> QED
      BY <1>3
  <2> DEFINE next == [s \in UpTo(m + 1) |-> Step(it, s)]
  <2>2. ASSUME NEW s \in UpTo(m + 1)
        PROVE  next[s] = Step(next, s)
    <3>1. CASE s = {}
      BY <3>1
    <3>2. CASE s # {}
      <4>1. s \ {Some(s)} \in UpTo(m) /\ s \ {Some(s)} \in UpTo(m + 1)
        BY <1>1, <3>2
      <4>2. next[s \ {Some(s)}] = Step(it, s \ {Some(s)})
        BY <4>1
      <4>3. it[s \ {Some(s)}] = Step(it, s \ {Some(s)})
        BY <2>1, <4>1
      <4>4. next[s] = Op(p, it[s \ {Some(s)}], Some(s))
        BY <3>2
      <4> HIDE DEF next, UpTo
      <4> QED
        BY <3>2, <4>2, <4>3, <4>4
    <3> QED
      BY <3>1, <3>2
  <2>3. Solves(next, m + 1)
    <3> DEFINE other == [s \in UpTo(m + 1) |-> Step(next, s)]
    <3>1. next = other
      <4>1. \A s \in UpTo(m + 1) : next[s] = other[s]
        BY <2>2
      <4> HIDE DEF UpTo
      <4> QED
        BY <4>1
    <3> QED
      BY <3>1
  <2>4. \E it_ : Solves(it_, m + 1)
    <3> HIDE DEF Solves, next
    <3> QED
      BY <2>3
  <2> HIDE DEF Solves, next
  <2> QED
    BY <2>4
<1>4. Cardinality(S) \in T
  <2> HIDE DEF T
  <2>1. Cardinality(S) \in Nat
    BY <1>1
  <2> QED
    BY <1>2, <1>3, <2>1, NumbersFrom0
<1>5. UpTo(Cardinality(S)) = SUBSET S
  BY <1>1
<1> DEFINE Whole(it) == it = [s \in SUBSET S |-> Step(it, s)]
           iter == CHOOSE it : Whole(it)
<1>6. Whole(iter)
  <2>1. PICK it : Solves(it, Cardinality(S))
    <3> HIDE DEF Solves
    <3> QED
      BY <1>4
  <2>2. Whole(it)
    BY <1>5, <2>1
  <2> HIDE DEF Whole
  <2> QED
    BY <2>2
<1>7. OverSet(p, base, S) = iter[S]
  BY DEF OverSet, FoldSet, MapThenFoldSet, Some
<1> HIDE DEF iter
<1> DEFINE Steps(e, acc, s, m) ==
              /\ e \in [1 .. m -> s]
              /\ \A x \in s : \E k \in 1 .. m : e[k] = x
              /\ acc[0] = base
              /\ \A k \in 1 .. m : acc[k] = Op(p, acc[k - 1], e[k])
              /\ acc[m] = iter[s]
           U == {m \in Nat : \A s \in SUBSET S : Cardinality(s) = m => \E e, acc : Steps(e, acc, s, m)}
<1>8. 0 \in U
  <2> SUFFICES \E e, acc : Steps(e, acc, {}, 0)
    BY <1>1
  <2> DEFINE e == [k \in 1 .. 0 |-> base]
             acc == [k \in {0} |-> base]
  <2>1. iter[{}] = base
    BY <1>6
  <2>2. 1 .. 0 = {}
    OBVIOUS
  <2>3. Steps(e, acc, {}, 0)
    BY <2>1, <2>2
  <2> HIDE DEF Steps, e, acc
  <2> QED
    BY <2>3
<1>9. ASSUME NEW m \in Nat, m \in U
      PROVE  m + 1 \in U
  <2> SUFFICES ASSUME NEW s \in SUBSET S, Cardinality(s) = m + 1
               PROVE  \E e, acc : Steps(e, acc, s, m + 1)
    <3> HIDE DEF Steps
    <3> QED
      OBVIOUS
  <2> DEFINE x == Some(s)
             r == s \ {x}
  <2>1. s # {} /\ x \in s /\ r \in SUBSET S /\ Cardinality(r) = m
    <3> HIDE DEF Steps
    <3>1. Cardinality(s) # 0
      OBVIOUS
    <3>2. s # {}
      BY <1>1, <3>1
    <3>3. m + 1 - 1 = m
      OBVIOUS
    <3> QED
      BY <1>1, <3>2, <3>3
  <2>2. iter[s] = Op(p, iter[r], x)
    BY <1>6, <2>1
  <2> HIDE DEF x, Whole
  <2>3. PICK e, acc : Steps(e, acc, r, m)
    <3> HIDE DEF Steps
    <3> QED
      BY <1>9, <2>1
  <2> DEFINE e2 == [k \in 1 .. m + 1 |-> IF k = m + 1 THEN x ELSE e[k]]
             acc2 == [k \in 0 .. m + 1 |-> IF k = m + 1 THEN iter[s] ELSE acc[k]]
  <2>4. \A k \in 1 .. m : e2[k] = e[k] /\ e[k] \in r
    BY <2>3
  <2>5. e2[m + 1] = x /\ \A k \in 1 .. m + 1 : k # m + 1 => k \in 1 .. m
    OBVIOUS
  <2>6. \A k \in 0 .. m : acc2[k] = acc[k]
    OBVIOUS
  <2>7. acc2[m + 1] = iter[s]
    OBVIOUS
  <2>8. e2 \in [1 .. m + 1 -> s]
    BY <2>1, <2>4, <2>5
  <2>9. \A y \in s : \E k \in 1 .. m + 1 : e2[k] = y
    <3>1. \A y \in r : \E k \in 1 .. m : e2[k] = y
      BY <2>3, <2>4
    <3> HIDE DEF e2
    <3> QED
      BY <2>5, <3>1
  <2>10. acc2[0] = base
    BY <2>3, <2>6
  <2>11. \A k \in 1 .. m + 1 : acc2[k] = Op(p, acc2[k - 1], e2[k])
    <3> SUFFICES ASSUME NEW k \in 1 .. m + 1
                 PROVE  acc2[k] = Op(p, acc2[k - 1], e2[k])
      OBVIOUS
    <3>1. CASE k = m + 1
      <4>1. acc2[m] = iter[r]
        BY <2>3, <2>6
      <4>2. m + 1 - 1 = m
        OBVIOUS
      <4> HIDE DEF acc2, e2
      <4> QED
        BY <2>2, <2>5, <2>7, <3>1, <4>1, <4>2
    <3>2. CASE k # m + 1
      <4>1. k \in 1 .. m /\ k \in 0 .. m /\ k - 1 \in 0 .. m
        BY <3>2
      <4>2. acc[k] = Op(p, acc[k - 1], e[k])
        BY <2>3, <4>1
      <4> HIDE DEF acc2, e2
      <4> QED
        BY <2>4, <2>6, <4>1, <4>2
    <3> QED
      BY <3>1, <3>2
  <2> HIDE DEF e2, acc2
  <2>12. Steps(e2, acc2, s, m + 1)
    BY <2>7, <2>8, <2>9, <2>10, <2>11
  <2> HIDE DEF Steps
  <2> QED
    BY <2>12
<1>10. Cardinality(S) \in U
  <2> HIDE DEF U
  <2>1. Cardinality(S) \in Nat
    BY <1>1
  <2> QED
    BY <1>8, <1>9, <2>1, NumbersFrom0
<1>11. PICK e, acc : Steps(e, acc, S, Cardinality(S))
  <2> HIDE DEF Steps
  <2> QED
    BY <1>10
<1>12. /\ e \in [1 .. Cardinality(S) -> S]
       /\ \A x \in S : \E k \in 1 .. Cardinality(S) : e[k] = x
       /\ acc[0] = base
       /\ \A k \in 1 .. Cardinality(S) : acc[k] = Op(p, acc[k - 1], e[k])
       /\ acc[Cardinality(S)] = iter[S]
  BY <1>11
<1>13. Run(p, base, S, Cardinality(S), e, acc)
  BY <1>7, <1>12 DEF Run
<1> QED
  BY <1>1, <1>13
=============================================================================
