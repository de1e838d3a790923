--------------------------- MODULE Conflate_proofs ----------------------------
(***************************************************************************)
(* Theorems about a conflation and what is made of its file, for all       *)
(* inputs and cuts of them into batches, all numbers of workers,           *)
(* capacities and faults; in this order:                                   *)
(*                                                                         *)
(*   OkMeansComplete        the file has each row once                     *)
(*   BestAreKept, NoContradictions, StrongestEvidenceWins                  *)
(*                          which candidates a place has                   *)
(*   MatchesAreStable       who gets which feature                         *)
(*   FilesAreReproducible   the file does not depend on the workers        *)
(*   ImportanceIsFair       the importance of its rows                     *)
(*   DeletionsAreJustified  which features look gone                       *)
(*   EvidenceIsNotShared    contacts and domains                           *)
(*   EditsAreRight, MapShowsEveryPlace                                     *)
(*                          the edits and the map made from the file       *)
(*                                                                         *)
(* Two invariants carry the first: at any time, the rows that the workers, *)
(* the channel and the writer have are those of the places and features    *)
(* that the producer is through with, unless a thread has failed           *)
(* (Accounted); and a file is published when nothing is on its way any     *)
(* more (Published).  That sorting neither loses nor doubles a row is a    *)
(* lemma about sorting by position (PositionsAreAll).  Most of the others  *)
(* are about a fold: what has been accumulated after each element, by      *)
(* induction (module Folding).                                             *)
(***************************************************************************)
EXTENDS Products, Matching_proofs

Phases == {"match", "second", "delete", "done"}
Failed == phase = "failed" \/ writer = "failed"
Busy == {t \in Workers : worker[t] # Idle}
Sent == ToSet(received) \cup ToSet(channel) \cup {worker[t] : t \in Busy}

Open == {i \in DOMAIN Places : Matcher(i) = "poi"}
LooksGone(r) == deletion_reason(Osm[r], coverage) # "none"

\* The places and features that the producer is through with.
Begun == (1 .. world.ends[batch]) \ todo
OpenDone == IF phase = "match" THEN Open \cap Begun ELSE Open
ExclusiveDone ==
    CASE phase = "match" -> {}
      [] phase = "second" -> Exclusive \ second
      [] OTHER -> Exclusive
GoneDone ==
    CASE phase = "delete" -> {r \in DOMAIN Osm \ (matched \cup todo) : LooksGone(r)}
      [] phase = "done" -> {r \in DOMAIN Osm \ matched : LooksGone(r)}
      [] OTHER -> {}

\* Its rows, and the matches.
RowsDone == {Row(i, MatchOf(i)) : i \in OpenDone \cup ExclusiveDone}
            \cup {OsmRow(r) : r \in GoneDone}
MatchesDone == {MatchOf(i) : i \in OpenDone \cup ExclusiveDone}

\* How many rows of a set X are on their way, and how many should be.
BusyWith(X) == {t \in Busy : worker[t] \in X}
PlacesIn(P, X) == {i \in P : Row(i, MatchOf(i)) \in X}
FeaturesIn(F, X) == {r \in F : OsmRow(r) \in X}

NumSent(X) ==
    Cardinality(At(received, X)) + Cardinality(At(channel, X)) + Cardinality(BusyWith(X))
NumDone(X) ==
    Cardinality(PlacesIn(OpenDone, X)) + Cardinality(PlacesIn(ExclusiveDone, X))
    + Cardinality(FeaturesIn(GoneDone, X))

\* Of the input: numbers, and batches that make up the file.
WorldInv ==
    /\ \E n \in Nat : DOMAIN Places = 1 .. n /\ world.ends[Len(world.ends)] = n
    /\ \E m \in Nat : DOMAIN Osm = 1 .. m
    /\ \A i \in DOMAIN Places :
          /\ Matcher(i) \in {"none", "poi", "transit", "infrastructure"}
          /\ Places[i].at \in Nat /\ Places[i].rank \in Nat /\ Places[i].shape \in Nat
          /\ Places[i].spider \in ToSet(SpiderOrder)
    /\ \A r \in DOMAIN Osm : Osm[r].at \in Nat /\ Osm[r].id \in Nat
    /\ world.ends \in Seq(Nat) /\ world.ends # <<>>
    /\ \A b, c \in DOMAIN world.ends : b <= c => world.ends[b] <= world.ends[c]

InOrderOnTheWay == \E S : channel \in Seq(S) /\ received \in Seq(S)

Shape ==
    /\ phase \in Phases \cup {"failed"}
    /\ writer \in {"receiving", "published", "failed"}
    /\ batch \in 1 .. Len(world.ends)
    /\ DOMAIN worker = Workers
    /\ InOrderOnTheWay
    /\ phase = "match" => todo \subseteq Ordinals(batch)
    /\ phase = "second" => second \subseteq Exclusive
    /\ phase = "delete" => todo \subseteq DOMAIN Osm \ matched
    /\ phase \in {"second", "done"} => AllIdle
    /\ \A row \in Sent : row.kind = "row"

\* The candidates of all exclusive places come together.
Gathered ==
    /\ \E S : exclusive \in Seq(S)
    /\ phase \in Phases =>
          {exclusive[k].ordinal : k \in DOMAIN exclusive} =
              IF phase = "match" THEN Exclusive \cap Begun ELSE Exclusive

\* What is matched, and what is sent, is that of what is done; two places may
\* have the same row.
AllCounted == \A X : NumSent(X) = NumDone(X)
Accounted ==
    /\ phase \in Phases => matched = MatchesDone \ {0}
    /\ ~Failed => Sent = RowsDone /\ AllCounted

Published ==
    /\ writer = "published" =>
          /\ phase \in {"done", "failed"} /\ AllIdle /\ channel = <<>>
          /\ file = [rows |-> write_conflated(received), whole |-> phase = "done"]
    /\ result = "ok" => phase = "done" /\ writer = "published"

ConflateInv == WorldInv /\ Shape /\ Gathered /\ Accounted /\ Published

-----------------------------------------------------------------------------
(***************************************************************************)
(* Sorted rows.                                                            *)
(***************************************************************************)
\* The rows of a conflation can be compared.
RowsComparable(row) ==
    /\ row.cell \in Nat /\ row.osm \in Nat /\ row.tags \in Nat /\ row.shape \in Nat
    /\ row.spider = "" \/ row.spider \in ToSet(SpiderOrder)

LEMMA IntervalOfNat ==
    ASSUME NEW n \in Nat
    PROVE  1 .. n \subseteq Nat
OBVIOUS

LEMMA SpiderRankType ==
    ASSUME NEW s, s = "" \/ s \in ToSet(SpiderOrder)
    PROVE  SpiderRank(s) \in Nat
<1>1. CASE s = ""
  BY <1>1 DEF SpiderRank
<1>2. CASE s # ""
  <2>1. DOMAIN SpiderOrder \subseteq Nat
    <3>1. SpiderOrder \in Seq(STRING)
      BY SpidersAssumption
    <3>2. DOMAIN SpiderOrder = 1 .. Len(SpiderOrder) /\ Len(SpiderOrder) \in Nat
      BY <3>1, LenProperties
    <3> QED
      BY <3>2, IntervalOfNat
  <2>2. \E k \in DOMAIN SpiderOrder : SpiderOrder[k] = s
    BY <1>2 DEF ToSet
  <2> QED
    BY <1>2, <2>1, <2>2 DEF SpiderRank
<1> QED
  BY <1>1, <1>2

\* The lexicographic order of keys.
Lex(a, b) ==
    \/ a[1] < b[1]
    \/ /\ a[1] = b[1]
       /\ \/ a[2] < b[2]
          \/ /\ a[2] = b[2]
             /\ \/ a[3] < b[3]
                \/ /\ a[3] = b[3]
                   /\ a[4] < b[4] \/ (a[4] = b[4] /\ a[5] < b[5])

IsKey(a) == a[1] \in Nat /\ a[2] \in Nat /\ a[3] \in Nat /\ a[4] \in Nat /\ a[5] \in Nat

LEMMA LexIsAnOrder ==
    ASSUME NEW a, NEW b, NEW c, IsKey(a), IsKey(b), IsKey(c)
    PROVE  /\ ~(Lex(a, b) /\ Lex(b, a))
           /\ Lex(a, b) => Lex(a, c) \/ Lex(c, b)
<1> SUFFICES
      ASSUME NEW a1 \in Nat, NEW a2 \in Nat, NEW a3 \in Nat, NEW a4 \in Nat, NEW a5 \in Nat,
             NEW b1 \in Nat, NEW b2 \in Nat, NEW b3 \in Nat, NEW b4 \in Nat, NEW b5 \in Nat,
             NEW c1 \in Nat, NEW c2 \in Nat, NEW c3 \in Nat, NEW c4 \in Nat, NEW c5 \in Nat,
             a[1] = a1, a[2] = a2, a[3] = a3, a[4] = a4, a[5] = a5,
             b[1] = b1, b[2] = b2, b[3] = b3, b[4] = b4, b[5] = b5,
             c[1] = c1, c[2] = c2, c[3] = c3, c[4] = c4, c[5] = c5
      PROVE  /\ ~(Lex(a, b) /\ Lex(b, a))
             /\ Lex(a, b) => Lex(a, c) \/ Lex(c, b)
  BY Zenon DEF IsKey
<1> QED
  BY DEF Lex

LEMMA RowBeforeIsLexicographic ==
    ASSUME NEW a, NEW b
    PROVE  RowBefore(a, b) <=> Lex(SortKey(a), SortKey(b))
<1>1. DOMAIN SortKey(a) = 1 .. 5
  BY DEF SortKey
<1> DEFINE x == SortKey(a)
           y == SortKey(b)
           Same(k) == \A j \in 1 .. k - 1 : x[j] = y[j]
<1>2. RowBefore(a, b) <=> \E k \in {1, 2, 3, 4, 5} : x[k] < y[k] /\ Same(k)
  <2>1. 1 .. 5 = {1, 2, 3, 4, 5}
    OBVIOUS
  <2> QED
    BY <1>1, <2>1 DEF RowBefore
<1> HIDE DEF x, y
<1>3. /\ Same(1) /\ (Same(2) <=> x[1] = y[1])
      /\ (Same(3) <=> Same(2) /\ x[2] = y[2])
      /\ (Same(4) <=> Same(3) /\ x[3] = y[3])
      /\ (Same(5) <=> Same(4) /\ x[4] = y[4])
  <2>1. /\ 1 .. 1 - 1 = {} /\ 1 .. 2 - 1 = {1} /\ 1 .. 3 - 1 = {1, 2}
        /\ 1 .. 4 - 1 = {1, 2, 3} /\ 1 .. 5 - 1 = {1, 2, 3, 4}
    OBVIOUS
  <2> QED
    BY <2>1
<1> HIDE DEF Same
<1>4. RowBefore(a, b) <=> Lex(x, y)
  BY <1>2, <1>3 DEF Lex
<1> QED
  BY <1>4 DEF x, y

LEMMA RowsAreOrdered ==
    ASSUME NEW a, NEW b, NEW c, RowsComparable(a), RowsComparable(b), RowsComparable(c)
    PROVE  /\ ~(RowBefore(a, b) /\ RowBefore(b, a))
           /\ RowBefore(a, b) => RowBefore(a, c) \/ RowBefore(c, b)
<1>1. ASSUME NEW x, RowsComparable(x)
      PROVE  IsKey(SortKey(x))
  <2>1. SpiderRank(x.spider) \in Nat
    BY <1>1, SpiderRankType DEF RowsComparable
  <2> QED
    BY <1>1, <2>1 DEF RowsComparable, IsKey, SortKey
<1>2. ASSUME NEW x, NEW y, RowsComparable(x), RowsComparable(y)
      PROVE  RowBefore(x, y) <=> Lex(SortKey(x), SortKey(y))
  BY <1>2, RowBeforeIsLexicographic
<1> QED
  BY <1>1, <1>2, LexIsAnOrder

\* Which row goes where.
LEMMA SortedByPosition ==
    ASSUME NEW S, NEW rows \in Seq(S), \A row \in ToSet(rows) : RowsComparable(row)
    PROVE  LET n == Len(rows)
               sorted == SortBy(rows, RowBefore)
               Ahead(i) == {j \in 1 .. n : \/ j = i
                                           \/ RowBefore(rows[j], rows[i])
                                           \/ j < i /\ ~RowBefore(rows[i], rows[j])}
           IN  /\ n \in Nat /\ DOMAIN sorted = 1 .. n
               /\ \A k \in 1 .. n : \E i \in 1 .. n : /\ sorted[k] = rows[i]
                                                      /\ Cardinality(Ahead(i)) = k
               /\ \A i \in 1 .. n : \E k \in 1 .. n : sorted[k] = rows[i]
<1> DEFINE n == Len(rows)
           B == {p \in (1 .. n) \X (1 .. n) : RowBefore(rows[p[1]], rows[p[2]])}
           position == [i \in 1 .. n |-> Cardinality(Downset(n, B, i))]
           sorted == SortBy(rows, RowBefore)
           Ahead(i) == {j \in 1 .. n : \/ j = i
                                       \/ RowBefore(rows[j], rows[i])
                                       \/ j < i /\ ~RowBefore(rows[i], rows[j])}
<1>1. n \in Nat /\ DOMAIN rows = 1 .. n
  BY LenProperties
<1>2. \A i \in 1 .. n : RowsComparable(rows[i])
  BY <1>1 DEF ToSet
<1>3. \A i, j \in 1 .. n : <<i, j>> \in B <=> RowBefore(rows[i], rows[j])
  OBVIOUS
<1>4. \A i \in 1 .. n : /\ PositionOf(rows, RowBefore, i) = Cardinality(Downset(n, B, i))
                        /\ Ahead(i) = Downset(n, B, i)
  <2> SUFFICES ASSUME NEW i \in 1 .. n
               PROVE  /\ {j \in DOMAIN rows : j = i \/ GoesFirst(rows, RowBefore, j, i)} = Downset(n, B, i)
                      /\ Ahead(i) = Downset(n, B, i)
    BY DEF PositionOf
  <2>1. \A j \in 1 .. n : /\ GoesFirst(rows, RowBefore, j, i) <=> First(B, j, i)
                          /\ RowBefore(rows[j], rows[i]) \/ (j < i /\ ~RowBefore(rows[i], rows[j]))
                             <=> First(B, j, i)
    BY <1>3 DEF GoesFirst, First
  <2> HIDE DEF B
  <2> QED
    BY <1>1, <2>1 DEF Downset
<1> HIDE DEF Ahead
<1>5. sorted = [k \in 1 .. n |-> rows[CHOOSE i \in 1 .. n : position[i] = k]]
  <2>1. \A i \in 1 .. n : position[i] = PositionOf(rows, RowBefore, i)
    BY <1>4
  <2> HIDE DEF position
  <2>2. [i \in DOMAIN rows |-> PositionOf(rows, RowBefore, i)] = [i \in 1 .. n |-> position[i]]
    BY <1>1, <2>1
  <2>3. [i \in 1 .. n |-> position[i]] = position
    BY DEF position
  <2> DEFINE place == [i \in DOMAIN rows |-> PositionOf(rows, RowBefore, i)]
  <2>4. sorted = [k \in DOMAIN rows |-> rows[CHOOSE i \in DOMAIN rows : place[i] = k]]
    BY DEF SortBy
  <2>5. place = position
    BY <2>2, <2>3
  <2> HIDE DEF place, sorted
  <2> QED
    BY <1>1, <2>4, <2>5
<1>6. /\ \A i \in 1 .. n : position[i] \in 1 .. n
      /\ \A i, j \in 1 .. n : position[i] = position[j] => i = j
      /\ \A k \in 1 .. n : \E i \in 1 .. n : position[i] = k
  <2>1. \A i, j \in 1 .. n : ~(<<i, j>> \in B /\ <<j, i>> \in B)
    BY <1>2, <1>3, RowsAreOrdered
  <2>2. \A i, j, k \in 1 .. n : <<i, j>> \in B => <<i, k>> \in B \/ <<k, j>> \in B
    BY <1>2, <1>3, RowsAreOrdered
  <2> HIDE DEF B
  <2> QED
    BY <1>1, <2>1, <2>2, PositionsAreAll
<1>7. \A i \in 1 .. n : position[i] = Cardinality(Ahead(i))
  BY <1>4
<1> HIDE DEF B, position
<1> DEFINE from(k) == CHOOSE i \in 1 .. n : position[i] = k
<1>8. \A k \in 1 .. n : from(k) \in 1 .. n /\ position[from(k)] = k
  BY <1>6
<1>9. \A k \in 1 .. n : sorted[k] = rows[from(k)]
  BY <1>5
<1>10. \A i \in 1 .. n : from(position[i]) = i
  BY <1>6, <1>8
<1>11. DOMAIN sorted = 1 .. n
  BY <1>5
<1> HIDE DEF from, sorted
<1>12. \A i \in 1 .. n : rows[i] = sorted[position[i]] /\ position[i] \in 1 .. n
  BY <1>6, <1>9, <1>10
<1>13. \A k \in 1 .. n : \E i \in 1 .. n : sorted[k] = rows[i] /\ Cardinality(Ahead(i)) = k
  BY <1>7, <1>8, <1>9
<1>14. \A i \in 1 .. n : \E k \in 1 .. n : sorted[k] = rows[i]
  BY <1>12
<1> QED
  BY <1>1, <1>11, <1>13, <1>14 DEF sorted, Ahead

\* Sorting neither loses a row nor doubles one.
LEMMA FileHasTheRows ==
    ASSUME NEW S, NEW rows \in Seq(S), \A row \in ToSet(rows) : RowsComparable(row)
    PROVE  /\ write_conflated(rows) \in Seq(ToSet(write_conflated(rows)))
           /\ Len(write_conflated(rows)) = Len(rows)
           /\ {write_conflated(rows)[k].row : k \in DOMAIN write_conflated(rows)} = ToSet(rows)
<1> DEFINE n == Len(rows)
           sorted == SortBy(rows, RowBefore)
           scores == [i \in DOMAIN rows |-> rows[i].score]
           rank(k) == MidRank(scores, sorted[k].score)
<1>1. n \in Nat /\ DOMAIN sorted = 1 .. n /\ DOMAIN rows = 1 .. n
  BY SortedByPosition, LenProperties
<1>2. /\ \A k \in 1 .. n : \E i \in 1 .. n : sorted[k] = rows[i]
      /\ \A i \in 1 .. n : \E k \in 1 .. n : sorted[k] = rows[i]
  BY SortedByPosition
<1>3. write_conflated(rows) = [k \in 1 .. n |-> [row |-> sorted[k], importance |-> rank(k)]]
  BY <1>1 DEF write_conflated
<1> HIDE DEF sorted, rank
<1>4. {sorted[k] : k \in 1 .. n} = ToSet(rows)
  <2>1. ToSet(rows) = {rows[i] : i \in 1 .. n}
    BY <1>1 DEF ToSet
  <2>2. \A k \in 1 .. n : sorted[k] \in ToSet(rows)
    BY <1>2, <2>1
  <2>3. \A i \in 1 .. n : rows[i] \in {sorted[k] : k \in 1 .. n}
    BY <1>2
  <2> QED
    BY <2>1, <2>2, <2>3
<1>5. Len(write_conflated(rows)) = n
  BY <1>1, <1>3
<1>6. \A k \in 1 .. n : write_conflated(rows)[k].row = sorted[k]
  BY <1>3
<1>7. DOMAIN write_conflated(rows) = 1 .. n
  BY <1>3
<1>8. write_conflated(rows) \in Seq(ToSet(write_conflated(rows)))
  <2> DEFINE w == write_conflated(rows)
             f(k) == [row |-> sorted[k], importance |-> rank(k)]
  <2>1. w = [k \in 1 .. n |-> f(k)]
    BY <1>3
  <2> HIDE DEF w, f
  <2>2. w = [k \in 1 .. n |-> w[k]] /\ \A k \in 1 .. n : w[k] \in ToSet(w)
    BY <2>1 DEF ToSet
  <2> QED
    BY <1>1, <2>2, IsASeq DEF w
<1> QED
  BY <1>4, <1>5, <1>6, <1>7, <1>8

-----------------------------------------------------------------------------
(***************************************************************************)
(* Rows on their way.                                                      *)
(***************************************************************************)
LEMMA BusyIsFinite ==
    /\ \A X : IsFiniteSet(BusyWith(X)) /\ Cardinality(BusyWith(X)) \in Nat
    /\ Busy = {} => \A X : Cardinality(BusyWith(X)) = 0
<1>1. IsFiniteSet(Busy)
  BY ConflateAssumption, FS_Subset DEF Busy
<1>2. \A X : IsFiniteSet(BusyWith(X))
  <2>1. \A X : BusyWith(X) \subseteq Busy
    BY DEF BusyWith
  <2> QED
    BY <1>1, <2>1, FS_Subset
<1>3. \A X : Cardinality(BusyWith(X)) \in Nat
  BY <1>2, FS_CardinalityType
<1>4. Busy = {} => \A X : Cardinality(BusyWith(X)) = 0
  BY FS_EmptySet DEF BusyWith
<1> QED
  BY <1>2, <1>3, <1>4

\* A worker finds a row.
LEMMA WorkerGetsRow ==
    ASSUME NEW t \in Workers, NEW row, DOMAIN worker = Workers, worker[t] = Idle, row # Idle,
           InOrderOnTheWay, worker' = [worker EXCEPT ![t] = row],
           channel' = channel, received' = received
    PROVE  Sent' = Sent \cup {row} /\ \A X : NumSent(X)' = NumSent(X) + One(X, row)
<1>1. Busy' = Busy \cup {t} /\ t \notin Busy
  BY DEF Busy
<1>2. \A u \in Busy : worker'[u] = worker[u] /\ worker'[t] = row
  BY DEF Busy
<1>3. {worker'[u] : u \in Busy'} = {worker[u] : u \in Busy} \cup {row}
  BY <1>1, <1>2
<1>4. \A X : Cardinality(BusyWith(X)') = Cardinality(BusyWith(X)) + One(X, row)
  <2> SUFFICES ASSUME NEW X
               PROVE  Cardinality(BusyWith(X)') = Cardinality(BusyWith(X)) + One(X, row)
    OBVIOUS
  <2> DEFINE A == BusyWith(X)
             B == {u \in Busy' : worker'[u] \in X}
  <2>1. BusyWith(X)' = B
    BY DEF BusyWith
  <2>2. B = IF row \in X THEN A \cup {t} ELSE A
    BY <1>1, <1>2 DEF BusyWith
  <2>3. t \notin A /\ IsFiniteSet(A)
    BY <1>1, BusyIsFinite DEF BusyWith
  <2> HIDE DEF A, B
  <2>4. Cardinality(B) = Cardinality(A) + One(X, row)
    BY <2>2, <2>3, OneMore
  <2> QED
    BY <2>1, <2>4 DEF A
<1>5. PICK S : channel \in Seq(S) /\ received \in Seq(S)
  BY DEF InOrderOnTheWay
<1>6. Sent' = Sent \cup {row}
  BY <1>3 DEF Sent
<1>7. \A X : NumSent(X)' = NumSent(X) + One(X, row)
  <2> SUFFICES ASSUME NEW X
               PROVE  NumSent(X)' = NumSent(X) + One(X, row)
    OBVIOUS
  <2>1. /\ Cardinality(At(received, X)) \in Nat /\ Cardinality(At(channel, X)) \in Nat
        /\ Cardinality(BusyWith(X)) \in Nat /\ One(X, row) \in Nat
    BY <1>5, AtIsFinite, BusyIsFinite DEF One
  <2>2. NumSent(X)' = Cardinality(At(received, X)) + Cardinality(At(channel, X))
                      + Cardinality(BusyWith(X)')
    BY DEF NumSent
  <2> QED
    BY <1>4, <2>1, <2>2 DEF NumSent
<1> QED
  BY <1>6, <1>7

\* And sends it.
LEMMA WorkerSendsRow ==
    ASSUME NEW t \in Workers, DOMAIN worker = Workers, worker[t] # Idle,
           InOrderOnTheWay, worker' = [worker EXCEPT ![t] = Idle],
           channel' = Append(channel, worker[t]), received' = received
    PROVE  Sent' = Sent /\ (\A X : NumSent(X)' = NumSent(X)) /\ InOrderOnTheWay'
<1>1. Busy' = Busy \ {t} /\ t \in Busy
  BY DEF Busy
<1>2. \A u \in Busy \ {t} : worker'[u] = worker[u]
  BY DEF Busy
<1>3. {worker'[u] : u \in Busy'} \cup {worker[t]} = {worker[u] : u \in Busy}
  BY <1>1, <1>2
<1>4. \A X : /\ Cardinality(BusyWith(X)) = Cardinality(BusyWith(X)') + One(X, worker[t])
            /\ Cardinality(BusyWith(X)') \in Nat
  <2> SUFFICES ASSUME NEW X
               PROVE  /\ Cardinality(BusyWith(X)) = Cardinality(BusyWith(X)') + One(X, worker[t])
                      /\ Cardinality(BusyWith(X)') \in Nat
    OBVIOUS
  <2> DEFINE B == {u \in Busy' : worker'[u] \in X}
  <2>1. BusyWith(X)' = B
    BY DEF BusyWith
  <2>2. B = BusyWith(X) \ {t} /\ (t \in BusyWith(X) <=> worker[t] \in X)
    BY <1>1, <1>2 DEF BusyWith
  <2> HIDE DEF B
  <2>3. BusyWith(X) = IF worker[t] \in X THEN B \cup {t} ELSE B
    BY <2>2
  <2>4. IsFiniteSet(B) /\ t \notin B
    BY <2>2, BusyIsFinite, FS_Subset
  <2> QED
    BY <2>1, <2>3, <2>4, OneMore
<1>5. PICK S : channel \in Seq(S) /\ received \in Seq(S)
  BY DEF InOrderOnTheWay
<1>6. channel \in Seq(S \cup {worker[t]}) /\ received \in Seq(S \cup {worker[t]})
  BY <1>5, SeqMonotonic
<1>7. /\ channel' \in Seq(S \cup {worker[t]}) /\ Len(channel') = Len(channel) + 1
      /\ ToSet(channel') = ToSet(channel) \cup {worker[t]}
  BY <1>6, ToSetAppend
<1>8. \A X : Cardinality(At(channel, X)') = Cardinality(At(channel, X)) + One(X, worker[t])
  BY <1>6, AtAppend
<1>10. Sent' = Sent
  BY <1>3, <1>7 DEF Sent
<1>11. \A X : NumSent(X)' = NumSent(X)
  <2> SUFFICES ASSUME NEW X
               PROVE  NumSent(X)' = NumSent(X)
    OBVIOUS
  <2>1. /\ Cardinality(At(received, X)) \in Nat /\ Cardinality(At(channel, X)) \in Nat
        /\ Cardinality(BusyWith(X)) \in Nat /\ One(X, worker[t]) \in Nat
    BY <1>5, AtIsFinite, BusyIsFinite DEF One
  <2>2. Cardinality(BusyWith(X)') \in Nat
    BY <1>4
  <2>3. NumSent(X)' = Cardinality(At(received, X)) + Cardinality(At(channel, X)')
                      + Cardinality(BusyWith(X)')
    BY DEF NumSent
  <2> QED
    BY <1>4, <1>8, <2>1, <2>2, <2>3 DEF NumSent
<1> QED
  BY <1>6, <1>7, <1>10, <1>11 DEF InOrderOnTheWay

\* The producer sends a row itself.
LEMMA ChannelGetsRow ==
    ASSUME NEW row, InOrderOnTheWay, worker' = worker,
           channel' = Append(channel, row), received' = received
    PROVE  /\ Sent' = Sent \cup {row} /\ InOrderOnTheWay'
           /\ \A X : NumSent(X)' = NumSent(X) + One(X, row)
<1>1. Busy' = Busy /\ \A X : BusyWith(X)' = BusyWith(X)
  BY DEF Busy, BusyWith
<1>5. PICK S : channel \in Seq(S) /\ received \in Seq(S)
  BY DEF InOrderOnTheWay
<1>6. channel \in Seq(S \cup {row}) /\ received \in Seq(S \cup {row})
  BY <1>5, SeqMonotonic
<1>7. /\ channel' \in Seq(S \cup {row}) /\ Len(channel') = Len(channel) + 1
      /\ ToSet(channel') = ToSet(channel) \cup {row}
  BY <1>6, ToSetAppend
<1>8. \A X : Cardinality(At(channel, X)') = Cardinality(At(channel, X)) + One(X, row)
  <2> SUFFICES ASSUME NEW X
               PROVE  Cardinality(At(channel', X)) = Cardinality(At(channel, X)) + One(X, row)
    BY DEF At
  <2> QED
    BY <1>6, AtAppend
<1>9. \A X : At(received, X)' = At(received, X)
  BY DEF At
<1>10. Sent' = Sent \cup {row}
  BY <1>1, <1>7 DEF Sent
<1>11. \A X : NumSent(X)' = NumSent(X) + One(X, row)
  <2> SUFFICES ASSUME NEW X
               PROVE  NumSent(X)' = NumSent(X) + One(X, row)
    OBVIOUS
  <2>1. /\ Cardinality(At(received, X)) \in Nat /\ Cardinality(At(channel, X)) \in Nat
        /\ Cardinality(BusyWith(X)) \in Nat /\ One(X, row) \in Nat
    BY <1>5, AtIsFinite, BusyIsFinite DEF One
  <2>2. NumSent(X)' = Cardinality(At(received, X)) + Cardinality(At(channel, X)')
                      + Cardinality(BusyWith(X))
    BY <1>1, <1>9 DEF NumSent
  <2> QED
    BY <1>8, <2>1, <2>2 DEF NumSent
<1> QED
  BY <1>6, <1>7, <1>10, <1>11 DEF InOrderOnTheWay

\* The writer takes one out of the channel.
LEMMA WriterGetsRow ==
    ASSUME InOrderOnTheWay, channel # <<>>, worker' = worker,
           received' = Append(received, Head(channel)), channel' = Tail(channel)
    PROVE  Sent' = Sent /\ (\A X : NumSent(X)' = NumSent(X)) /\ InOrderOnTheWay'
<1>1. Busy' = Busy /\ \A X : BusyWith(X)' = BusyWith(X)
  BY DEF Busy, BusyWith
<1>2. PICK S : channel \in Seq(S) /\ received \in Seq(S)
  BY DEF InOrderOnTheWay
<1>3. /\ Head(channel) \in S /\ channel' \in Seq(S)
      /\ ToSet(channel) = {Head(channel)} \cup ToSet(channel')
  BY <1>2, ToSetTail
<1>4. /\ received' \in Seq(S) /\ Len(received') = Len(received) + 1
      /\ ToSet(received') = ToSet(received) \cup {Head(channel)}
  BY <1>2, <1>3, ToSetAppend
<1>5. Sent' = Sent
  BY <1>1, <1>3, <1>4 DEF Sent
<1>6. ASSUME NEW X
      PROVE  NumSent(X)' = NumSent(X)
  <2> DEFINE row == Head(channel)
  <2>1. Cardinality(At(received', X)) = Cardinality(At(received, X)) + One(X, row)
    BY <1>2, <1>3, AtAppend
  <2>2. Cardinality(At(channel, X)) = Cardinality(At(channel', X)) + One(X, row)
    BY <1>2, AtTail
  <2>3. At(received, X)' = At(received', X) /\ At(channel, X)' = At(channel', X)
    BY DEF At
  <2>4. /\ Cardinality(At(received, X)) \in Nat /\ Cardinality(At(channel', X)) \in Nat
        /\ Cardinality(BusyWith(X)) \in Nat /\ One(X, row) \in Nat
    BY <1>2, <1>3, AtIsFinite, BusyIsFinite DEF One
  <2>5. NumSent(X)' = Cardinality(At(received', X)) + Cardinality(At(channel', X))
                      + Cardinality(BusyWith(X))
    BY <1>1, <2>3 DEF NumSent
  <2> QED
    BY <2>1, <2>2, <2>4, <2>5 DEF NumSent
<1> QED
  BY <1>3, <1>4, <1>5, <1>6 DEF InOrderOnTheWay

-----------------------------------------------------------------------------
(***************************************************************************)
(* What is done.                                                           *)
(***************************************************************************)
\* No step changes the input, nor what it means.
LEMMA SameWorld ==
    ASSUME world' = world
    PROVE  /\ Places' = Places /\ Osm' = Osm /\ Open' = Open /\ Exclusive' = Exclusive
           /\ \A i : Matcher(i)' = Matcher(i)
           /\ \A i, r : Row(i, r)' = Row(i, r)
           /\ \A r : OsmRow(r)' = OsmRow(r)
           /\ \A b : Ordinals(b)' = Ordinals(b)
           /\ \A i : i \notin Exclusive => MatchOf(i)' = MatchOf(i)
           /\ exclusive' = exclusive => \A i : MatchOf(i)' = MatchOf(i)
<1>1. Places' = Places /\ Osm' = Osm /\ \A i : Matcher(i)' = Matcher(i)
  BY DEF Places, Osm, Matcher
<1>2. Open' = Open /\ Exclusive' = Exclusive
  BY <1>1 DEF Open, Exclusive
<1>3. \A i, r : Row(i, r)' = Row(i, r)
  BY <1>1 DEF Row
<1>4. \A r : OsmRow(r)' = OsmRow(r)
  BY <1>1 DEF OsmRow
<1>5. \A b : Ordinals(b)' = Ordinals(b)
  BY DEF Ordinals
<1>6. \A i : candidates(i)' = candidates(i)
  BY DEF candidates
<1>7. \A i : i \notin Exclusive => MatchOf(i)' = MatchOf(i)
  BY <1>2, <1>6 DEF MatchOf
<1>8. exclusive' = exclusive => \A i : MatchOf(i)' = MatchOf(i)
  BY <1>2, <1>6 DEF MatchOf
<1> QED
  BY <1>1, <1>2, <1>3, <1>4, <1>5, <1>7, <1>8

LEMMA DoneIsFinite ==
    ASSUME WorldInv
    PROVE  /\ IsFiniteSet(OpenDone) /\ IsFiniteSet(ExclusiveDone) /\ IsFiniteSet(GoneDone)
           /\ IsFiniteSet(Open) /\ IsFiniteSet(Exclusive)
           /\ Cardinality(OpenDone) \in Nat /\ Cardinality(ExclusiveDone) \in Nat
           /\ Cardinality(GoneDone) \in Nat
<1>1. IsFiniteSet(DOMAIN Places) /\ IsFiniteSet(DOMAIN Osm)
  BY FS_Interval DEF WorldInv
<1>2. OpenDone \subseteq DOMAIN Places /\ ExclusiveDone \subseteq DOMAIN Places
  BY DEF OpenDone, ExclusiveDone, Open, Exclusive
<1>3. GoneDone \subseteq DOMAIN Osm
  BY DEF GoneDone
<1>4. Open \subseteq DOMAIN Places /\ Exclusive \subseteq DOMAIN Places
  BY DEF Open, Exclusive
<1>5. /\ IsFiniteSet(OpenDone) /\ IsFiniteSet(ExclusiveDone) /\ IsFiniteSet(GoneDone)
      /\ IsFiniteSet(Open) /\ IsFiniteSet(Exclusive)
  BY <1>1, <1>2, <1>3, <1>4, FS_Subset
<1> QED
  BY <1>5, FS_CardinalityType

\* Nothing is done twice.
LEMMA OpenIsNotExclusive == Open \cap Exclusive = {}
BY DEF Open, Exclusive, is_exclusive

LEMMA DoneIsCounted ==
    ASSUME WorldInv, NEW X
    PROVE  /\ IsFiniteSet(PlacesIn(OpenDone, X)) /\ Cardinality(PlacesIn(OpenDone, X)) \in Nat
           /\ IsFiniteSet(PlacesIn(ExclusiveDone, X))
           /\ Cardinality(PlacesIn(ExclusiveDone, X)) \in Nat
           /\ IsFiniteSet(FeaturesIn(GoneDone, X)) /\ Cardinality(FeaturesIn(GoneDone, X)) \in Nat
<1>1. /\ PlacesIn(OpenDone, X) \subseteq OpenDone
      /\ PlacesIn(ExclusiveDone, X) \subseteq ExclusiveDone
      /\ FeaturesIn(GoneDone, X) \subseteq GoneDone
  BY DEF PlacesIn, FeaturesIn
<1>2. /\ IsFiniteSet(PlacesIn(OpenDone, X)) /\ IsFiniteSet(PlacesIn(ExclusiveDone, X))
      /\ IsFiniteSet(FeaturesIn(GoneDone, X))
  BY <1>1, DoneIsFinite, FS_Subset
<1> QED
  BY <1>2, FS_CardinalityType

LEMMA NumberStays ==
    ASSUME world' = world, OpenDone' = OpenDone, ExclusiveDone' = ExclusiveDone,
           GoneDone' = GoneDone,
           \A i \in OpenDone \cup ExclusiveDone : Row(i, MatchOf(i))' = Row(i, MatchOf(i))
    PROVE  \A X : NumDone(X)' = NumDone(X)
<1> SUFFICES ASSUME NEW X
             PROVE  NumDone(X)' = NumDone(X)
  OBVIOUS
<1>1. \A r : OsmRow(r)' = OsmRow(r)
  BY SameWorld
<1>2. PlacesIn(OpenDone, X)' = PlacesIn(OpenDone, X)
  BY DEF PlacesIn
<1>3. PlacesIn(ExclusiveDone, X)' = PlacesIn(ExclusiveDone, X)
  BY DEF PlacesIn
<1>4. FeaturesIn(GoneDone, X)' = FeaturesIn(GoneDone, X)
  BY <1>1 DEF FeaturesIn
<1> QED
  BY <1>2, <1>3, <1>4 DEF NumDone

LEMMA WorldStays ==
    ASSUME WorldInv, world' = world
    PROVE  WorldInv'
BY SameWorld DEF WorldInv

\* A step of the pipe alone.
LEMMA ProducerWaits ==
    ASSUME UNCHANGED <<world, producerVars>>
    PROVE  /\ OpenDone' = OpenDone /\ ExclusiveDone' = ExclusiveDone /\ GoneDone' = GoneDone
           /\ RowsDone' = RowsDone /\ MatchesDone' = MatchesDone
           /\ \A X : NumDone(X)' = NumDone(X)
           /\ Gathered => Gathered'
<1>1. /\ world' = world /\ phase' = phase /\ batch' = batch /\ todo' = todo
      /\ exclusive' = exclusive /\ matched' = matched /\ coverage' = coverage
      /\ second' = second
  BY DEF producerVars
<1>2. Begun' = Begun
  BY <1>1 DEF Begun
<1>3. OpenDone' = OpenDone
  BY <1>1, <1>2, SameWorld DEF OpenDone
<1>4. ExclusiveDone' = ExclusiveDone
  BY <1>1, SameWorld DEF ExclusiveDone
<1>5. \A r : LooksGone(r)' = LooksGone(r)
  BY <1>1 DEF LooksGone, Osm
<1>6. GoneDone' = GoneDone
  BY <1>1, <1>5, SameWorld DEF GoneDone
<1>7. \A i : MatchOf(i)' = MatchOf(i)
  BY <1>1, SameWorld
<1>12. \A i : Row(i, MatchOf(i))' = Row(i, MatchOf(i))
  BY <1>1 DEF Row, Places, Osm, MatchOf, Exclusive, Matcher, candidates
<1>8. RowsDone' = RowsDone
  BY <1>1, <1>3, <1>4, <1>6, <1>12, SameWorld DEF RowsDone
<1>9. MatchesDone' = MatchesDone
  BY <1>3, <1>4, <1>7 DEF MatchesDone
<1>10. \A X : NumDone(X)' = NumDone(X)
  BY <1>1, <1>3, <1>4, <1>6, <1>12, NumberStays
<1>11. Gathered => Gathered'
  BY <1>1, <1>2, SameWorld DEF Gathered
<1> QED
  BY <1>3, <1>4, <1>6, <1>8, <1>9, <1>10, <1>11

-----------------------------------------------------------------------------
(***************************************************************************)
(* The pipe and the writer.                                                *)
(***************************************************************************)
LEMMA SendKeepsInv ==
    ASSUME ConflateInv, NEW t \in Workers, Send(t)
    PROVE  ConflateInv'
<1>1. WorldInv' /\ Gathered'
  BY WorldStays, ProducerWaits DEF ConflateInv, Send
<1>2. Sent' = Sent /\ (\A X : NumSent(X)' = NumSent(X)) /\ InOrderOnTheWay'
  BY WorkerSendsRow DEF ConflateInv, Shape, Send, writerVars
<1>3. Shape'
  <2>1. AllIdle => AllIdle'
    BY DEF Send, AllIdle
  <2> QED
    BY <1>2, <2>1, SameWorld DEF ConflateInv, Shape, Send, producerVars, writerVars
<1>4. Accounted'
  BY <1>2, ProducerWaits DEF ConflateInv, Accounted, AllCounted, Failed, Send, producerVars, writerVars
<1>5. Published'
  BY DEF ConflateInv, Published, Send, producerVars, writerVars
<1> QED
  BY <1>1, <1>3, <1>4, <1>5 DEF ConflateInv

LEMMA ReceiveKeepsInv ==
    ASSUME ConflateInv, Receive
    PROVE  ConflateInv'
<1>1. WorldInv' /\ Gathered'
  BY WorldStays, ProducerWaits DEF ConflateInv, Receive
<1>2. Sent' = Sent /\ (\A X : NumSent(X)' = NumSent(X)) /\ InOrderOnTheWay'
  BY WriterGetsRow DEF ConflateInv, Shape, Receive
<1>3. Shape'
  BY <1>2, SameWorld DEF ConflateInv, Shape, Receive, producerVars, AllIdle
<1>4. Accounted'
  BY <1>2, ProducerWaits DEF ConflateInv, Accounted, AllCounted, Failed, Receive, producerVars
<1>5. Published'
  BY DEF ConflateInv, Published, Receive, producerVars
<1> QED
  BY <1>1, <1>3, <1>4, <1>5 DEF ConflateInv

\* The rows stay where they are.
LEMMA RowsStay ==
    ASSUME UNCHANGED <<worker, channel, received>>
    PROVE  Sent' = Sent /\ (\A X : NumSent(X)' = NumSent(X)) /\ (InOrderOnTheWay => InOrderOnTheWay')
<1>1. Busy' = Busy
  BY DEF Busy
<1> QED
  BY <1>1 DEF Sent, NumSent, BusyWith, At, InOrderOnTheWay

LEMMA PublishKeepsInv ==
    ASSUME ConflateInv, Publish
    PROVE  ConflateInv'
<1>1. WorldInv' /\ Gathered'
  BY WorldStays, ProducerWaits DEF ConflateInv, Publish
<1>2. Sent' = Sent /\ (\A X : NumSent(X)' = NumSent(X)) /\ InOrderOnTheWay'
  BY RowsStay DEF ConflateInv, Shape, Publish
<1>3. Shape'
  BY <1>2, SameWorld DEF ConflateInv, Shape, Publish, producerVars, AllIdle
<1>4. Accounted'
  BY <1>2, ProducerWaits DEF ConflateInv, Accounted, AllCounted, Failed, Publish, producerVars
<1>5. Published'
  BY DEF ConflateInv, Published, Publish, producerVars, Disconnected, AllIdle
<1> QED
  BY <1>1, <1>3, <1>4, <1>5 DEF ConflateInv

LEMMA ReturnKeepsInv ==
    ASSUME ConflateInv, Return
    PROVE  ConflateInv'
<1>1. WorldInv' /\ Gathered'
  BY WorldStays, ProducerWaits DEF ConflateInv, Return
<1>2. Sent' = Sent /\ (\A X : NumSent(X)' = NumSent(X)) /\ InOrderOnTheWay'
  BY RowsStay DEF ConflateInv, Shape, Return, writerVars
<1>3. Shape'
  BY <1>2, SameWorld DEF ConflateInv, Shape, Return, producerVars, writerVars, AllIdle
<1>4. Accounted'
  BY <1>2, ProducerWaits DEF ConflateInv, Accounted, AllCounted, Failed, Return, producerVars, writerVars
<1>5. Published'
  BY DEF ConflateInv, Published, Return, conflate_result, producerVars, writerVars, AllIdle
<1> QED
  BY <1>1, <1>3, <1>4, <1>5 DEF ConflateInv

\* Once a thread has failed, the rest need not add up; nothing is published yet.
LEMMA WriterFaultKeepsInv ==
    ASSUME ConflateInv, WriterFault
    PROVE  ConflateInv'
<1>1. WorldInv' /\ Gathered'
  BY WorldStays, ProducerWaits DEF ConflateInv, WriterFault
<1>2. Sent' \subseteq Sent
  BY ToSetEmpty DEF Sent, Busy, WriterFault
<1>3. InOrderOnTheWay'
  <2>1. PICK S : channel \in Seq(S) /\ received \in Seq(S)
    BY DEF ConflateInv, Shape, InOrderOnTheWay
  <2>2. <<>> \in Seq(S)
    BY EmptySeq
  <2> QED
    BY <2>1, <2>2 DEF WriterFault, InOrderOnTheWay
<1>4. Shape'
  BY <1>2, <1>3, SameWorld DEF ConflateInv, Shape, WriterFault, producerVars, AllIdle
<1>5. Accounted'
  BY ProducerWaits DEF ConflateInv, Accounted, AllCounted, Failed, WriterFault, producerVars
<1>6. Published'
  BY DEF ConflateInv, Published, WriterFault, producerVars
<1> QED
  BY <1>1, <1>4, <1>5, <1>6 DEF ConflateInv

LEMMA AbortKeepsInv ==
    ASSUME ConflateInv, Abort, UNCHANGED <<world, channel, writerVars, result>>,
           writer # "published",
           worker' = worker \/ \E t \in Workers : worker' = [worker EXCEPT ![t] = Idle]
    PROVE  ConflateInv'
<1>1. WorldInv'
  BY WorldStays DEF ConflateInv
<1>2. Gathered'
  BY DEF ConflateInv, Gathered, Abort, Phases
<1>3. Sent' \subseteq Sent /\ DOMAIN worker' = Workers
  BY DEF ConflateInv, Shape, Sent, Busy, writerVars
<1>4. Shape'
  BY <1>3 DEF ConflateInv, Shape, Abort, Phases, InOrderOnTheWay, writerVars
<1>5. Accounted'
  BY DEF Accounted, Failed, Abort, Phases
<1>6. Published'
  BY DEF ConflateInv, Published, Abort, writerVars
<1> QED
  BY <1>1, <1>2, <1>4, <1>5, <1>6 DEF ConflateInv

-----------------------------------------------------------------------------
(***************************************************************************)
(* The producer.                                                           *)
(***************************************************************************)
\* As long as the producer is at work, nothing has been published.
LEMMA NotPublishedYet ==
    ASSUME ConflateInv, phase \in {"match", "second", "delete"}
    PROVE  writer # "published" /\ result # "ok"
BY DEF ConflateInv, Published

LEMMA BatchInside ==
    ASSUME WorldInv, Shape
    PROVE  /\ world.ends[batch] \in Nat
           /\ Ordinals(batch) \subseteq 1 .. world.ends[batch]
           /\ batch < Len(world.ends) =>
                /\ batch + 1 \in 1 .. Len(world.ends) /\ world.ends[batch + 1] \in Nat
                /\ (1 .. world.ends[batch + 1]) \ Ordinals(batch + 1) = 1 .. world.ends[batch]
           /\ batch = Len(world.ends) => DOMAIN Places = 1 .. world.ends[batch]
           /\ 1 .. world.ends[batch] \subseteq DOMAIN Places
<1> DEFINE ends == world.ends
           L == Len(ends)
<1>1. /\ ends \in Seq(Nat) /\ ends # <<>>
      /\ \A b, c \in DOMAIN ends : b <= c => ends[b] <= ends[c]
  BY DEF WorldInv
<1>2. batch \in 1 .. L
  BY DEF Shape
<1>3. L \in Nat
  BY <1>1, LenProperties
<1>4. \A b \in 1 .. L : ends[b] \in Nat
  BY <1>1, ElementOfSeq
<1>5. DOMAIN Places = 1 .. ends[L] /\ DOMAIN ends = 1 .. L
  BY <1>1, LenProperties DEF WorldInv
<1> HIDE DEF L
<1>6. batch # 1 => batch - 1 \in 1 .. L
  BY <1>2, <1>3
<1>7. Ordinals(batch) = (IF batch = 1 THEN 1 ELSE ends[batch - 1] + 1) .. ends[batch]
  BY DEF Ordinals
<1>8. \A b : Ordinals(b) = (IF b = 1 THEN 1 ELSE ends[b - 1] + 1) .. ends[b]
  BY DEF Ordinals
<1> HIDE DEF ends
<1>9. Ordinals(batch) \subseteq 1 .. ends[batch]
  <2>1. CASE batch = 1
    BY <1>7, <2>1
  <2>2. CASE batch # 1
    <3>1. ends[batch - 1] \in Nat /\ ends[batch] \in Nat
      BY <1>2, <1>4, <1>6, <2>2
    <3>2. Ordinals(batch) = (ends[batch - 1] + 1) .. ends[batch]
      BY <1>7, <2>2
    <3> QED
      BY <3>1, <3>2
  <2> QED
    BY <2>1, <2>2
<1>10. ASSUME batch < L
       PROVE  /\ batch + 1 \in 1 .. L /\ ends[batch + 1] \in Nat
              /\ (1 .. ends[batch + 1]) \ Ordinals(batch + 1) = 1 .. ends[batch]
  <2>1. batch + 1 \in 1 .. L /\ batch + 1 \in 2 .. L /\ (batch + 1) - 1 = batch /\ batch + 1 # 1
    BY <1>2, <1>3, <1>10
  <2>2. ends[batch] \in Nat /\ ends[batch + 1] \in Nat
    BY <1>2, <1>4, <2>1
  <2>3. ends[batch] <= ends[batch + 1]
    <3>1. batch \in DOMAIN ends /\ batch + 1 \in DOMAIN ends
      BY <1>2, <1>5, <2>1
    <3>2. batch <= batch + 1
      BY <1>2, <1>3
    <3> QED
      BY <1>1, <3>1, <3>2
  <2>4. Ordinals(batch + 1) = (ends[batch] + 1) .. ends[batch + 1]
    BY <1>8, <2>1
  <2> DEFINE low == ends[batch]
             high == ends[batch + 1]
  <2>5. low \in Nat /\ high \in Nat /\ low <= high
    BY <2>2, <2>3
  <2> HIDE DEF low, high
  <2>6. (1 .. high) \ ((low + 1) .. high) = 1 .. low
    BY <2>5
  <2> QED
    BY <2>1, <2>2, <2>4, <2>6 DEF low, high
<1>11. 1 .. ends[batch] \subseteq 1 .. ends[L]
  <2>1. L \in DOMAIN ends /\ batch \in DOMAIN ends /\ batch <= L
    BY <1>2, <1>3, <1>5
  <2> DEFINE low == ends[batch]
             high == ends[L]
  <2>2. low \in Nat /\ high \in Nat /\ low <= high
    BY <1>1, <1>4, <1>5, <2>1
  <2> HIDE DEF low, high
  <2>3. 1 .. low \subseteq 1 .. high
    BY <2>2
  <2> QED
    BY <2>3 DEF low, high
<1> QED
  BY <1>2, <1>4, <1>5, <1>9, <1>10, <1>11 DEF ends, L

LEMMA SendFailsKeepsInv ==
    ASSUME ConflateInv, NEW t \in Workers, SendFails(t)
    PROVE  ConflateInv'
BY AbortKeepsInv DEF SendFails

LEMMA MatchFaultKeepsInv ==
    ASSUME ConflateInv, NEW t \in Workers, MatchFault(t)
    PROVE  ConflateInv'
BY AbortKeepsInv, NotPublishedYet DEF MatchFault

LEMMA ReadFaultKeepsInv ==
    ASSUME ConflateInv, ReadFault
    PROVE  ConflateInv'
BY AbortKeepsInv, NotPublishedYet DEF ReadFault

LEMMA SecondPassFailsKeepsInv ==
    ASSUME ConflateInv, SecondPassFails
    PROVE  ConflateInv'
BY AbortKeepsInv, NotPublishedYet DEF SecondPassFails

LEMMA MatchKeepsInv ==
    ASSUME ConflateInv, NEW t \in Workers, Match(t)
    PROVE  ConflateInv'
<1>1. PICK i \in todo :
         /\ todo' = todo \ {i}
         /\ MatchNothing(t, i) \/ MatchExclusive(t, i) \/ MatchOpen(t, i)
  BY DEF Match
<1>2. /\ phase = "match" /\ phase' = phase /\ batch' = batch /\ world' = world
      /\ coverage' = coverage /\ second' = second /\ channel' = channel
      /\ received' = received /\ writer' = writer /\ file' = file /\ result' = result
      /\ worker[t] = Idle
  BY DEF Match, writerVars
<1>3. WorldInv /\ Shape /\ Gathered /\ Accounted /\ Published
  BY DEF ConflateInv
<1>4. WorldInv'
  BY <1>2, <1>3, WorldStays
<1>5. i \in 1 .. world.ends[batch] /\ todo' \subseteq Ordinals(batch)
  BY <1>1, <1>2, <1>3, BatchInside DEF Shape
<1>6. Begun' = Begun \cup {i} /\ i \notin Begun
  BY <1>1, <1>2, <1>5 DEF Begun
<1>7. /\ ExclusiveDone = {} /\ GoneDone = {} /\ ExclusiveDone' = {} /\ GoneDone' = {}
      /\ OpenDone = Open \cap Begun /\ OpenDone' = Open \cap Begun'
  BY <1>2, SameWorld DEF ExclusiveDone, GoneDone, OpenDone
<1>8. Published'
  BY <1>2, <1>3, NotPublishedYet DEF ConflateInv, Published
<1>9. \A j \in Open : MatchOf(j)' = MatchOf(j) /\ Row(j, MatchOf(j))' = Row(j, MatchOf(j))
  <2>1. \A j \in Open : MatchOf(j)' = MatchOf(j)
    BY <1>2, OpenIsNotExclusive, SameWorld
  <2> QED
    BY <1>2, <2>1 DEF Row, Places, Osm
<1>10. DOMAIN worker = Workers /\ InOrderOnTheWay
  BY <1>3 DEF Shape
<1>11. InOrderOnTheWay'
  BY <1>2, <1>10 DEF InOrderOnTheWay
<1>12. i \in DOMAIN Places
  BY <1>3, <1>5, BatchInside
<1>13. phase \in Phases
  BY <1>2 DEF Phases
<1>14. Failed' <=> Failed
  BY <1>2 DEF Failed
<1>15. matched = MatchesDone \ {0} /\ (~Failed => Sent = RowsDone /\ AllCounted)
  BY <1>3, <1>13 DEF Accounted, AllCounted
<1>16. CASE MatchNothing(t, i)
  <2>1. Matcher(i) = "none" /\ worker' = worker /\ exclusive' = exclusive /\ matched' = matched
    BY <1>16 DEF MatchNothing
  <2>2. i \notin Open /\ i \notin Exclusive
    BY <2>1 DEF Open, Exclusive, is_exclusive
  <2>3. OpenDone' = OpenDone
    BY <1>6, <1>7, <2>2
  <2>4. Sent' = Sent /\ \A X : NumSent(X)' = NumSent(X)
    BY <1>2, <2>1, RowsStay
  <2>5. RowsDone' = RowsDone /\ MatchesDone' = MatchesDone
    BY <1>7, <1>9, <2>3 DEF RowsDone, MatchesDone
  <2>6. \A X : NumDone(X)' = NumDone(X)
    BY <1>2, <1>7, <1>9, <2>3, NumberStays
  <2>7. Accounted'
    BY <1>14, <1>15, <2>1, <2>4, <2>5, <2>6 DEF Accounted, AllCounted
  <2>8. Gathered'
    BY <1>2, <1>3, <1>6, <2>1, <2>2, SameWorld DEF Gathered
  <2>9. Shape'
    BY <1>2, <1>3, <1>5, <1>11, <2>1, <2>4, SameWorld DEF Shape
  <2> QED
    BY <1>4, <1>8, <2>7, <2>8, <2>9 DEF ConflateInv
<1>17. CASE MatchExclusive(t, i)
  <2>1. /\ is_exclusive(Matcher(i)) /\ worker' = worker /\ matched' = matched
        /\ exclusive' = Append(exclusive, ExclusiveCandidates(i))
    BY <1>17 DEF MatchExclusive
  <2>2. i \notin Open /\ i \in Exclusive
    BY <1>12, <2>1, OpenIsNotExclusive DEF Exclusive
  <2>3. OpenDone' = OpenDone
    BY <1>6, <1>7, <2>2
  <2>4. Sent' = Sent /\ \A X : NumSent(X)' = NumSent(X)
    BY <1>2, <2>1, RowsStay
  <2>5. RowsDone' = RowsDone /\ MatchesDone' = MatchesDone
    BY <1>7, <1>9, <2>3 DEF RowsDone, MatchesDone
  <2>6. \A X : NumDone(X)' = NumDone(X)
    BY <1>2, <1>7, <1>9, <2>3, NumberStays
  <2>7. Accounted'
    BY <1>14, <1>15, <2>1, <2>4, <2>5, <2>6 DEF Accounted, AllCounted
  <2>8. Gathered'
    <3>1. PICK S : exclusive \in Seq(S)
      BY <1>3 DEF Gathered
    <3> DEFINE item == ExclusiveCandidates(i)
    <3>2. exclusive \in Seq(S \cup {item})
      BY <3>1, SeqMonotonic
    <3>3. item.ordinal = i
      BY DEF ExclusiveCandidates
    <3> HIDE DEF item
    <3>4. exclusive' \in Seq(S \cup {item}) /\ ToSet(exclusive') = ToSet(exclusive) \cup {item}
      BY <2>1, <3>2, ToSetAppend DEF item
    <3>5. {exclusive'[k].ordinal : k \in DOMAIN exclusive'}
             = {exclusive[k].ordinal : k \in DOMAIN exclusive} \cup {i}
      <4>1. {exclusive[k].ordinal : k \in DOMAIN exclusive} = {e.ordinal : e \in ToSet(exclusive)}
        BY DEF ToSet
      <4>2. {exclusive'[k].ordinal : k \in DOMAIN exclusive'} = {e.ordinal : e \in ToSet(exclusive')}
        BY DEF ToSet
      <4>3. {e.ordinal : e \in ToSet(exclusive) \cup {item}}
               = {e.ordinal : e \in ToSet(exclusive)} \cup {i}
        BY <3>3
      <4> QED
        BY <3>4, <4>1, <4>2, <4>3
    <3>6. Exclusive \cap Begun' = (Exclusive \cap Begun) \cup {i}
      BY <1>6, <2>2
    <3>7. {exclusive[k].ordinal : k \in DOMAIN exclusive} = Exclusive \cap Begun
      BY <1>2, <1>3, <1>13 DEF Gathered
    <3> QED
      BY <1>2, <3>4, <3>5, <3>6, <3>7, SameWorld DEF Gathered
  <2>9. Shape'
    BY <1>2, <1>3, <1>5, <1>11, <2>1, <2>4, SameWorld DEF Shape
  <2> QED
    BY <1>4, <1>8, <2>7, <2>8, <2>9 DEF ConflateInv
<1>18. CASE MatchOpen(t, i)
  <2> DEFINE r == IF candidates(i) = <<>> THEN 0 ELSE candidates(i)[1][2]
  <2>1. /\ Matcher(i) = "poi" /\ exclusive' = exclusive
        /\ matched' = matched \cup ({r} \ {0})
        /\ worker' = [worker EXCEPT ![t] = Row(i, r)]
    BY <1>18 DEF MatchOpen
  <2>2. i \in Open /\ i \notin Exclusive
    BY <1>12, <2>1, OpenIsNotExclusive DEF Open
  <2>3. r = MatchOf(i)
    BY <2>2 DEF MatchOf
  <2> HIDE DEF r
  <2>4. Row(i, r).kind = "row" /\ Row(i, r) # Idle
    BY DEF Row, Idle
  <2>5. Sent' = Sent \cup {Row(i, r)} /\ \A X : NumSent(X)' = NumSent(X) + One(X, Row(i, r))
    BY <1>2, <1>10, <2>1, <2>4, WorkerGetsRow
  <2>6. OpenDone' = OpenDone \cup {i} /\ i \notin OpenDone
    BY <1>6, <1>7, <2>2
  <2>7. \A j \in OpenDone' : MatchOf(j)' = MatchOf(j) /\ Row(j, MatchOf(j))' = Row(j, MatchOf(j))
    BY <1>7, <1>9, <2>2, <2>6
  <2>8. MatchesDone' = MatchesDone \cup {r}
    BY <1>7, <2>3, <2>6, <2>7 DEF MatchesDone
  <2>9. RowsDone' = RowsDone \cup {Row(i, r)}
    BY <1>7, <2>3, <2>6, <2>7 DEF RowsDone
  <2>10. ASSUME NEW X
         PROVE  NumDone(X)' = NumDone(X) + One(X, Row(i, r))
    <3>1. PlacesIn(OpenDone, X)' = IF Row(i, r) \in X THEN PlacesIn(OpenDone, X) \cup {i}
                                   ELSE PlacesIn(OpenDone, X)
      BY <2>3, <2>6, <2>7 DEF PlacesIn
    <3>2. i \notin PlacesIn(OpenDone, X)
      BY <2>6 DEF PlacesIn
    <3>3. Cardinality(PlacesIn(OpenDone, X)') = Cardinality(PlacesIn(OpenDone, X)) + One(X, Row(i, r))
      BY <1>3, <3>1, <3>2, DoneIsCounted, OneMore
    <3>4. PlacesIn(ExclusiveDone, X)' = {} /\ PlacesIn(ExclusiveDone, X) = {}
      BY <1>7 DEF PlacesIn
    <3>5. FeaturesIn(GoneDone, X)' = {} /\ FeaturesIn(GoneDone, X) = {}
      BY <1>7 DEF FeaturesIn
    <3>6. Cardinality(PlacesIn(OpenDone, X)) \in Nat /\ One(X, Row(i, r)) \in Nat
      BY <1>3, DoneIsCounted DEF One
    <3> QED
      BY <3>3, <3>4, <3>5, <3>6, FS_EmptySet DEF NumDone
  <2>11. Accounted'
    BY <1>14, <1>15, <2>1, <2>5, <2>8, <2>9, <2>10 DEF Accounted, AllCounted
  <2>12. Gathered'
    BY <1>2, <1>3, <1>6, <2>1, <2>2, SameWorld DEF Gathered
  <2>13. DOMAIN worker' = Workers
    BY <1>10, <2>1
  <2>14. Shape'
    BY <1>2, <1>3, <1>5, <1>11, <2>4, <2>5, <2>13, SameWorld DEF Shape
  <2> QED
    BY <1>4, <1>8, <2>11, <2>12, <2>14 DEF ConflateInv
<1> QED
  BY <1>1, <1>16, <1>17, <1>18

LEMMA NextBatchKeepsInv ==
    ASSUME ConflateInv, NextBatch
    PROVE  ConflateInv'
<1>1. /\ phase = "match" /\ todo = {} /\ AllIdle /\ world' = world /\ exclusive' = exclusive
      /\ matched' = matched /\ worker' = worker /\ channel' = channel /\ received' = received
      /\ writer' = writer /\ file' = file /\ result' = result
  BY DEF NextBatch, writerVars
<1>2. WorldInv /\ Shape /\ Gathered /\ Accounted /\ Published
  BY DEF ConflateInv
<1>3. WorldInv'
  BY <1>1, <1>2, WorldStays
<1>4. Published'
  BY <1>1, NotPublishedYet DEF Published
<1>5. Sent' = Sent /\ (\A X : NumSent(X)' = NumSent(X)) /\ InOrderOnTheWay'
  BY <1>1, <1>2, RowsStay DEF Shape
<1>6. Failed' <=> Failed
  BY <1>1 DEF NextBatch, Failed
<1>7. phase \in Phases /\ phase' \in Phases
  BY <1>1 DEF NextBatch, Phases
<1>8. matched = MatchesDone \ {0} /\ (~Failed => Sent = RowsDone /\ AllCounted)
  BY <1>2, <1>7 DEF Accounted, AllCounted
<1>9. \A i : MatchOf(i)' = MatchOf(i)
  BY <1>1, SameWorld
<1>10. \A i : Row(i, MatchOf(i))' = Row(i, MatchOf(i))
  BY <1>1, <1>9 DEF Row, Places, Osm
<1>11. Begun = 1 .. world.ends[batch] /\ ExclusiveDone = {} /\ GoneDone = {}
  BY <1>1 DEF Begun, ExclusiveDone, GoneDone
<1>12. OpenDone = Open \cap Begun
  BY <1>1 DEF OpenDone
<1>13. AllIdle'
  BY <1>1 DEF AllIdle
<1>14. OpenDone' = OpenDone /\ ExclusiveDone' = {} /\ GoneDone' = {} /\ Gathered' /\ Shape'
  <2>1. CASE batch < Len(world.ends)
    <3>1. /\ batch' = batch + 1 /\ todo' = Ordinals(batch + 1) /\ phase' = "match"
      BY <1>1, <2>1 DEF NextBatch
    <3>2. Begun' = 1 .. world.ends[batch]
      BY <1>1, <1>2, <2>1, <3>1, BatchInside DEF Begun
    <3>3. OpenDone' = OpenDone /\ ExclusiveDone' = {} /\ GoneDone' = {}
      BY <1>1, <1>11, <1>12, <3>1, <3>2, SameWorld DEF OpenDone, ExclusiveDone, GoneDone
    <3>4. Gathered'
      BY <1>1, <1>2, <1>11, <3>1, <3>2, SameWorld DEF Gathered
    <3>5. Shape'
      <4>1. batch' \in 1 .. Len(world'.ends) /\ todo' \subseteq Ordinals(batch)'
        BY <1>1, <1>2, <2>1, <3>1, BatchInside DEF Ordinals
      <4> QED
        BY <1>1, <1>2, <1>5, <3>1, <4>1 DEF Shape, Phases
    <3> QED
      BY <3>3, <3>4, <3>5
  <2>2. CASE ~(batch < Len(world.ends))
    <3>1. /\ batch' = batch /\ todo' = todo /\ phase' = "second"
          /\ second' = {exclusive[k].ordinal : k \in DOMAIN exclusive}
      BY <1>1, <2>2 DEF NextBatch
    <3>2. batch = Len(world.ends)
      <4>1. batch \in 1 .. Len(world.ends) /\ Len(world.ends) \in Nat
        BY <1>2, LenProperties DEF Shape, WorldInv
      <4> QED
        BY <2>2, <4>1
    <3>3. Begun = DOMAIN Places
      BY <1>2, <1>11, <3>2, BatchInside
    <3>4. Open \subseteq Begun /\ Exclusive \subseteq Begun
      BY <3>3 DEF Open, Exclusive
    <3>5. second' = Exclusive
      BY <1>1, <1>2, <1>7, <3>1, <3>4 DEF Gathered
    <3>6. OpenDone' = OpenDone /\ ExclusiveDone' = {} /\ GoneDone' = {}
      BY <1>1, <1>12, <3>1, <3>4, <3>5, SameWorld DEF OpenDone, ExclusiveDone, GoneDone
    <3>7. Gathered'
      BY <1>1, <1>2, <3>1, <3>5, SameWorld DEF Gathered
    <3>8. Shape'
      BY <1>1, <1>2, <1>5, <1>13, <3>1, <3>5, SameWorld DEF Shape, Phases
    <3> QED
      BY <3>6, <3>7, <3>8
  <2> QED
    BY <2>1, <2>2
<1>15. RowsDone' = RowsDone /\ MatchesDone' = MatchesDone
  BY <1>9, <1>10, <1>11, <1>14 DEF RowsDone, MatchesDone
<1>17. \A X : NumDone(X)' = NumDone(X)
  BY <1>1, <1>10, <1>11, <1>14, NumberStays
<1>16. Accounted'
  BY <1>1, <1>5, <1>6, <1>8, <1>15, <1>17 DEF Accounted, AllCounted
<1> QED
  BY <1>3, <1>4, <1>14, <1>16 DEF ConflateInv

LEMMA SecondPassKeepsInv ==
    ASSUME ConflateInv, SecondPass
    PROVE  ConflateInv'
<1>1. PICK i \in second :
         LET r == assign_exclusive(exclusive)[i] IN
         /\ matched' = matched \cup ({r} \ {0})
         /\ channel' = Append(channel, Row(i, r))
         /\ second' = second \ {i}
  BY DEF SecondPass
<1>2. /\ phase = "second" /\ writer = "receiving" /\ world' = world /\ phase' = phase
      /\ batch' = batch /\ todo' = todo /\ worker' = worker /\ exclusive' = exclusive
      /\ coverage' = coverage /\ received' = received /\ writer' = writer /\ file' = file
      /\ result' = result
  BY DEF SecondPass, writerVars
<1> DEFINE r == MatchOf(i)
<1>3. WorldInv /\ Shape /\ Gathered /\ Accounted /\ Published
  BY DEF ConflateInv
<1>4. WorldInv'
  BY <1>2, <1>3, WorldStays
<1>5. Published'
  BY <1>2, NotPublishedYet DEF Published
<1>6. i \in Exclusive
  BY <1>2, <1>3 DEF Shape
<1>7. /\ matched' = matched \cup ({r} \ {0})
      /\ channel' = Append(channel, Row(i, r)) /\ second' = second \ {i}
  BY <1>1, <1>6 DEF MatchOf
<1> HIDE DEF r
<1>8. phase \in Phases /\ phase' \in Phases /\ (Failed' <=> Failed)
  BY <1>2 DEF Phases, Failed
<1>9. matched = MatchesDone \ {0} /\ (~Failed => Sent = RowsDone /\ AllCounted)
  BY <1>3, <1>8 DEF Accounted, AllCounted
<1>10. /\ Sent' = Sent \cup {Row(i, r)} /\ InOrderOnTheWay'
       /\ \A X : NumSent(X)' = NumSent(X) + One(X, Row(i, r))
  BY <1>2, <1>3, <1>7, ChannelGetsRow DEF Shape
<1>11. ExclusiveDone' = ExclusiveDone \cup {i} /\ i \notin ExclusiveDone
  BY <1>1, <1>2, <1>6, <1>7, SameWorld DEF ExclusiveDone
<1>12. OpenDone' = OpenDone /\ GoneDone = {} /\ GoneDone' = {}
  BY <1>2, SameWorld DEF OpenDone, GoneDone
<1>13. \A j : MatchOf(j)' = MatchOf(j)
  BY <1>2, SameWorld
<1>14. \A j : Row(j, MatchOf(j))' = Row(j, MatchOf(j))
  BY <1>2, <1>13 DEF Row, Places, Osm
<1>15. MatchesDone' = MatchesDone \cup {r}
  BY <1>11, <1>12, <1>13 DEF MatchesDone, r
<1>16. RowsDone' = RowsDone \cup {Row(i, r)}
  BY <1>11, <1>12, <1>14 DEF RowsDone, r
<1>17. ASSUME NEW X
       PROVE  NumDone(X)' = NumDone(X) + One(X, Row(i, r))
  <2>1. PlacesIn(ExclusiveDone, X)' = IF Row(i, r) \in X THEN PlacesIn(ExclusiveDone, X) \cup {i}
                                      ELSE PlacesIn(ExclusiveDone, X)
    BY <1>11, <1>14 DEF PlacesIn, r
  <2>2. i \notin PlacesIn(ExclusiveDone, X)
    BY <1>11 DEF PlacesIn
  <2>3. Cardinality(PlacesIn(ExclusiveDone, X)')
           = Cardinality(PlacesIn(ExclusiveDone, X)) + One(X, Row(i, r))
    BY <1>3, <2>1, <2>2, DoneIsCounted, OneMore
  <2>4. PlacesIn(OpenDone, X)' = PlacesIn(OpenDone, X)
    BY <1>12, <1>14 DEF PlacesIn
  <2>5. FeaturesIn(GoneDone, X)' = {} /\ FeaturesIn(GoneDone, X) = {}
    BY <1>12 DEF FeaturesIn
  <2>6. /\ Cardinality(PlacesIn(OpenDone, X)) \in Nat /\ One(X, Row(i, r)) \in Nat
        /\ Cardinality(PlacesIn(ExclusiveDone, X)) \in Nat
    BY <1>3, DoneIsCounted DEF One
  <2> QED
    BY <2>3, <2>4, <2>5, <2>6, FS_EmptySet DEF NumDone
<1>18. Accounted'
  BY <1>7, <1>8, <1>9, <1>10, <1>15, <1>16, <1>17 DEF Accounted, AllCounted
<1>19. Gathered'
  BY <1>2, <1>3, SameWorld DEF Gathered, Phases
<1>20. Shape'
  <2>1. Row(i, r).kind = "row"
    BY DEF Row
  <2>2. second' \subseteq Exclusive' /\ AllIdle'
    BY <1>2, <1>3, <1>7, SameWorld DEF Shape, AllIdle
  <2> QED
    BY <1>2, <1>3, <1>8, <1>10, <2>1, <2>2 DEF Shape
<1> QED
  BY <1>4, <1>5, <1>18, <1>19, <1>20 DEF ConflateInv

LEMMA BeginDeletionKeepsInv ==
    ASSUME ConflateInv, BeginDeletion
    PROVE  ConflateInv'
<1>1. /\ phase = "second" /\ second = {} /\ phase' = "delete"
      /\ todo' = {r \in DOMAIN Osm : r \notin matched}
      /\ world' = world /\ batch' = batch /\ exclusive' = exclusive /\ matched' = matched
      /\ coverage' = coverage /\ worker' = worker /\ channel' = channel
      /\ received' = received /\ writer' = writer /\ file' = file /\ result' = result
  BY DEF BeginDeletion, writerVars
<1>2. WorldInv /\ Shape /\ Gathered /\ Accounted /\ Published
  BY DEF ConflateInv
<1>3. WorldInv'
  BY <1>1, <1>2, WorldStays
<1>4. Published'
  BY <1>1, NotPublishedYet DEF Published
<1>5. Sent' = Sent /\ (\A X : NumSent(X)' = NumSent(X)) /\ InOrderOnTheWay'
  BY <1>1, <1>2, RowsStay DEF Shape
<1>6. OpenDone' = OpenDone
  BY <1>1, SameWorld DEF OpenDone
<1>7. ExclusiveDone' = ExclusiveDone
  BY <1>1, SameWorld DEF ExclusiveDone
<1>8. GoneDone = {} /\ GoneDone' = {}
  BY <1>1, SameWorld DEF GoneDone
<1>9. \A i : MatchOf(i)' = MatchOf(i)
  BY <1>1, SameWorld
<1>10. \A i : Row(i, MatchOf(i))' = Row(i, MatchOf(i))
  BY <1>1, <1>9 DEF Row, Places, Osm
<1>11. RowsDone' = RowsDone /\ MatchesDone' = MatchesDone
  BY <1>6, <1>7, <1>8, <1>9, <1>10 DEF RowsDone, MatchesDone
<1>16. \A X : NumDone(X)' = NumDone(X)
  BY <1>1, <1>6, <1>7, <1>8, <1>10, NumberStays
<1>12. phase \in Phases /\ phase' \in Phases /\ (Failed' <=> Failed)
  BY <1>1 DEF Phases, Failed
<1>13. Accounted'
  BY <1>1, <1>2, <1>5, <1>11, <1>12, <1>16 DEF Accounted, AllCounted
<1>14. Gathered'
  BY <1>1, <1>2, <1>12, SameWorld DEF Gathered
<1>15. Shape'
  BY <1>1, <1>2, <1>5, <1>12, SameWorld DEF Shape
<1> QED
  BY <1>3, <1>4, <1>13, <1>14, <1>15 DEF ConflateInv

LEMMA DeletionKeepsInv ==
    ASSUME ConflateInv, NEW t \in Workers, send_deletion_candidates(t)
    PROVE  ConflateInv'
<1>1. PICK r \in todo :
         /\ todo' = todo \ {r}
         /\ worker' = IF deletion_reason(Osm[r], coverage) = "none" THEN worker
                      ELSE [worker EXCEPT ![t] = OsmRow(r)]
  BY DEF send_deletion_candidates
<1>2. /\ phase = "delete" /\ phase' = phase /\ worker[t] = Idle
      /\ world' = world /\ batch' = batch /\ exclusive' = exclusive /\ matched' = matched
      /\ coverage' = coverage /\ second' = second /\ channel' = channel
      /\ received' = received /\ writer' = writer /\ file' = file /\ result' = result
  BY DEF send_deletion_candidates, writerVars
<1>3. WorldInv /\ Shape /\ Gathered /\ Accounted /\ Published
  BY DEF ConflateInv
<1>4. WorldInv'
  BY <1>2, <1>3, WorldStays
<1>5. Published'
  BY <1>2, NotPublishedYet DEF Published
<1>6. r \in DOMAIN Osm \ matched /\ todo \subseteq DOMAIN Osm \ matched
  BY <1>1, <1>2, <1>3 DEF Shape
<1>7. OpenDone' = OpenDone /\ ExclusiveDone' = ExclusiveDone
  BY <1>2, SameWorld DEF OpenDone, ExclusiveDone
<1>8. \A i : MatchOf(i)' = MatchOf(i)
  BY <1>2, SameWorld
<1>9. \A i : Row(i, MatchOf(i))' = Row(i, MatchOf(i))
  BY <1>2, <1>8 DEF Row, Places, Osm
<1>10. MatchesDone' = MatchesDone
  BY <1>7, <1>8 DEF MatchesDone
<1>11. phase \in Phases /\ phase' \in Phases /\ (Failed' <=> Failed)
  BY <1>2 DEF Phases, Failed
<1>12. Gathered'
  BY <1>2, <1>3, <1>11, SameWorld DEF Gathered
<1>13. \A q : LooksGone(q)' = LooksGone(q)
  BY <1>2 DEF LooksGone, Osm
<1>14. /\ GoneDone = {q \in DOMAIN Osm \ (matched \cup todo) : LooksGone(q)}
       /\ GoneDone' = {q \in DOMAIN Osm \ (matched \cup (todo \ {r})) : LooksGone(q)}
  BY <1>1, <1>2, <1>13, SameWorld DEF GoneDone
<1>15. matched = MatchesDone \ {0} /\ (~Failed => Sent = RowsDone /\ AllCounted)
  BY <1>3, <1>11 DEF Accounted, AllCounted
<1>16. InOrderOnTheWay'
  BY <1>2, <1>3 DEF Shape, InOrderOnTheWay
<1>17. todo' \subseteq DOMAIN Osm' \ matched'
  BY <1>1, <1>2, <1>6, SameWorld
<1>18. CASE ~LooksGone(r)
  <2>1. worker' = worker
    BY <1>1, <1>18 DEF LooksGone
  <2>2. GoneDone' = GoneDone
    BY <1>14, <1>18
  <2>3. Sent' = Sent /\ \A X : NumSent(X)' = NumSent(X)
    BY <1>2, <2>1, RowsStay
  <2>4. RowsDone' = RowsDone
    BY <1>2, <1>7, <1>9, <2>2, SameWorld DEF RowsDone
  <2>5. \A X : NumDone(X)' = NumDone(X)
    BY <1>2, <1>7, <1>9, <2>2, NumberStays
  <2>6. Accounted'
    BY <1>2, <1>10, <1>11, <1>15, <2>3, <2>4, <2>5 DEF Accounted, AllCounted
  <2>7. Shape'
    BY <1>2, <1>3, <1>16, <1>17, <2>1, <2>3 DEF Shape
  <2> QED
    BY <1>4, <1>5, <1>12, <2>6, <2>7 DEF ConflateInv
<1>19. CASE LooksGone(r)
  <2>1. worker' = [worker EXCEPT ![t] = OsmRow(r)]
    BY <1>1, <1>19 DEF LooksGone
  <2>2. GoneDone' = GoneDone \cup {r} /\ r \notin GoneDone
    BY <1>6, <1>14, <1>19
  <2>3. OsmRow(r).kind = "row" /\ OsmRow(r) # Idle
    BY DEF OsmRow, Idle
  <2>4. DOMAIN worker = Workers /\ InOrderOnTheWay
    BY <1>3 DEF Shape
  <2>5. Sent' = Sent \cup {OsmRow(r)} /\ \A X : NumSent(X)' = NumSent(X) + One(X, OsmRow(r))
    BY <1>2, <2>1, <2>3, <2>4, WorkerGetsRow
  <2>6. RowsDone' = RowsDone \cup {OsmRow(r)}
    BY <1>2, <1>7, <1>9, <2>2, SameWorld DEF RowsDone
  <2>7. ASSUME NEW X
        PROVE  NumDone(X)' = NumDone(X) + One(X, OsmRow(r))
    <3>1. \A q : OsmRow(q)' = OsmRow(q)
      BY <1>2, SameWorld
    <3>2. FeaturesIn(GoneDone, X)' = IF OsmRow(r) \in X THEN FeaturesIn(GoneDone, X) \cup {r}
                                     ELSE FeaturesIn(GoneDone, X)
      BY <2>2, <3>1 DEF FeaturesIn
    <3>3. r \notin FeaturesIn(GoneDone, X)
      BY <2>2 DEF FeaturesIn
    <3>4. Cardinality(FeaturesIn(GoneDone, X)')
             = Cardinality(FeaturesIn(GoneDone, X)) + One(X, OsmRow(r))
      BY <1>3, <3>2, <3>3, DoneIsCounted, OneMore
    <3>5. PlacesIn(OpenDone, X)' = PlacesIn(OpenDone, X)
      BY <1>7, <1>9 DEF PlacesIn
    <3>6. PlacesIn(ExclusiveDone, X)' = PlacesIn(ExclusiveDone, X)
      BY <1>7, <1>9 DEF PlacesIn
    <3>7. /\ Cardinality(PlacesIn(OpenDone, X)) \in Nat /\ One(X, OsmRow(r)) \in Nat
          /\ Cardinality(PlacesIn(ExclusiveDone, X)) \in Nat
          /\ Cardinality(FeaturesIn(GoneDone, X)) \in Nat
      BY <1>3, DoneIsCounted DEF One
    <3> QED
      BY <3>4, <3>5, <3>6, <3>7 DEF NumDone
  <2>8. Accounted'
    BY <1>2, <1>10, <1>11, <1>15, <2>5, <2>6, <2>7 DEF Accounted, AllCounted
  <2>9. DOMAIN worker' = Workers
    BY <2>1, <2>4
  <2>10. Shape'
    BY <1>2, <1>3, <1>16, <1>17, <2>3, <2>5, <2>9 DEF Shape
  <2> QED
    BY <1>4, <1>5, <1>12, <2>8, <2>10 DEF ConflateInv
<1> QED
  BY <1>18, <1>19

LEMMA EndProduceKeepsInv ==
    ASSUME ConflateInv, EndProduce
    PROVE  ConflateInv'
<1>1. /\ phase = "delete" /\ todo = {} /\ AllIdle /\ phase' = "done"
      /\ world' = world /\ batch' = batch /\ exclusive' = exclusive /\ matched' = matched
      /\ coverage' = coverage /\ worker' = worker /\ channel' = channel
      /\ received' = received /\ writer' = writer /\ file' = file /\ result' = result
  BY DEF EndProduce, writerVars
<1>2. WorldInv /\ Shape /\ Gathered /\ Accounted /\ Published
  BY DEF ConflateInv
<1>3. WorldInv'
  BY <1>1, <1>2, WorldStays
<1>4. Published'
  BY <1>1, NotPublishedYet DEF Published
<1>5. Sent' = Sent /\ (\A X : NumSent(X)' = NumSent(X)) /\ InOrderOnTheWay'
  BY <1>1, <1>2, RowsStay DEF Shape
<1>6. OpenDone' = OpenDone /\ ExclusiveDone' = ExclusiveDone
  BY <1>1, SameWorld DEF OpenDone, ExclusiveDone
<1>7. \A r : LooksGone(r)' = LooksGone(r)
  BY <1>1 DEF LooksGone, Osm
<1>8. GoneDone' = GoneDone
  BY <1>1, <1>7, SameWorld DEF GoneDone
<1>9. \A i : MatchOf(i)' = MatchOf(i)
  BY <1>1, SameWorld
<1>10. \A i : Row(i, MatchOf(i))' = Row(i, MatchOf(i))
  BY <1>1, <1>9 DEF Row, Places, Osm
<1>11. RowsDone' = RowsDone /\ MatchesDone' = MatchesDone
  BY <1>1, <1>6, <1>8, <1>9, <1>10, SameWorld DEF RowsDone, MatchesDone
<1>16. \A X : NumDone(X)' = NumDone(X)
  BY <1>1, <1>6, <1>8, <1>10, NumberStays
<1>12. phase \in Phases /\ phase' \in Phases /\ (Failed' <=> Failed)
  BY <1>1 DEF Phases, Failed
<1>13. Accounted'
  BY <1>1, <1>2, <1>5, <1>11, <1>12, <1>16 DEF Accounted, AllCounted
<1>14. Gathered'
  BY <1>1, <1>2, <1>12, SameWorld DEF Gathered
<1>15. Shape'
  BY <1>1, <1>2, <1>5, <1>12, SameWorld DEF Shape, AllIdle
<1> QED
  BY <1>3, <1>4, <1>13, <1>14, <1>15 DEF ConflateInv

LEMMA StutterKeepsInv ==
    ASSUME ConflateInv, UNCHANGED vars
    PROVE  ConflateInv'
<1>1. /\ UNCHANGED <<world, producerVars>> /\ UNCHANGED <<worker, channel, received>>
      /\ phase' = phase /\ batch' = batch /\ todo' = todo /\ matched' = matched
      /\ second' = second /\ writer' = writer /\ file' = file /\ result' = result
  BY DEF vars, producerVars, writerVars
<1>2. WorldInv' /\ Gathered'
  BY <1>1, WorldStays, ProducerWaits DEF ConflateInv
<1>3. Sent' = Sent /\ (\A X : NumSent(X)' = NumSent(X)) /\ InOrderOnTheWay'
  BY <1>1, RowsStay DEF ConflateInv, Shape
<1>4. Shape'
  BY <1>1, <1>3, SameWorld DEF ConflateInv, Shape, AllIdle
<1>5. Accounted'
  BY <1>1, <1>3, ProducerWaits DEF ConflateInv, Accounted, AllCounted, Failed
<1>6. Published'
  BY <1>1 DEF ConflateInv, Published, AllIdle
<1> QED
  BY <1>2, <1>4, <1>5, <1>6 DEF ConflateInv

LEMMA NextKeepsInv == ConflateInv /\ [Next]_vars => ConflateInv'
<1> SUFFICES ASSUME ConflateInv, [Next]_vars
             PROVE  ConflateInv'
  OBVIOUS
<1>1. CASE Step
  BY <1>1, ReceiveKeepsInv, ReturnKeepsInv, BeginDeletionKeepsInv, EndProduceKeepsInv,
     SendKeepsInv, SendFailsKeepsInv, MatchKeepsInv, DeletionKeepsInv, NextBatchKeepsInv,
     SecondPassKeepsInv, SecondPassFailsKeepsInv, PublishKeepsInv DEF Step
<1>2. CASE (\E t \in Workers : MatchFault(t)) \/ ReadFault \/ WriterFault
  BY <1>2, MatchFaultKeepsInv, ReadFaultKeepsInv, WriterFaultKeepsInv
<1>3. CASE UNCHANGED vars
  BY <1>3, StutterKeepsInv
<1> QED
  BY <1>1, <1>2, <1>3 DEF Next

-----------------------------------------------------------------------------
(***************************************************************************)
(* The start.                                                              *)
(***************************************************************************)
LEMMA WorldAtStart ==
    ASSUME NEW input \in Worlds, world = WorldOf(input)
    PROVE  WorldInv
<1>1. /\ world.places = input.places /\ world.osm = Stored(input.osm) /\ world.ends = input.ends
      /\ world.matcher = [i \in DOMAIN input.places |->
                             create_matcher(input.places[i], Know(input.places))]
  BY DEF WorldOf
<1>2. /\ input.places \in Seq(ToSet(input.places)) /\ input.osm \in Seq(ToSet(input.osm))
      /\ \A place \in ToSet(input.places) :
            /\ place.at \in Nat /\ place.rank \in Nat /\ place.shape \in Nat
            /\ place.spider \in ToSet(SpiderOrder)
      /\ \A feature \in ToSet(input.osm) : feature.at \in Nat /\ feature.id \in Nat
      /\ input.ends \in Seq(Nat) /\ input.ends # <<>>
      /\ \A b, c \in DOMAIN input.ends : b <= c => input.ends[b] <= input.ends[c]
      /\ input.ends[Len(input.ends)] = Len(input.places)
  BY WorldsAssumption DEF Last, IsInput
<1>3. DOMAIN input.places = 1 .. Len(input.places) /\ Len(input.places) \in Nat
  BY <1>2, LenProperties
<1>4. Len(input.osm) \in Nat
  BY <1>2, LenProperties
<1>5. /\ DOMAIN Osm = 1 .. Len(input.osm)
      /\ \A r \in DOMAIN Osm : Osm[r] \in ToSet(input.osm)
  BY <1>1, <1>2, StoredAreFeatures DEF Osm
<1>6. \A i \in DOMAIN input.places : input.places[i] \in ToSet(input.places)
  BY DEF ToSet
<1>7. \A place, know : create_matcher(place, know) \in {"none", "poi", "transit", "infrastructure"}
  BY DEF create_matcher
<1>8. \A i \in DOMAIN Places : Matcher(i) \in {"none", "poi", "transit", "infrastructure"}
  BY <1>1, <1>7 DEF Matcher, Places
<1> QED
  BY <1>1, <1>2, <1>3, <1>4, <1>5, <1>6, <1>8 DEF WorldInv, Places

LEMMA InitHasInv == Init => ConflateInv
<1> SUFFICES ASSUME Init
             PROVE  ConflateInv
  OBVIOUS
<1>1. WorldInv
  BY WorldAtStart DEF Init
<1>2. /\ phase = "match" /\ batch = 1 /\ todo = Ordinals(1) /\ worker = [t \in Workers |-> Idle]
      /\ exclusive = <<>> /\ matched = {} /\ channel = <<>> /\ received = <<>>
      /\ writer = "receiving" /\ result = "running"
  BY DEF Init
<1>3. Busy = {} /\ Sent = {} /\ \A X : NumSent(X) = 0
  <2>1. Busy = {}
    BY <1>2 DEF Busy
  <2>2. Sent = {}
    BY <1>2, <2>1, ToSetEmpty DEF Sent
  <2>3. \A X : Cardinality(At(channel, X)) = 0 /\ Cardinality(At(received, X)) = 0
    BY <1>2, AtEmpty
  <2>4. \A X : NumSent(X) = 0
    BY <2>1, <2>3, BusyIsFinite DEF NumSent
  <2> QED
    BY <2>1, <2>2, <2>4
<1>4. Shape
  <2>1. batch \in 1 .. Len(world.ends)
    <3>1. Len(world.ends) \in Nat /\ Len(world.ends) # 0
      BY <1>1, LenProperties, EmptySeq DEF WorldInv
    <3> QED
      BY <1>2, <3>1
  <2>2. InOrderOnTheWay
    <3>1. <<>> \in Seq({})
      BY EmptySeq
    <3> QED
      BY <1>2, <3>1 DEF InOrderOnTheWay
  <2> QED
    BY <1>2, <1>3, <2>1, <2>2 DEF Shape, Phases
<1>5. Begun = {}
  <2>1. Ordinals(1) = 1 .. world.ends[1]
    BY DEF Ordinals
  <2> QED
    BY <1>2, <2>1 DEF Begun
<1>6. OpenDone = {} /\ ExclusiveDone = {} /\ GoneDone = {}
  BY <1>2, <1>5 DEF OpenDone, ExclusiveDone, GoneDone
<1>7. Gathered
  <2>1. exclusive \in Seq({})
    BY <1>2, EmptySeq
  <2>2. DOMAIN exclusive = {}
    BY <1>2
  <2> QED
    BY <1>2, <1>5, <2>1, <2>2 DEF Gathered
<1>8. Accounted
  <2>1. RowsDone = {} /\ MatchesDone = {}
    BY <1>6 DEF RowsDone, MatchesDone
  <2>2. \A X : NumDone(X) = 0
    BY <1>6, FS_EmptySet DEF NumDone, PlacesIn, FeaturesIn
  <2> QED
    BY <1>2, <1>3, <2>1, <2>2 DEF Accounted, AllCounted
<1>9. Published
  BY <1>2 DEF Published
<1> QED
  BY <1>1, <1>4, <1>7, <1>8, <1>9 DEF ConflateInv

-----------------------------------------------------------------------------
(***************************************************************************)
(* The theorem.                                                            *)
(***************************************************************************)
LEMMA SentAreComparable ==
    ASSUME WorldInv, NEW row \in RowsDone
    PROVE  RowsComparable(row)
<1>1. ASSUME NEW i \in DOMAIN Places, NEW q
      PROVE  RowsComparable(Row(i, q))
  <2>1. /\ Places[i].at \in Nat /\ Places[i].rank \in Nat /\ Places[i].shape \in Nat
        /\ Places[i].spider \in ToSet(SpiderOrder)
    BY DEF WorldInv
  <2>2. (IF q \in DOMAIN Osm THEN Osm[q].id ELSE 0) \in Nat
    BY DEF WorldInv
  <2> QED
    BY <2>1, <2>2 DEF RowsComparable, Row
<1>2. ASSUME NEW q \in DOMAIN Osm
      PROVE  RowsComparable(OsmRow(q))
  <2>1. Osm[q].at \in Nat /\ Osm[q].id \in Nat
    BY DEF WorldInv
  <2> QED
    BY <2>1 DEF RowsComparable, OsmRow
<1>3. OpenDone \cup ExclusiveDone \subseteq DOMAIN Places /\ GoneDone \subseteq DOMAIN Osm
  BY DEF OpenDone, ExclusiveDone, GoneDone, Open, Exclusive
<1> QED
  BY <1>1, <1>2, <1>3 DEF RowsDone

\* What the writer of a whole file has received.
LEMMA ReceivedRows ==
    ASSUME ConflateInv, writer = "published", phase = "done"
    PROVE  /\ \E S : received \in Seq(S)
           /\ \A row \in ToSet(received) : RowsComparable(row)
           /\ ToSet(received) =
                {Row(i, MatchOf(i)) : i \in WithMatcher} \cup {OsmRow(r) : r \in Gone}
           /\ \A X : Cardinality(At(received, X)) =
                Cardinality(PlacesIn(WithMatcher, X)) + Cardinality(FeaturesIn(Gone, X))
           /\ IsFiniteSet(WithMatcher) /\ IsFiniteSet(Gone)
<1>1. WorldInv /\ Shape /\ Accounted
  BY DEF ConflateInv
<1>2. AllIdle /\ channel = <<>>
  BY DEF ConflateInv, Published
<1>3. Sent = RowsDone /\ AllCounted /\ matched = MatchesDone \ {0}
  BY <1>1 DEF Accounted, Failed, Phases
<1>4. Busy = {}
  BY <1>2 DEF AllIdle, Busy
<1>5. ToSet(received) = RowsDone
  BY <1>2, <1>3, <1>4, ToSetEmpty DEF Sent
<1>6. PICK S : received \in Seq(S)
  BY <1>1 DEF Shape, InOrderOnTheWay
<1>7. \A X : Cardinality(At(received, X)) = NumDone(X)
  <2> SUFFICES ASSUME NEW X
               PROVE  Cardinality(At(received, X)) = NumDone(X)
    OBVIOUS
  <2>1. Cardinality(At(channel, X)) = 0 /\ Cardinality(BusyWith(X)) = 0
    BY <1>2, <1>4, BusyIsFinite, AtEmpty
  <2>2. Cardinality(At(received, X)) \in Nat
    BY <1>6, AtIsFinite
  <2>3. NumSent(X) = NumDone(X)
    BY <1>3 DEF AllCounted
  <2> QED
    BY <2>1, <2>2, <2>3 DEF NumSent
<1>8. \A row \in ToSet(received) : RowsComparable(row)
  BY <1>1, <1>5, SentAreComparable
<1>9. /\ OpenDone = Open /\ ExclusiveDone = Exclusive
      /\ GoneDone = {r \in DOMAIN Osm \ matched : LooksGone(r)}
  BY DEF OpenDone, ExclusiveDone, GoneDone
<1>10. WithMatcher = Open \cup Exclusive
  BY <1>1 DEF WithMatcher, Open, Exclusive, is_exclusive, WorldInv
<1>11. GoneDone = Gone
  <2>1. \A r \in DOMAIN Osm : r # 0
    BY <1>1 DEF WorldInv
  <2>2. \A r \in DOMAIN Osm : r \in matched <=> \E i \in WithMatcher : MatchOf(i) = r
    BY <1>3, <1>9, <1>10, <2>1 DEF MatchesDone
  <2>3. \A r \in DOMAIN Osm :
           (r \notin matched /\ LooksGone(r)) <=>
             ((\A i \in WithMatcher : MatchOf(i) # r) /\ deletion_reason(Osm[r], coverage) # "none")
    BY <2>2 DEF LooksGone
  <2>4. GoneDone = {r \in DOMAIN Osm : r \notin matched /\ LooksGone(r)}
    BY <1>9
  <2>5. Gone = {r \in DOMAIN Osm : (\A i \in WithMatcher : MatchOf(i) # r)
                                    /\ deletion_reason(Osm[r], coverage) # "none"}
    BY DEF Gone
  <2> QED
    BY <2>3, <2>4, <2>5
<1>12. ASSUME NEW X
       PROVE  Cardinality(PlacesIn(WithMatcher, X))
                = Cardinality(PlacesIn(Open, X)) + Cardinality(PlacesIn(Exclusive, X))
  <2>1. PlacesIn(WithMatcher, X) = PlacesIn(Open, X) \cup PlacesIn(Exclusive, X)
    BY <1>10 DEF PlacesIn
  <2>2. PlacesIn(Open, X) \cap PlacesIn(Exclusive, X) = {}
    BY OpenIsNotExclusive DEF PlacesIn
  <2>3. /\ IsFiniteSet(PlacesIn(Open, X)) /\ Cardinality(PlacesIn(Open, X)) \in Nat
        /\ IsFiniteSet(PlacesIn(Exclusive, X)) /\ Cardinality(PlacesIn(Exclusive, X)) \in Nat
    BY <1>1, <1>9, DoneIsCounted
  <2>4. Cardinality(PlacesIn(Open, X) \cup PlacesIn(Exclusive, X)) =
          Cardinality(PlacesIn(Open, X)) + Cardinality(PlacesIn(Exclusive, X))
          - Cardinality(PlacesIn(Open, X) \cap PlacesIn(Exclusive, X))
    BY <2>3, FS_Union
  <2> QED
    BY <2>1, <2>2, <2>3, <2>4, FS_EmptySet
<1>13. RowsDone = {Row(i, MatchOf(i)) : i \in WithMatcher} \cup {OsmRow(r) : r \in Gone}
  BY <1>9, <1>10, <1>11 DEF RowsDone
<1>14. \A X : NumDone(X) =
                Cardinality(PlacesIn(WithMatcher, X)) + Cardinality(FeaturesIn(Gone, X))
  BY <1>9, <1>11, <1>12 DEF NumDone
<1>15. IsFiniteSet(WithMatcher) /\ IsFiniteSet(Gone)
  <2>1. IsFiniteSet(Open) /\ IsFiniteSet(Exclusive) /\ IsFiniteSet(GoneDone)
    BY <1>1, DoneIsFinite
  <2> QED
    BY <1>10, <1>11, <2>1, FS_Union
<1> QED
  BY <1>5, <1>6, <1>7, <1>8, <1>13, <1>14, <1>15

LEMMA InvImpliesComplete == ConflateInv => OkIsComplete
<1> SUFFICES ASSUME ConflateInv, result = "ok"
             PROVE  /\ file.whole
                    /\ {file.rows[k].row : k \in DOMAIN file.rows} =
                         {Row(i, MatchOf(i)) : i \in WithMatcher} \cup {OsmRow(r) : r \in Gone}
                    /\ Len(file.rows) = Cardinality(WithMatcher) + Cardinality(Gone)
  BY DEF OkIsComplete
<1>1. /\ phase = "done" /\ writer = "published"
      /\ file = [rows |-> write_conflated(received), whole |-> TRUE]
  BY DEF ConflateInv, Published
<1>2. PICK S : received \in Seq(S)
  BY <1>1, ReceivedRows
<1>3. \A row \in ToSet(received) : RowsComparable(row)
  BY <1>1, ReceivedRows
<1>4. /\ Len(file.rows) = Len(received)
      /\ {file.rows[k].row : k \in DOMAIN file.rows} = ToSet(received)
  BY <1>1, <1>2, <1>3, FileHasTheRows
<1>5. ToSet(received) = {Row(i, MatchOf(i)) : i \in WithMatcher} \cup {OsmRow(r) : r \in Gone}
  BY <1>1, ReceivedRows
<1> DEFINE X == ToSet(received)
<1>6. /\ At(received, X) = 1 .. Len(received) /\ Len(received) \in Nat
      /\ PlacesIn(WithMatcher, X) = WithMatcher /\ FeaturesIn(Gone, X) = Gone
  <2>1. DOMAIN received = 1 .. Len(received) /\ Len(received) \in Nat
    BY <1>2, LenProperties
  <2>2. At(received, X) = DOMAIN received
    BY DEF At, ToSet
  <2>3. PlacesIn(WithMatcher, X) = WithMatcher /\ FeaturesIn(Gone, X) = Gone
    BY <1>5 DEF PlacesIn, FeaturesIn
  <2> QED
    BY <2>1, <2>2, <2>3
<1> HIDE DEF X
<1>7. Cardinality(1 .. Len(received)) = Len(received)
  <2>1. CASE Len(received) = 0
    BY <2>1, FS_EmptySet
  <2>2. CASE Len(received) # 0
    BY <1>6, <2>2, FS_Interval
  <2> QED
    BY <2>1, <2>2
<1>8. Len(received) = Cardinality(WithMatcher) + Cardinality(Gone)
  <2>1. Cardinality(At(received, X)) =
           Cardinality(PlacesIn(WithMatcher, X)) + Cardinality(FeaturesIn(Gone, X))
    BY <1>1, ReceivedRows
  <2> QED
    BY <1>6, <1>7, <2>1
<1> QED
  BY <1>1, <1>4, <1>5, <1>8

\* An ok result means a whole file: it has the row of each place that has a
\* matcher, with its match, and of each feature that nothing has matched and
\* that looks gone, and each of them once, whichever workers found and sent
\* them (conflate/mod.rs, conflate; writer.rs).
THEOREM OkMeansComplete == Spec => []OkIsComplete
<1>1. Init => ConflateInv
  BY InitHasInv
<1>2. ConflateInv /\ [Next]_vars => ConflateInv'
  BY NextKeepsInv
<1>3. ConflateInv => OkIsComplete
  BY InvImpliesComplete
<1> QED
  BY <1>1, <1>2, <1>3, PTL DEF Spec
-----------------------------------------------------------------------------
(***************************************************************************)
(* What the matches of a world mean.  A world does not change, and is that *)
(* of an input.                                                            *)
(***************************************************************************)
FromInput == \E input \in Worlds : world = WorldOf(input)

LEMMA AlwaysFromInput == Spec => []FromInput
<1>1. Init => FromInput
  BY DEF Init, FromInput
<1>2. FromInput /\ [Next]_vars => FromInput'
  <2>1. [Next]_vars => world' = world
    BY DEF Next, Step, vars, Receive, Return, BeginDeletion, EndProduce, Send, SendFails, Match,
           send_deletion_candidates, NextBatch, SecondPass, SecondPassFails, Publish, MatchFault,
           ReadFault, WriterFault
  <2> QED
    BY <2>1 DEF FromInput
<1> QED
  BY <1>1, <1>2, PTL DEF Spec

Kept(i) == IF i \in Exclusive THEN EXCLUSIVE_CANDIDATES ELSE 1

\* What the matcher of a place finds.
LEMMA MatchesOfAPlace ==
    ASSUME FromInput, NEW i \in DOMAIN Places, Matcher(i) # "none"
    PROVE  /\ Matcher(i) = create_matcher(Places[i], world.know)
           /\ Places[i].at \in Nat
           /\ \A r \in DOMAIN Osm : Osm[r].at \in Nat
           /\ Found(i) \in Seq(DOMAIN Osm)
           /\ \A r \in ToSet(Found(i)) :
                 Points(i, r) = score_osm_candidate(Places[i], world.know, Osm[r])
           /\ world.points[i] \in [ToSet(Found(i)) -> Int]
           /\ candidates(i) = best_candidates(Kept(i), Found(i), world.points[i])
<1>1. PICK input \in Worlds : world = WorldOf(input)
  BY DEF FromInput
<1>2. WorldInv
  BY <1>1, WorldAtStart
<1> DEFINE all == {j \in DOMAIN Places : Matcher(j) # "none"}
           place == Places[i]
           know == world.know
           found(j) == RefsAround(Places[j], Osm, Inverted(Osm), search_radius(Places[j], know))
           points(j) == [r \in ToSet(found(j)) |-> score_osm_candidate(Places[j], know, Osm[r])]
<1>3. /\ Places = input.places /\ Osm = Stored(input.osm) /\ know = Know(input.places)
      /\ world.matcher = [j \in DOMAIN Places |-> create_matcher(Places[j], know)]
  BY <1>1 DEF WorldOf, Places, Osm
<1>4. /\ world.found = [j \in all |-> found(j)]
      /\ world.points = [j \in all |-> points(j)]
      /\ world.candidates = [j \in DOMAIN Places |->
             IF j \in all
             THEN best_candidates(IF is_exclusive(world.matcher[j]) THEN EXCLUSIVE_CANDIDATES ELSE 1,
                                  world.found[j], world.points[j])
             ELSE <<>>]
  BY <1>1 DEF WorldOf, Places, Osm, Matcher
<1>5. i \in all
  OBVIOUS
<1>6. Matcher(i) = create_matcher(place, know)
  BY <1>3 DEF Matcher
<1>7. candidates(i) = best_candidates(Kept(i), Found(i), world.points[i])
  <2>1. Kept(i) = IF is_exclusive(world.matcher[i]) THEN EXCLUSIVE_CANDIDATES ELSE 1
    BY DEF Kept, Exclusive, Matcher
  <2> HIDE DEF all
  <2>2. world.candidates[i] =
          best_candidates(IF is_exclusive(world.matcher[i]) THEN EXCLUSIVE_CANDIDATES ELSE 1,
                          world.found[i], world.points[i])
    BY <1>4, <1>5
  <2> QED
    BY <2>1, <2>2 DEF candidates, Found
<1>8. Found(i) = found(i) /\ world.points[i] = points(i)
  <2> HIDE DEF all, found, points
  <2> QED
    BY <1>4, <1>5 DEF Found
<1>9. place.at \in Nat /\ \A r \in DOMAIN Osm : Osm[r].at \in Nat
  BY <1>2 DEF WorldInv
<1>10. PICK m \in Nat : DOMAIN Osm = 1 .. m
  BY <1>2 DEF WorldInv
<1>11. Found(i) \in Seq(DOMAIN Osm)
  <2>1. \A r \in 1 .. m : IsFiniteSet(Osm[r].parts) /\ Osm[r].parts \subseteq Nat
    <3>1. /\ input.osm \in Seq(ToSet(input.osm))
          /\ \A feature \in ToSet(input.osm) :
                /\ feature.at \in Nat /\ feature.id \in Nat
                /\ IsFiniteSet(feature.parts) /\ feature.parts \subseteq Nat
      BY WorldsAssumption DEF IsInput
    <3>2. \A r \in DOMAIN Osm : Osm[r] \in ToSet(input.osm)
      BY <1>3, <3>1, StoredAreFeatures
    <3> QED
      BY <1>10, <3>1, <3>2
  <2> DEFINE radius == search_radius(place, know)
  <2>2. radius \in Nat
    BY RadiusType
  <2> HIDE DEF radius, place
  <2>3. RefsAround(place, Osm, Inverted(Osm), radius) \in Seq(1 .. m)
    BY <1>9, <1>10, <2>1, <2>2, RefsAroundAreRefs
  <2> QED
    BY <1>8, <1>10, <2>3 DEF radius, place
<1>12. \A r \in ToSet(Found(i)) : r \in DOMAIN Osm
  BY <1>11, ElementOfSeq, LenProperties DEF ToSet
<1>13. \A r \in ToSet(Found(i)) : Points(i, r) = score_osm_candidate(place, know, Osm[r])
  BY <1>8 DEF Points
<1>14. \A r \in ToSet(Found(i)) : score_osm_candidate(place, know, Osm[r]) \in Int
  BY <1>6, <1>9, <1>12, CandidateScoreType
<1>15. world.points[i] \in [ToSet(Found(i)) -> Int]
  BY <1>8, <1>14
<1> QED
  BY <1>6, <1>7, <1>9, <1>11, <1>13, <1>15

\* The candidates that are kept are the best of those that the index returns,
\* at most four of them, in order, and none twice (keep_best).
THEOREM BestAreKept == Spec => []KeepsTheBest
<1>1. FromInput => KeepsTheBest
  <2> SUFFICES ASSUME FromInput, NEW i \in DOMAIN Places, Matcher(i) # "none"
               PROVE  LET found == Found(i)
                          First_(r) == Min({k \in DOMAIN found : found[k] = r})
                          good == {r \in ToSet(found) : Points(i, r) > 0}
                          Better_(a, b) == \/ Points(i, a) > Points(i, b)
                                           \/ Points(i, a) = Points(i, b) /\ First_(a) < First_(b)
                          rank == [r \in good |-> Cardinality({a \in good : Better_(a, r)}) + 1]
                          best == candidates(i)
                      IN  /\ Len(best) = Min({Kept(i), Cardinality(good)})
                          /\ \A k \in DOMAIN best : rank[best[k][2]] = k
    BY DEF KeepsTheBest, Kept
  <2> DEFINE found == Found(i)
             points == world.points[i]
             at == [r \in ToSet(found) |-> Min({k \in DOMAIN found : found[k] = r})]
             good == {r \in ToSet(found) : points[r] > 0}
             best == candidates(i)
             kept == Kept(i)
             Below(r) == BetterThan(good, points, at, r)
  <2>1. /\ found \in Seq(DOMAIN Osm) /\ points \in [ToSet(found) -> Int]
        /\ best = best_candidates(kept, found, points)
    BY MatchesOfAPlace
  <2>2. kept \in Nat
    BY DEF Kept, EXCLUSIVE_CANDIDATES
  <2>3. at \in [ToSet(found) -> Nat] /\ IsBest(best, kept, points, at, good)
    <3> HIDE DEF found, points, best, kept
    <3> QED
      BY <2>1, <2>2, CandidatesAreBest
  <2>4. IsFiniteSet(good)
    <3>1. IsFiniteSet(DOMAIN Osm)
      <4>1. PICK input \in Worlds : world = WorldOf(input)
        BY DEF FromInput
      <4>2. \E m \in Nat : DOMAIN Osm = 1 .. m
        BY <4>1, WorldAtStart DEF WorldInv
      <4> QED
        BY <4>1, <4>2, FS_Interval
    <3>2. ToSet(found) \subseteq DOMAIN Osm
      <4> HIDE DEF found
      <4> QED
        BY <2>1, ElementOfSeq, LenProperties DEF ToSet
    <3> HIDE DEF found, points
    <3> QED
      BY <3>1, <3>2, FS_Subset
  <2>5. good \in SUBSET ToSet(found)
    OBVIOUS
  <2> HIDE DEF found, points, at, best, kept, good
  <2>6. /\ Len(best) = Min({kept, Cardinality(good)})
        /\ \A k \in 1 .. Len(best) : Cardinality(Below(best[k][2])) + 1 = k
    <3>1. /\ points \in [ToSet(found) -> Int] /\ at \in [ToSet(found) -> Nat]
          /\ IsBest(best, kept, points, at, good)
      BY <2>1, <2>3
    <3> QED
      BY <2>2, <2>4, <2>5, <3>1, RanksOfTheBest, Zenon
  <2>7. best \in Seq(Int \X good)
    BY <2>3 DEF IsBest
  <2>8. DOMAIN best = 1 .. Len(best) /\ \A k \in DOMAIN best : best[k][2] \in good
    <3>1. DOMAIN best = 1 .. Len(best) /\ \A k \in DOMAIN best : best[k] \in Int \X good
      BY <2>7, LenProperties, ElementOfSeq
    <3> QED
      BY <3>1
  <2> DEFINE First_(r) == Min({k \in DOMAIN found : found[k] = r})
             Better_(a, b) == \/ Points(i, a) > Points(i, b)
                              \/ Points(i, a) = Points(i, b) /\ First_(a) < First_(b)
             rank == [r \in good |-> Cardinality({a \in good : Better_(a, r)}) + 1]
  <2>9. \A r \in good : {a \in good : Better_(a, r)} = Below(r)
    <3>1. \A r \in good : at[r] = First_(r)
      BY <2>5 DEF at
    <3> HIDE DEF First_
    <3> QED
      BY <3>1 DEF Better, BetterThan, Points, points
  <2>10. good = {r \in ToSet(found) : Points(i, r) > 0}
    BY DEF good, points, Points
  <2>11. \A k \in DOMAIN best : rank[best[k][2]] = k
    <3> HIDE DEF Below, Better_
    <3> QED
      BY <2>6, <2>8, <2>9
  <2> QED
    BY <2>6, <2>10, <2>11 DEF found, best, kept
<1> QED
  BY <1>1, AlwaysFromInput, PTL

Good(i) == {r \in ToSet(Found(i)) : Points(i, r) > 0}

\* The first of the candidates of a place is the best.
LEMMA BestOfAPlace ==
    ASSUME FromInput, NEW i \in DOMAIN Places, Matcher(i) # "none"
    PROVE  /\ candidates(i) \in Seq(Int \X Good(i))
           /\ \A k \in DOMAIN candidates(i) :
                 candidates(i)[k][1] = Points(i, candidates(i)[k][2])
           /\ \A g \in Good(i) :
                 /\ Len(candidates(i)) > 0
                 /\ candidates(i)[1][2] \in Good(i)
                 /\ Points(i, candidates(i)[1][2]) >= Points(i, g)
<1> DEFINE found == Found(i)
           points == world.points[i]
           at == [r \in ToSet(found) |-> Min({k \in DOMAIN found : found[k] = r})]
           good == {r \in ToSet(found) : points[r] > 0}
           best == candidates(i)
           kept == Kept(i)
<1>1. /\ found \in Seq(DOMAIN Osm) /\ points \in [ToSet(found) -> Int]
      /\ best = best_candidates(kept, found, points)
  BY MatchesOfAPlace
<1>2. kept \in Nat /\ kept > 0
  BY DEF Kept, EXCLUSIVE_CANDIDATES
<1>3. at \in [ToSet(found) -> Nat] /\ IsBest(best, kept, points, at, good)
  <2> HIDE DEF found, points, best, kept
  <2> QED
    BY <1>1, <1>2, CandidatesAreBest
<1>4. good = Good(i)
  BY DEF Good, Points
<1>5. good \subseteq ToSet(found) /\ \A r \in ToSet(found) : points[r] = Points(i, r)
  BY DEF Points
<1> HIDE DEF found, points, at, good, best, kept
<1>6. best \in Seq(Int \X good)
  BY <1>3 DEF IsBest
<1>7. Len(best) \in Nat /\ \A k \in 1 .. Len(best) : best[k] \in Int \X good
  BY <1>6, LenProperties, ElementOfSeq
<1>8. ASSUME NEW g \in good
      PROVE  Len(best) > 0 /\ best[1][2] \in good /\ points[best[1][2]] >= points[g]
  <2>1. /\ \A k, l \in 1 .. Len(best) : k < l => Better(points, at, best[k][2], best[l][2])
        /\ \/ \E k \in 1 .. Len(best) : best[k][2] = g
           \/ Len(best) = kept /\ \A k \in 1 .. Len(best) : Better(points, at, best[k][2], g)
    BY <1>3 DEF IsBest
  <2>2. Len(best) > 0 /\ 1 \in 1 .. Len(best)
    BY <1>2, <1>7, <2>1
  <2>3. best[1][2] \in good
    BY <1>7, <2>2
  <2>4. best[1][2] = g \/ Better(points, at, best[1][2], g)
    BY <1>7, <2>1, <2>2
  <2>5. points[g] \in Int /\ points[best[1][2]] \in Int
    BY <1>1, <1>5, <2>3
  <2> QED
    BY <2>2, <2>3, <2>4, <2>5 DEF Better
<1>9. \A g \in good : Len(best) > 0 /\ best[1][2] \in good /\ Points(i, best[1][2]) >= Points(i, g)
  BY <1>5, <1>8
<1>10. \A k \in DOMAIN best : best[k][1] = Points(i, best[k][2])
  <2>1. DOMAIN best = 1 .. Len(best) /\ \A k \in 1 .. Len(best) : best[k][2] \in good
    BY <1>6, <1>7, LenProperties
  <2>2. \A k \in 1 .. Len(best) : best[k][1] = points[best[k][2]]
    BY <1>3 DEF IsBest
  <2> QED
    BY <1>5, <2>1, <2>2
<1> QED
  BY <1>4, <1>6, <1>9, <1>10 DEF best

\* Ids that contradict each other are different.
LEMMA ContradictingIdsDiffer ==
    ASSUME NEW ours, NEW theirs, IdsContradict(ours, theirs)
    PROVE  compare_ids(ours, theirs) = "different"
<1>1. ours.ifopt \cap theirs.ifopt = {}
  BY DEF IdsContradict
<1>2. \A a, o : OneWithinOther(a, o) => IsPrefix(a, o) \/ IsPrefix(o, a)
  BY DEF OneWithinOther, is_within, IsStrictPrefix, IsPrefix
<1>3. IdsDiffer(ours, theirs)
  BY <1>2 DEF IdsContradict, IdsDiffer, Comparable
<1> QED
  BY <1>1, <1>3 DEF compare_ids

\* A place and a feature with an id of different stops, or of different brands,
\* are not matched, whatever else they share (compare_ids in
\* transit_matcher.rs; factor in poi_matcher.rs).
THEOREM NoContradictions == Spec => []ContradictionsNeverMatch
<1>1. FromInput => ContradictionsNeverMatch
  <2> SUFFICES ASSUME FromInput, NEW i \in DOMAIN Places, NEW k \in DOMAIN candidates(i)
               PROVE  LET ours == Places[i].tags
                          theirs == Osm[candidates(i)[k][2]].tags
                      IN  /\ Matcher(i) = "transit" => ~IdsContradict(Ids(ours), Ids(theirs))
                          /\ Matcher(i) = "poi" =>
                                 ~BrandsContradict(brand_wikidata(ours), brand_wikidata(theirs))
    BY DEF ContradictionsNeverMatch
  <2> DEFINE r == candidates(i)[k][2]
             place == Places[i]
             osm == Osm[r]
  <2>1. ASSUME Matcher(i) # "none"
        PROVE  /\ Matcher(i) = create_matcher(place, world.know)
               /\ place.at \in Nat /\ osm.at \in Nat
               /\ Points(i, r) > 0
               /\ Points(i, r) = score_osm_candidate(place, world.know, osm)
    <3>1. /\ Matcher(i) = create_matcher(place, world.know)
          /\ place.at \in Nat /\ \A q \in DOMAIN Osm : Osm[q].at \in Nat
          /\ Found(i) \in Seq(DOMAIN Osm)
          /\ \A q \in ToSet(Found(i)) :
                Points(i, q) = score_osm_candidate(place, world.know, Osm[q])
      BY <2>1, MatchesOfAPlace
    <3>2. candidates(i) \in Seq(Int \X Good(i))
      BY <2>1, BestOfAPlace
    <3>3. candidates(i)[k] \in Int \X Good(i)
      BY <3>2, ElementOfSeq, LenProperties
    <3>4. r \in ToSet(Found(i)) /\ Points(i, r) > 0
      BY <3>3 DEF Good
    <3>5. r \in DOMAIN Osm
      <4>1. \A q \in ToSet(Found(i)) : q \in DOMAIN Osm
        BY <3>1, ElementOfSeq, LenProperties DEF ToSet
      <4> HIDE DEF r
      <4> QED
        BY <3>4, <4>1
    <3> QED
      BY <3>1, <3>4, <3>5
  <2>2. ASSUME Matcher(i) = "transit", IdsContradict(Ids(place.tags), Ids(osm.tags))
        PROVE  FALSE
    <3>1. transit_score(place, osm) > 0
      BY <2>1, <2>2 DEF score_osm_candidate
    <3>2. compare_ids(Ids(place.tags), Ids(osm.tags)) = "different"
      BY <2>2, ContradictingIdsDiffer
    <3>3. place.at \in Nat /\ osm.at \in Nat
      BY <2>1, <2>2
    <3> HIDE DEF place, osm
    <3> QED
      BY <3>1, <3>2, <3>3, TransitScoreBounds
  <2>3. ASSUME Matcher(i) = "poi",
               BrandsContradict(brand_wikidata(place.tags), brand_wikidata(osm.tags))
        PROVE  FALSE
    <3>1. poi_score(place, world.know, osm) > 0
      BY <2>1, <2>3 DEF score_osm_candidate
    <3>2. poi_factor(place, world.know, osm) = 0
      BY <2>3 DEF poi_factor, BrandsContradict
    <3>3. geo_point_distance_score(Distance(place, osm), POI_MAX_METERS) \in Int
      <4>1. POI_MAX_METERS \in Nat \ {0}
        BY DEF POI_MAX_METERS
      <4>2. Distance(place, osm) \in Nat
        BY <2>1, <2>3, DistanceType
      <4> QED
        BY <4>1, <4>2, ScoreType
    <3> HIDE DEF place, osm
    <3>4. poi_score(place, world.know, osm) = 0
      BY <3>2, <3>3 DEF poi_score
    <3> QED
      BY <3>1, <3>4
  <2> QED
    BY <2>2, <2>3
<1> QED
  BY <1>1, AlwaysFromInput, PTL

\* Where a candidate has the id or the reference of the place, the first
\* candidate has it, however close others are, and whatever else confirms them
\* (SAME_ID_MIN_SCORE, SAME_REF_MIN_SCORE).
THEOREM StrongestEvidenceWins == Spec => []StrongEvidenceWins
<1>1. FromInput => StrongEvidenceWins
  <2> SUFFICES ASSUME FromInput, NEW i \in Exclusive,
                      NEW s \in ToSet(Found(i)), Points(i, s) > 0, SameIdentity(i, s)
               PROVE  /\ candidates(i)[1][2] \in ToSet(Found(i))
                      /\ Points(i, candidates(i)[1][2]) > 0
                      /\ SameIdentity(i, candidates(i)[1][2])
    BY DEF StrongEvidenceWins
  <2> DEFINE b == candidates(i)[1][2]
             place == Places[i]
             know == world.know
  <2>1. i \in DOMAIN Places /\ Matcher(i) \in {"transit", "infrastructure"}
    BY DEF Exclusive, is_exclusive
  <2>2. s \in Good(i)
    BY DEF Good
  <2>3. b \in Good(i) /\ Points(i, b) >= Points(i, s)
    BY <2>1, <2>2, BestOfAPlace
  <2>4. b \in ToSet(Found(i)) /\ Points(i, b) > 0
    BY <2>3 DEF Good
  <2>5. /\ Matcher(i) = create_matcher(place, know)
        /\ place.at \in Nat /\ \A q \in DOMAIN Osm : Osm[q].at \in Nat
        /\ Found(i) \in Seq(DOMAIN Osm)
        /\ \A q \in ToSet(Found(i)) : Points(i, q) = score_osm_candidate(place, know, Osm[q])
    BY <2>1, MatchesOfAPlace
  <2>6. \A q \in ToSet(Found(i)) : Osm[q].at \in Nat
    <3>1. \A q \in ToSet(Found(i)) : q \in DOMAIN Osm
      BY <2>5, ElementOfSeq, LenProperties DEF ToSet
    <3> QED
      BY <2>5, <3>1
  <2>7. Osm[b].at \in Nat /\ Osm[s].at \in Nat
    BY <2>4, <2>6
  <2>8. /\ Points(i, b) = score_osm_candidate(place, know, Osm[b])
        /\ Points(i, s) = score_osm_candidate(place, know, Osm[s])
    BY <2>4, <2>5
  <2> HIDE DEF b, place, know
  <2>9. SameIdentity(i, b)
    <3>1. CASE Matcher(i) = "transit"
      <4>1. /\ Points(i, b) = transit_score(place, Osm[b])
            /\ Points(i, s) = transit_score(place, Osm[s])
        BY <2>5, <2>8, <3>1 DEF score_osm_candidate
      <4>2. compare_ids(Ids(place.tags), Ids(Osm[s].tags)) = "same"
        BY <3>1 DEF SameIdentity, place
      <4>3. transit_score(place, Osm[s]) >= 6000 * 8100
        BY <2>5, <2>7, <4>1, <4>2, TransitScoreBounds
      <4>4. transit_score(place, Osm[s]) \in Int /\ transit_score(place, Osm[b]) \in Int
        BY <2>5, <2>7, TransitScoreType
      <4>5. ~(transit_score(place, Osm[b]) <= 6000 * 8000)
        BY <2>3, <4>1, <4>3, <4>4
      <4>6. compare_ids(Ids(place.tags), Ids(Osm[b].tags)) = "same"
        BY <2>4, <2>5, <2>7, <4>1, <4>5, TransitScoreBounds
      <4> QED
        BY <3>1, <4>6 DEF SameIdentity, place
    <3>2. CASE Matcher(i) = "infrastructure"
      <4>1. /\ Points(i, b) = infrastructure_score(place, Osm[b])
            /\ Points(i, s) = infrastructure_score(place, Osm[s])
        BY <2>5, <2>8, <3>2 DEF score_osm_candidate
      <4>2. SameReference(place, Osm[s])
        BY <3>2 DEF SameIdentity, place
      <4>3. infrastructure_score(place, Osm[s]) >= 6000 * 9000
        BY <2>5, <2>7, <4>1, <4>2, InfrastructureScoreBounds DEF SAME_REF_MIN_SCORE
      <4>4. infrastructure_score(place, Osm[s]) \in Int /\ infrastructure_score(place, Osm[b]) \in Int
        BY <2>5, <2>7, InfrastructureScoreType
      <4>5. ~(infrastructure_score(place, Osm[b]) <= 6000 * 8800)
        BY <2>3, <4>1, <4>3, <4>4
      <4>6. SameReference(place, Osm[b])
        BY <2>4, <2>5, <2>7, <4>1, <4>5, InfrastructureScoreBounds
      <4> QED
        BY <3>2, <4>6 DEF SameIdentity, place
    <3> QED
      BY <2>1, <3>1, <3>2
  <2> QED
    BY <2>4, <2>9 DEF b
<1> QED
  BY <1>1, AlwaysFromInput, PTL

-----------------------------------------------------------------------------
(***************************************************************************)
(* One-to-one matches.  What the first k of the pairs, in their order,     *)
(* have lead to: who has a feature has it by one of these pairs, and has   *)
(* taken it; what is taken, somebody has; and who came too late could not  *)
(* share.                                                                  *)
(***************************************************************************)
AssignNext(of, s, pair) == AssignPair(s, pair)
Assigning == INSTANCE Folding WITH Op <- AssignNext

KeyOf(p) == <<p.spider, p.r>>
Has(to, p) == to[p.ordinal] = p.r
HasAmong(order, k, to, i) == \E l \in 1 .. k : order[l].ordinal = i /\ Has(to, order[l])
TakenBefore(order, k, to, p) ==
    \E l \in 1 .. k : /\ order[l].ordinal # p.ordinal
                      /\ KeyOf(order[l]) = KeyOf(p)
                      /\ Has(to, order[l])

HoldersHave(D, order, k, s) == \A i \in D : s.to[i] # 0 => HasAmong(order, k, s.to, i)
TakenAreHad(order, k, s) ==
    \A key \in s.taken : \E l \in 1 .. k : key = KeyOf(order[l]) /\ Has(s.to, order[l])
HadAreTaken(order, k, s) ==
    \A l \in 1 .. k : Has(s.to, order[l]) => KeyOf(order[l]) \in s.taken
LosersCameLate(order, k, s) ==
    \A j \in 1 .. k : \/ HasAmong(order, j, s.to, order[j].ordinal)
                      \/ ~order[j].share /\ TakenBefore(order, j - 1, s.to, order[j])
LaterMayShare(order, k, s) ==
    \A l \in 1 .. k : Has(s.to, order[l]) /\ TakenBefore(order, l - 1, s.to, order[l])
                      => order[l].share

Assigned(D, V, order, k, s) ==
    /\ s.to \in [D -> V]
    /\ HoldersHave(D, order, k, s)
    /\ TakenAreHad(order, k, s)
    /\ HadAreTaken(order, k, s)
    /\ LosersCameLate(order, k, s)
    /\ LaterMayShare(order, k, s)

\* A list of different pairs of ordinals in D and features in V.
ArePairs(D, V, order, n) ==
    /\ 0 \in V
    /\ \A k \in 1 .. n : order[k].ordinal \in D /\ order[k].r \in V \ {0}
    /\ \A j, k \in 1 .. n :
          order[j].ordinal = order[k].ordinal /\ order[j].r = order[k].r => j = k

LEMMA OnePairMore ==
    ASSUME NEW D, NEW V, NEW n \in Nat, NEW order, ArePairs(D, V, order, n),
           NEW k \in 1 .. n, NEW s, Assigned(D, V, order, k - 1, s)
    PROVE  Assigned(D, V, order, k, AssignPair(s, order[k]))
<1> DEFINE p == order[k]
           i == p.ordinal
           next == AssignPair(s, p)
<1>1. i \in D /\ p.r \in V /\ p.r # 0 /\ 0 \in V
  BY DEF ArePairs
<1>2. /\ s.to \in [D -> V] /\ HoldersHave(D, order, k - 1, s)
      /\ TakenAreHad(order, k - 1, s) /\ HadAreTaken(order, k - 1, s)
      /\ LosersCameLate(order, k - 1, s) /\ LaterMayShare(order, k - 1, s)
  BY DEF Assigned
<1>3. /\ k - 1 \in Nat /\ k \in 1 .. k /\ k \notin 1 .. k - 1
      /\ 1 .. k = (1 .. k - 1) \cup {k} /\ 1 .. k - 1 \subseteq 1 .. k /\ 1 .. k \subseteq 1 .. n
      /\ \A l \in 1 .. k : l # k => l \in 1 .. k - 1
      /\ \A l \in 1 .. k - 1 : 1 .. l \subseteq 1 .. k - 1 /\ 1 .. l - 1 \subseteq 1 .. k - 1
  OBVIOUS
\* Nobody has what it has not been offered.
<1>4. ~Has(s.to, p)
  <2> SUFFICES ASSUME s.to[i] = p.r PROVE FALSE
    BY DEF Has
  <2>1. PICK l \in 1 .. k - 1 : order[l].ordinal = i /\ s.to[i] = order[l].r
    BY <1>1, <1>2 DEF HoldersHave, HasAmong, Has
  <2>2. l \in 1 .. n /\ l # k
    BY <1>3
  <2> QED
    BY <2>1, <2>2 DEF ArePairs
<1>5. CASE s.to[i] # 0
  <2>1. next = s
    BY <1>5 DEF AssignPair
  <2>2. HasAmong(order, k, s.to, i)
    BY <1>1, <1>2, <1>3, <1>5 DEF HoldersHave, HasAmong
  <2>3. HoldersHave(D, order, k, s)
    BY <1>2, <1>3 DEF HoldersHave, HasAmong
  <2>4. TakenAreHad(order, k, s)
    BY <1>2, <1>3 DEF TakenAreHad
  <2>5. HadAreTaken(order, k, s)
    BY <1>2, <1>3, <1>4 DEF HadAreTaken
  <2>6. LosersCameLate(order, k, s)
    BY <1>2, <1>3, <2>2 DEF LosersCameLate
  <2>7. LaterMayShare(order, k, s)
    BY <1>2, <1>3, <1>4 DEF LaterMayShare
  <2> QED
    BY <1>2, <2>1, <2>3, <2>4, <2>5, <2>6, <2>7 DEF Assigned
<1>6. CASE s.to[i] = 0 /\ KeyOf(p) \in s.taken /\ ~p.share
  <2>1. next.to = s.to /\ next.taken = s.taken \cup {KeyOf(p)}
    BY <1>6 DEF AssignPair, KeyOf
  <2>2. next.taken = s.taken
    BY <1>6, <2>1
  <2> HIDE DEF next
  <2>3. TakenBefore(order, k - 1, s.to, p)
    <3>1. PICK l \in 1 .. k - 1 : KeyOf(p) = KeyOf(order[l]) /\ Has(s.to, order[l])
      BY <1>2, <1>6 DEF TakenAreHad
    <3>2. order[l].r = p.r
      BY <3>1 DEF KeyOf
    <3>3. order[l].ordinal # i
      BY <1>1, <1>6, <3>1, <3>2 DEF Has
    <3> QED
      BY <3>1, <3>3 DEF TakenBefore
  <2>4. HoldersHave(D, order, k, next)
    BY <1>2, <1>3, <2>1 DEF HoldersHave, HasAmong
  <2>5. TakenAreHad(order, k, next)
    BY <1>2, <1>3, <2>1, <2>2 DEF TakenAreHad
  <2>6. HadAreTaken(order, k, next)
    BY <1>2, <1>3, <1>4, <2>1, <2>2 DEF HadAreTaken
  <2>7. LosersCameLate(order, k, next)
    BY <1>2, <1>3, <1>6, <2>1, <2>3 DEF LosersCameLate
  <2>8. LaterMayShare(order, k, next)
    BY <1>2, <1>3, <1>4, <2>1 DEF LaterMayShare
  <2> QED
    BY <1>2, <2>1, <2>4, <2>5, <2>6, <2>7, <2>8 DEF Assigned, next
<1>7. CASE s.to[i] = 0 /\ (KeyOf(p) \notin s.taken \/ p.share)
  <2>1. next.to = [s.to EXCEPT ![i] = p.r] /\ next.taken = s.taken \cup {KeyOf(p)}
    BY <1>7 DEF AssignPair, KeyOf
  <2> HIDE DEF next
  <2>2. next.to \in [D -> V]
    BY <1>1, <1>2, <2>1
  <2>3. next.to[i] = p.r /\ \A d \in D : d # i => next.to[d] = s.to[d]
    BY <1>1, <1>2, <2>1
  <2>4. Has(next.to, p)
    BY <2>3 DEF Has
  \* Of the other pairs, nothing changes.
  <2>5. ASSUME NEW l \in 1 .. k - 1
        PROVE  Has(next.to, order[l]) <=> Has(s.to, order[l])
    <3>1. l \in 1 .. n /\ l # k /\ k \in 1 .. n
      BY <1>3
    <3>2. order[l].ordinal \in D /\ order[l].r # 0
      BY <3>1 DEF ArePairs
    <3>3. CASE order[l].ordinal # i
      BY <2>3, <3>2, <3>3 DEF Has
    <3>4. CASE order[l].ordinal = i
      <4>1. order[l].r # p.r
        BY <3>1, <3>4 DEF ArePairs
      <4>2. ~Has(next.to, order[l])
        BY <2>3, <3>4, <4>1 DEF Has
      <4>3. ~Has(s.to, order[l])
        BY <1>7, <3>2, <3>4 DEF Has
      <4> QED
        BY <4>2, <4>3
    <3> QED
      BY <3>3, <3>4
  <2>6. HoldersHave(D, order, k, next)
    <3> SUFFICES ASSUME NEW d \in D, next.to[d] # 0
                 PROVE  \E l \in 1 .. k : order[l].ordinal = d /\ Has(next.to, order[l])
      BY DEF HoldersHave, HasAmong
    <3>1. CASE d = i
      BY <1>3, <2>4, <3>1
    <3>2. CASE d # i
      <4>1. s.to[d] # 0
        BY <2>3, <3>2
      <4>2. PICK l \in 1 .. k - 1 : order[l].ordinal = d /\ Has(s.to, order[l])
        BY <1>2, <4>1 DEF HoldersHave, HasAmong
      <4> QED
        BY <1>3, <2>5, <4>2
    <3> QED
      BY <3>1, <3>2
  <2>7. TakenAreHad(order, k, next)
    <3> SUFFICES ASSUME NEW key \in next.taken
                 PROVE  \E l \in 1 .. k : key = KeyOf(order[l]) /\ Has(next.to, order[l])
      BY DEF TakenAreHad
    <3>1. CASE key = KeyOf(p)
      BY <1>3, <2>4, <3>1
    <3>2. CASE key # KeyOf(p)
      <4>1. PICK l \in 1 .. k - 1 : key = KeyOf(order[l]) /\ Has(s.to, order[l])
        BY <1>2, <2>1, <3>2 DEF TakenAreHad
      <4> QED
        BY <1>3, <2>5, <4>1
    <3> QED
      BY <3>1, <3>2
  <2>8. HadAreTaken(order, k, next)
    <3> SUFFICES ASSUME NEW l \in 1 .. k, Has(next.to, order[l])
                 PROVE  KeyOf(order[l]) \in next.taken
      BY DEF HadAreTaken
    <3> QED
      BY <1>2, <1>3, <2>1, <2>5 DEF HadAreTaken
  <2>9. \A m \in 0 .. k - 1 : \A q :
            /\ HasAmong(order, m, s.to, q.ordinal) => HasAmong(order, m, next.to, q.ordinal)
            /\ TakenBefore(order, m, next.to, q) <=> TakenBefore(order, m, s.to, q)
    <3> SUFFICES ASSUME NEW m \in 0 .. k - 1, NEW q
                 PROVE  /\ HasAmong(order, m, s.to, q.ordinal)
                           => HasAmong(order, m, next.to, q.ordinal)
                        /\ TakenBefore(order, m, next.to, q) <=> TakenBefore(order, m, s.to, q)
      OBVIOUS
    <3>1. \A l \in 1 .. m : l \in 1 .. k - 1
      OBVIOUS
    <3>2. \A l \in 1 .. m : Has(next.to, order[l]) <=> Has(s.to, order[l])
      BY <2>5, <3>1
    <3> QED
      BY <3>2 DEF HasAmong, TakenBefore
  <2>10. \A l \in 1 .. k : l - 1 \in 0 .. k - 1
    BY <1>3
  <2>11. \A l \in 1 .. k - 1 : l \in 0 .. k - 1
    BY <1>3
  <2>12. LosersCameLate(order, k, next)
    <3> SUFFICES ASSUME NEW j \in 1 .. k
                 PROVE  \/ HasAmong(order, j, next.to, order[j].ordinal)
                        \/ ~order[j].share /\ TakenBefore(order, j - 1, next.to, order[j])
      BY DEF LosersCameLate
    <3>1. CASE j = k
      BY <1>3, <2>4, <3>1 DEF HasAmong
    <3>2. CASE j # k
      <4>1. j \in 1 .. k - 1
        BY <1>3, <3>2
      <4>2. \/ HasAmong(order, j, s.to, order[j].ordinal)
            \/ ~order[j].share /\ TakenBefore(order, j - 1, s.to, order[j])
        BY <1>2, <4>1 DEF LosersCameLate
      <4> QED
        BY <2>9, <2>10, <2>11, <4>1, <4>2
    <3> QED
      BY <3>1, <3>2
  <2>13. LaterMayShare(order, k, next)
    <3> SUFFICES ASSUME NEW l \in 1 .. k, Has(next.to, order[l]),
                        TakenBefore(order, l - 1, next.to, order[l])
                 PROVE  order[l].share
      BY DEF LaterMayShare
    <3>1. TakenBefore(order, l - 1, s.to, order[l])
      BY <2>9, <2>10
    <3>2. CASE l = k
      <4>1. PICK j \in 1 .. k - 1 : KeyOf(order[j]) = KeyOf(p) /\ Has(s.to, order[j])
        BY <3>1, <3>2 DEF TakenBefore
      <4>2. KeyOf(p) \in s.taken
        BY <1>2, <4>1 DEF HadAreTaken
      <4> QED
        BY <1>7, <3>2, <4>2
    <3>3. CASE l # k
      <4>1. l \in 1 .. k - 1
        BY <1>3, <3>3
      <4>2. Has(s.to, order[l])
        BY <2>5, <4>1
      <4> QED
        BY <1>2, <3>1, <4>1, <4>2 DEF LaterMayShare
    <3> QED
      BY <3>2, <3>3
  <2> QED
    BY <2>2, <2>6, <2>7, <2>8, <2>12, <2>13 DEF Assigned, next
<1> QED
  BY <1>5, <1>6, <1>7
LEMMA AllPairsAssigned ==
    ASSUME NEW D, NEW V, NEW n \in Nat, NEW order, ArePairs(D, V, order, n), DOMAIN order = 1 .. n
    PROVE  Assigned(D, V, order, n,
                    FoldLeft(AssignPair, [to |-> [i \in D |-> 0], taken |-> {}], order))
<1> DEFINE base == [to |-> [i \in D |-> 0], taken |-> {}]
<1>1. FoldLeft(AssignPair, base, order) = Assigning!OverSeq(0, base, order)
  BY DEF Assigning!OverSeq, AssignNext, FoldLeft, MapThenFoldSet, Max, Assigning!FoldLeft,
         Assigning!MapThenFoldSet, Assigning!Max
<1> DEFINE last == FoldLeft(AssignPair, base, order)
<1> HIDE DEF base
<1>2. PICK acc : Assigning!Through(0, base, order, n, acc)
  BY Assigning!FoldLeftSteps
<1>3. /\ acc[0] = base /\ acc[n] = last
      /\ \A k \in 1 .. n : acc[k] = AssignPair(acc[k - 1], order[k])
  BY <1>1, <1>2 DEF Assigning!Through, AssignNext
<1> DEFINE T == {k \in Nat : k <= n => Assigned(D, V, order, k, acc[k])}
<1>4. 0 \in T
  <2>1. Assigned(D, V, order, 0, base)
    <3>1. 0 \in V /\ 1 .. 0 = {}
      BY DEF ArePairs
    <3>2. base.to = [i \in D |-> 0] /\ base.taken = {}
      BY DEF base
    <3>3. base.to \in [D -> V] /\ \A i \in D : base.to[i] = 0
      BY <3>1, <3>2
    <3> QED
      BY <3>1, <3>2, <3>3 DEF Assigned, HoldersHave, TakenAreHad, HadAreTaken, LosersCameLate,
                              LaterMayShare
  <2> QED
    BY <1>3, <2>1
<1>5. ASSUME NEW k \in Nat, k \in T
      PROVE  k + 1 \in T
  <2> SUFFICES ASSUME k + 1 <= n
               PROVE  Assigned(D, V, order, k + 1, acc[k + 1])
    OBVIOUS
  <2>1. k + 1 \in 1 .. n /\ k + 1 - 1 = k /\ Assigned(D, V, order, k, acc[k])
    BY <1>5
  <2>2. acc[k + 1] = AssignPair(acc[k], order[k + 1])
    BY <1>3, <2>1
  <2>3. Assigned(D, V, order, k + 1, AssignPair(acc[k], order[k + 1]))
    BY <2>1, OnePairMore
  <2> QED
    BY <2>2, <2>3
<1>6. n \in T
  <2> HIDE DEF T
  <2> QED
    BY <1>4, <1>5, Assigning!NumbersFrom0
<1> QED
  BY <1>3, <1>6 DEF base

\* What a place is offered, and the pair of a place and a feature.
Offered(i) == {candidates(i)[k][2] : k \in DOMAIN candidates(i)}
PairAt(i, r) ==
    [points |-> Points(i, r), ordinal |-> i, spider |-> Places[i].spider, r |-> r,
     share |-> r \in world.share[i]]

LEMMA PairsOfAPlace ==
    ASSUME FromInput, NEW i \in Exclusive
    PROVE  /\ PairsIn(ExclusiveCandidates(i)) = {PairAt(i, r) : r \in Offered(i)}
           /\ Offered(i) \subseteq DOMAIN Osm
           /\ \A r \in Offered(i) : Points(i, r) \in Int
           /\ DOMAIN Osm \subseteq Nat \ {0} /\ IsFiniteSet(DOMAIN Osm)
           /\ DOMAIN Places \subseteq Nat /\ IsFiniteSet(DOMAIN Places)
<1> DEFINE best == candidates(i)
           list == ExclusiveCandidates(i)
<1>1. i \in DOMAIN Places /\ Matcher(i) # "none"
  BY DEF Exclusive, is_exclusive
<1>2. /\ best \in Seq(Int \X Good(i))
      /\ \A k \in DOMAIN best : best[k][1] = Points(i, best[k][2])
  BY <1>1, BestOfAPlace
<1>3. \A k \in DOMAIN best : best[k] \in Int \X Good(i)
  <2> HIDE DEF best
  <2> QED
    BY <1>2, ElementOfSeq, LenProperties
<1>4. /\ (\E m \in Nat : DOMAIN Osm = 1 .. m) /\ (\E n \in Nat : DOMAIN Places = 1 .. n)
  <2>1. PICK input \in Worlds : world = WorldOf(input)
    BY DEF FromInput
  <2> QED
    BY <2>1, WorldAtStart DEF WorldInv
<1>5. /\ DOMAIN Osm \subseteq Nat \ {0} /\ IsFiniteSet(DOMAIN Osm)
      /\ DOMAIN Places \subseteq Nat /\ IsFiniteSet(DOMAIN Places)
  <2>1. \A m \in Nat : 1 .. m \subseteq Nat \ {0} /\ IsFiniteSet(1 .. m)
    BY FS_Interval
  <2> QED
    BY <1>4, <2>1
<1>6. Good(i) \subseteq DOMAIN Osm
  <2>1. Found(i) \in Seq(DOMAIN Osm)
    BY <1>1, MatchesOfAPlace
  <2> QED
    BY <2>1, ElementOfSeq, LenProperties DEF ToSet, Good
<1>7. ToSet(list.candidates) = {<<best[k][1], best[k][2], best[k][2] \in world.share[i]>> : k \in DOMAIN best}
  <2>1. list.candidates = [c \in DOMAIN best |->
                             <<best[c][1], best[c][2], best[c][2] \in world.share[i]>>]
    BY DEF ExclusiveCandidates
  <2> HIDE DEF best, list
  <2> QED
    BY <2>1 DEF ToSet
<1>8. list.ordinal = i /\ list.spider = Places[i].spider
  BY DEF ExclusiveCandidates
<1> HIDE DEF best, list
<1>9. PairsIn(list) = {PairAt(i, best[k][2]) : k \in DOMAIN best}
  <2> DEFINE Of(c) == [points |-> c[1], ordinal |-> list.ordinal, spider |-> list.spider,
                       r |-> c[2], share |-> c[3]]
             c_(k) == <<best[k][1], best[k][2], best[k][2] \in world.share[i]>>
  <2>1. PairsIn(list) = {Of(c) : c \in ToSet(list.candidates)}
    BY DEF PairsIn
  <2>2. ToSet(list.candidates) = {c_(k) : k \in DOMAIN best}
    BY <1>7
  <2>3. \A k \in DOMAIN best : Of(c_(k)) = PairAt(i, best[k][2])
    BY <1>2, <1>8 DEF PairAt, best
  <2> HIDE DEF Of, c_
  <2>4. {Of(c) : c \in ToSet(list.candidates)} = {Of(c_(k)) : k \in DOMAIN best}
    BY <2>2
  <2> QED
    BY <2>1, <2>3, <2>4
<1>10. PairsIn(list) = {PairAt(i, r) : r \in Offered(i)}
  <2>1. Offered(i) = {best[k][2] : k \in DOMAIN best}
    BY DEF Offered, best
  <2> QED
    BY <1>9, <2>1
<1>11. Offered(i) \subseteq Good(i) /\ \A r \in Offered(i) : Points(i, r) \in Int
  <2>1. \A k \in DOMAIN best : best[k][2] \in Good(i) /\ Points(i, best[k][2]) \in Int
    BY <1>2, <1>3 DEF best
  <2> QED
    BY <2>1 DEF Offered, best
<1> QED
  BY <1>5, <1>6, <1>10, <1>11 DEF list

\* The pairs of all places, in their order.
AllPairs == UNION {{PairAt(i, r) : r \in Offered(i)} : i \in Exclusive}
AllInOrder == Ordered(AllPairs, PairBefore)

LEMMA PairsAreOrdered ==
    ASSUME FromInput
    PROVE  LET n == Cardinality(AllPairs)
           IN  /\ n \in Nat /\ AllInOrder \in [1 .. n -> AllPairs]
               /\ \A p \in AllPairs : \E k \in 1 .. n : AllInOrder[k] = p
               /\ \A j, k \in 1 .. n : j < k => PairBefore(AllInOrder[j], AllInOrder[k])
               /\ ArePairs(Exclusive, {0} \cup DOMAIN Osm, AllInOrder, n)
<1> DEFINE P == AllPairs
           L == {pq \in P \X P : PairBefore(pq[1], pq[2])}
<1>1. \A p \in P : \E i \in Exclusive : \E r \in Offered(i) : p = PairAt(i, r)
  BY DEF AllPairs
<1>2. \A p \in P : /\ p.ordinal \in Exclusive /\ p.r \in Offered(p.ordinal)
                   /\ p = PairAt(p.ordinal, p.r)
  BY <1>1 DEF PairAt
<1>3. \A p \in P : /\ p.points \in Int /\ p.ordinal \in Int /\ p.r \in Int
                   /\ p.r \in DOMAIN Osm /\ p.r # 0
  <2> SUFFICES ASSUME NEW p \in P
               PROVE  /\ p.points \in Int /\ p.ordinal \in Int /\ p.r \in Int
                      /\ p.r \in DOMAIN Osm /\ p.r # 0
    OBVIOUS
  <2>1. p.ordinal \in Exclusive /\ p.r \in Offered(p.ordinal)
    BY <1>2
  <2>2. p.points = Points(p.ordinal, p.r)
    <3>1. p = PairAt(p.ordinal, p.r)
      BY <1>2
    <3> QED
      BY <3>1 DEF PairAt
  <2>3. p.ordinal \in DOMAIN Places
    BY <2>1 DEF Exclusive
  <2> HIDE DEF P
  <2> QED
    BY <2>1, <2>2, <2>3, PairsOfAPlace
<1>4. IsFiniteSet(P)
  <2>1. CASE Exclusive = {}
    <3>1. P = {}
      BY <2>1 DEF AllPairs
    <3> QED
      BY <3>1, FS_EmptySet
  <2>2. CASE Exclusive # {}
    <3> DEFINE S == (DOMAIN Places) \X (DOMAIN Osm)
               f == [s \in S |-> PairAt(s[1], s[2])]
               I == {PairAt(s[1], s[2]) : s \in S}
    <3>1. IsFiniteSet(DOMAIN Places) /\ IsFiniteSet(DOMAIN Osm)
      BY <2>2, PairsOfAPlace
    <3>2. IsFiniteSet(S)
      <4> DEFINE D1 == DOMAIN Places
                 D2 == DOMAIN Osm
      <4>1. IsFiniteSet(D1) /\ IsFiniteSet(D2)
        BY <3>1
      <4> HIDE DEF D1, D2
      <4>2. IsFiniteSet(D1 \X D2) /\ Cardinality(D1 \X D2) = Cardinality(D1) * Cardinality(D2)
        BY <4>1, FS_Product, Zenon
      <4> QED
        BY <4>2 DEF D1, D2
    <3>3. P \subseteq I
      <4> SUFFICES ASSUME NEW p \in P PROVE p \in I
        OBVIOUS
      <4>1. p.ordinal \in DOMAIN Places /\ p.r \in DOMAIN Osm /\ p = PairAt(p.ordinal, p.r)
        BY <1>2, <1>3 DEF Exclusive
      <4> DEFINE s == <<p.ordinal, p.r>>
      <4>2. s \in S /\ s[1] = p.ordinal /\ s[2] = p.r
        BY <4>1
      <4> HIDE DEF s, S, P
      <4> QED
        BY <4>1, <4>2
    <3>4. f \in [S -> I] /\ \A y \in I : \E s \in S : f[s] = y
      OBVIOUS
    <3> HIDE DEF S, f, I, P
    <3>5. IsFiniteSet(I)
      BY <3>2, <3>4, ImageIsFinite
    <3> QED
      BY <3>3, <3>5, FS_Subset
  <2> QED
    BY <2>1, <2>2
<1>5. \A p, q \in P : p.ordinal = q.ordinal /\ p.r = q.r => p = q
  BY <1>2
<1>6. \A p, q \in P : <<p, q>> \in L <=> PairBefore(p, q)
  OBVIOUS
<1>7. AllInOrder = [k \in 1 .. Cardinality(P) |->
                      CHOOSE x \in P : Cardinality({y \in P : <<y, x>> \in L}) = k - 1]
  <2> DEFINE A(x) == {y \in P : PairBefore(y, x)}
             B(x) == {y \in P : <<y, x>> \in L}
  <2>1. \A x \in P : A(x) = B(x)
    BY <1>6
  <2>2. AllInOrder = [k \in 1 .. Cardinality(P) |-> CHOOSE x \in P : Cardinality(A(x)) = k - 1]
    BY DEF AllInOrder, Ordered
  <2> HIDE DEF A, B, P
  <2>3. \A m : (CHOOSE x \in P : Cardinality(A(x)) = m) = (CHOOSE x \in P : Cardinality(B(x)) = m)
    BY <2>1
  <2>4. AllInOrder = [k \in 1 .. Cardinality(P) |-> CHOOSE x \in P : Cardinality(B(x)) = k - 1]
    BY <2>2, <2>3
  <2> QED
    BY <2>4 DEF B
<1> HIDE DEF P, L
<1>8. /\ \A x, y \in P : ~(<<x, y>> \in L /\ <<y, x>> \in L)
      /\ \A x, y \in P : x # y => <<x, y>> \in L \/ <<y, x>> \in L
      /\ \A x, y, z \in P : <<x, y>> \in L /\ <<y, z>> \in L => <<x, z>> \in L
  <2>1. \A x, y \in P : ~(PairBefore(x, y) /\ PairBefore(y, x))
    BY <1>3 DEF PairBefore
  <2>2. \A x, y \in P : x # y => PairBefore(x, y) \/ PairBefore(y, x)
    BY <1>3, <1>5 DEF PairBefore
  <2>3. \A x, y, z \in P : PairBefore(x, y) /\ PairBefore(y, z) => PairBefore(x, z)
    BY <1>3 DEF PairBefore
  <2> QED
    BY <1>6, <2>1, <2>2, <2>3
<1> DEFINE n == Cardinality(P)
           order == [k \in 1 .. n |-> CHOOSE x \in P : Cardinality({y \in P : <<y, x>> \in L}) = k - 1]
<1>9. /\ n \in Nat /\ order \in [1 .. n -> P]
      /\ \A x \in P : \E k \in 1 .. n : order[k] = x
      /\ \A j, k \in 1 .. n : j < k => <<order[j], order[k]>> \in L
  BY <1>4, <1>8, OrderedIsAll
<1>10. AllInOrder = order
  BY <1>7
<1> HIDE DEF order, n
<1>11. \A k \in 1 .. n : AllInOrder[k] \in P
  BY <1>9, <1>10
<1>12. \A j, k \in 1 .. n : j < k => PairBefore(AllInOrder[j], AllInOrder[k])
  BY <1>6, <1>9, <1>10, <1>11
<1>13. ArePairs(Exclusive, {0} \cup DOMAIN Osm, AllInOrder, n)
  <2>1. \A k \in 1 .. n : /\ AllInOrder[k].ordinal \in Exclusive
                          /\ AllInOrder[k].r \in ({0} \cup DOMAIN Osm) \ {0}
    BY <1>2, <1>3, <1>11
  <2>2. ASSUME NEW j \in 1 .. n, NEW k \in 1 .. n,
               AllInOrder[j].ordinal = AllInOrder[k].ordinal, AllInOrder[j].r = AllInOrder[k].r
        PROVE  j = k
    <3>1. AllInOrder[j] = AllInOrder[k]
      BY <1>5, <1>11, <2>2
    <3>2. ~PairBefore(AllInOrder[j], AllInOrder[k]) /\ ~PairBefore(AllInOrder[k], AllInOrder[j])
      BY <1>6, <1>8, <1>11, <3>1
    <3>3. ~(j < k) /\ ~(k < j)
      BY <1>12, <3>2
    <3> QED
      BY <1>9, <3>3
  <2> QED
    BY <2>1, <2>2 DEF ArePairs
<1> QED
  BY <1>9, <1>10, <1>12, <1>13 DEF P, n

LEMMA Invariance == Spec => []ConflateInv
<1>1. Init => ConflateInv
  BY InitHasInv
<1>2. ConflateInv /\ [Next]_vars => ConflateInv'
  BY NextKeepsInv
<1> QED
  BY <1>1, <1>2, PTL DEF Spec

\* What is gathered are the candidates of places.
AreCandidates(lists) ==
    \A k \in DOMAIN lists : lists[k] = ExclusiveCandidates(lists[k].ordinal)

LEMMA AlwaysCandidates == Spec => []AreCandidates(exclusive)
<1>1. Init => AreCandidates(exclusive)
  BY DEF Init, AreCandidates
<1>2. ConflateInv /\ AreCandidates(exclusive) /\ [Next]_vars => AreCandidates(exclusive)'
  <2> SUFFICES ASSUME ConflateInv, AreCandidates(exclusive), [Next]_vars
               PROVE  AreCandidates(exclusive)'
    OBVIOUS
  <2>1. world' = world
    BY DEF Next, Step, vars, Receive, Return, BeginDeletion, EndProduce, Send, SendFails, Match,
           send_deletion_candidates, NextBatch, SecondPass, SecondPassFails, Publish, MatchFault,
           ReadFault, WriterFault
  <2>2. (\A k \in DOMAIN exclusive' : exclusive'[k] = ExclusiveCandidates(exclusive'[k].ordinal))
        => AreCandidates(exclusive)'
    BY <2>1 DEF AreCandidates, ExclusiveCandidates, candidates, Places
  <2>3. CASE exclusive' = exclusive
    <3>1. \A k \in DOMAIN exclusive' : exclusive'[k] = ExclusiveCandidates(exclusive'[k].ordinal)
      BY <2>3 DEF AreCandidates
    <3> QED
      BY <2>2, <3>1
  <2>4. ASSUME NEW t \in Workers, NEW i \in todo, MatchExclusive(t, i)
        PROVE  AreCandidates(exclusive)'
    <3>1. exclusive' = Append(exclusive, ExclusiveCandidates(i))
      BY <2>4 DEF MatchExclusive
    <3>2. PICK S : exclusive \in Seq(S)
      BY DEF ConflateInv, Gathered
    <3>3. ExclusiveCandidates(i).ordinal = i
      BY DEF ExclusiveCandidates
    <3> DEFINE e == ExclusiveCandidates(i)
    <3> HIDE DEF e
    <3>4. exclusive \in Seq(S \cup {e}) /\ e \in S \cup {e}
      BY <3>2
    <3>5. /\ Len(exclusive) \in Nat /\ DOMAIN exclusive = 1 .. Len(exclusive)
          /\ exclusive' = Append(exclusive, e)
      BY <3>1, <3>4, LenProperties DEF e
    <3>6. /\ DOMAIN exclusive' = 1 .. Len(exclusive) + 1
          /\ exclusive'[Len(exclusive) + 1] = e
          /\ \A k \in 1 .. Len(exclusive) : exclusive'[k] = exclusive[k]
      BY <3>4, <3>5, AppendProperties
    <3>7. \A k \in DOMAIN exclusive' : exclusive'[k] = ExclusiveCandidates(exclusive'[k].ordinal)
      <4> SUFFICES ASSUME NEW k \in DOMAIN exclusive'
                   PROVE  exclusive'[k] = ExclusiveCandidates(exclusive'[k].ordinal)
        OBVIOUS
      <4>1. k \in 1 .. Len(exclusive) \/ k = Len(exclusive) + 1
        BY <3>5, <3>6
      <4>2. CASE k \in 1 .. Len(exclusive)
        BY <3>5, <3>6, <4>2 DEF AreCandidates
      <4>3. CASE k = Len(exclusive) + 1
        BY <3>3, <3>6, <4>3 DEF e
      <4> QED
        BY <4>1, <4>2, <4>3
    <3> QED
      BY <2>2, <3>7
  <2>5. ASSUME NEW t \in Workers, Match(t)
        PROVE  AreCandidates(exclusive)'
    BY <2>3, <2>4, <2>5 DEF Match, MatchNothing, MatchOpen
  <2>6. CASE \A t \in Workers : ~Match(t)
    <3>1. exclusive' = exclusive
      BY <2>6 DEF Next, Step, vars, producerVars, Receive, Return, BeginDeletion, EndProduce, Send,
             SendFails, send_deletion_candidates, NextBatch, SecondPass, SecondPassFails, Publish,
             MatchFault, ReadFault, WriterFault, Abort
    <3> QED
      BY <2>3, <3>1
  <2> QED
    BY <2>5, <2>6
<1> QED
  BY <1>1, <1>2, Invariance, PTL DEF Spec

\* The assignment, whatever the order of the lists of candidates.
TheAssigned ==
    FoldLeft(AssignPair, [to |-> [i \in Exclusive |-> 0], taken |-> {}], AllInOrder)

LEMMA AssignmentOfLists ==
    ASSUME FromInput, NEW lists, AreCandidates(lists),
           {lists[k].ordinal : k \in DOMAIN lists} = Exclusive
    PROVE  assign_exclusive(lists) = TheAssigned.to
<1>1. Pairs(lists) = AllPairs
  <2>1. \A k \in DOMAIN lists : PairsIn(lists[k]) = PairsIn(ExclusiveCandidates(lists[k].ordinal))
    BY DEF AreCandidates
  <2>2. Pairs(lists) = UNION {PairsIn(lists[k]) : k \in DOMAIN lists}
    BY DEF Pairs, ToSet
  <2>3. \A i \in Exclusive : PairsIn(ExclusiveCandidates(i)) = {PairAt(i, r) : r \in Offered(i)}
    BY PairsOfAPlace
  <2> DEFINE Of(i) == {PairAt(i, r) : r \in Offered(i)}
  <2>4. \A k \in DOMAIN lists : lists[k].ordinal \in Exclusive
    OBVIOUS
  <2>5. \A k \in DOMAIN lists : PairsIn(lists[k]) = Of(lists[k].ordinal)
    BY <2>1, <2>3, <2>4
  <2>6. AllPairs = UNION {Of(i) : i \in Exclusive}
    BY DEF AllPairs
  <2> HIDE DEF Of
  <2>7. UNION {PairsIn(lists[k]) : k \in DOMAIN lists} = UNION {Of(lists[k].ordinal) : k \in DOMAIN lists}
    BY <2>5
  <2>8. UNION {Of(lists[k].ordinal) : k \in DOMAIN lists} = UNION {Of(i) : i \in Exclusive}
    OBVIOUS
  <2> QED
    BY <2>2, <2>6, <2>7, <2>8
<1>2. assign_exclusive(lists) =
        FoldLeft(AssignPair, [to |-> [i \in {lists[k].ordinal : k \in DOMAIN lists} |-> 0],
                              taken |-> {}],
                 Ordered(Pairs(lists), PairBefore)).to
  BY DEF assign_exclusive
<1>3. Ordered(Pairs(lists), PairBefore) = AllInOrder
  BY <1>1 DEF AllInOrder, Ordered
<1> QED
  BY <1>2, <1>3 DEF TheAssigned

LEMMA AssignmentInvariant ==
    ASSUME FromInput
    PROVE  Assigned(Exclusive, {0} \cup DOMAIN Osm, AllInOrder, Cardinality(AllPairs), TheAssigned)
<1> DEFINE n == Cardinality(AllPairs)
           V == {0} \cup DOMAIN Osm
<1>1. /\ n \in Nat /\ AllInOrder \in [1 .. n -> AllPairs]
      /\ ArePairs(Exclusive, V, AllInOrder, n)
  BY PairsAreOrdered
<1>2. DOMAIN AllInOrder = 1 .. n
  BY <1>1
<1> DEFINE order == AllInOrder
<1> HIDE DEF n, V, order
<1>3. Assigned(Exclusive, V, order, n,
               FoldLeft(AssignPair, [to |-> [i \in Exclusive |-> 0], taken |-> {}], order))
  <2>1. n \in Nat /\ ArePairs(Exclusive, V, order, n) /\ DOMAIN order = 1 .. n
    BY <1>1, <1>2 DEF order
  <2> QED
    BY <2>1, AllPairsAssigned
<1> QED
  BY <1>3 DEF n, V, order, TheAssigned

\* Of two places of a spider that want a feature, the one with the better claim
\* has it, unless the feature may be shared; and nobody would rather have a
\* feature that is free (assign_exclusive).
THEOREM MatchesAreStable == Spec => []StableAssignment
<1>1. ConflateInv /\ FromInput /\ AreCandidates(exclusive) => StableAssignment
  <2> SUFFICES ASSUME ConflateInv, FromInput, AreCandidates(exclusive), phase = "second"
               PROVE  StableAssignment
    BY DEF StableAssignment
  <2> DEFINE to == assign_exclusive(exclusive)
             n == Cardinality(AllPairs)
             order == AllInOrder
             V == {0} \cup DOMAIN Osm
             Claim(i, r) == CHOOSE p \in PairsOf(i) : p.r = r
             Precedes(p, q) == \/ p.points > q.points
                               \/ p.points = q.points /\ p.ordinal < q.ordinal
             Prefers(i, p) == to[i] = 0 \/ p.points > Claim(i, to[i]).points
             SameSpider(i, j) == Places[i].spider = Places[j].spider
  <2>1. {exclusive[k].ordinal : k \in DOMAIN exclusive} = Exclusive
    BY DEF ConflateInv, Gathered, Phases
  <2>2. to = TheAssigned.to
    BY <2>1, AssignmentOfLists
  <2>3. /\ to \in [Exclusive -> V]
        /\ HoldersHave(Exclusive, order, n, TheAssigned)
        /\ LosersCameLate(order, n, TheAssigned)
        /\ LaterMayShare(order, n, TheAssigned)
    BY <2>2, AssignmentInvariant DEF Assigned
  <2>4. /\ n \in Nat /\ order \in [1 .. n -> AllPairs]
        /\ \A p \in AllPairs : \E k \in 1 .. n : order[k] = p
        /\ \A j, k \in 1 .. n : j < k => PairBefore(order[j], order[k])
    BY PairsAreOrdered
  <2>5. \A i \in Exclusive : PairsOf(i) = {PairAt(i, r) : r \in Offered(i)}
    <3> SUFFICES ASSUME NEW i \in Exclusive
                 PROVE  PairsOf(i) = {PairAt(i, r) : r \in Offered(i)}
      OBVIOUS
    <3>1. ListOf(i) \in DOMAIN exclusive /\ exclusive[ListOf(i)].ordinal = i
      BY <2>1 DEF ListOf
    <3>2. exclusive[ListOf(i)] = ExclusiveCandidates(i)
      BY <3>1 DEF AreCandidates
    <3> QED
      BY <3>2, PairsOfAPlace DEF PairsOf
  <2>6. ASSUME NEW i \in Exclusive, NEW p \in PairsOf(i)
        PROVE  /\ p \in AllPairs /\ p.ordinal = i /\ p.spider = Places[i].spider
               /\ p.points \in Int /\ p.r # 0
               /\ Claim(i, p.r) = p
    <3>1. \A q \in PairsOf(i) : \E r \in Offered(i) : q = PairAt(i, r)
      BY <2>5
    <3>2. \A q \in PairsOf(i) : q.r \in Offered(i) /\ q = PairAt(i, q.r)
      BY <3>1 DEF PairAt
    <3>3. p.ordinal = i /\ p.spider = Places[i].spider /\ p.points = Points(i, p.r)
      BY <3>2 DEF PairAt
    <3>4. p \in AllPairs
      BY <3>2 DEF AllPairs
    <3>5. p.points \in Int /\ p.r # 0
      BY <3>2, <3>3, PairsOfAPlace
    <3>6. \A q \in PairsOf(i) : q.r = p.r => q = p
      BY <3>2
    <3>7. Claim(i, p.r) = p
      BY <3>6
    <3> QED
      BY <3>3, <3>4, <3>5, <3>7
  <2>7. \A p \in AllPairs : p.ordinal \in Exclusive /\ p \in PairsOf(p.ordinal)
    BY <2>5 DEF AllPairs, PairAt
  <2>8. Exclusive \subseteq Int
    <3>1. \A i \in Exclusive : i \in Int
      BY PairsOfAPlace DEF Exclusive
    <3> QED
      BY <3>1
  \* Whoever has a feature has the pair.
  <2>9. ASSUME NEW i \in Exclusive, to[i] # 0
        PROVE  \E l \in 1 .. n : order[l].ordinal = i /\ order[l].r = to[i]
                                 /\ Claim(i, to[i]) = order[l] /\ order[l] \in PairsOf(i)
    <3>1. PICK l \in 1 .. n : order[l].ordinal = i /\ to[i] = order[l].r
      BY <2>2, <2>3, <2>9 DEF HoldersHave, HasAmong, Has
    <3>2. order[l] \in PairsOf(i)
      BY <2>4, <2>7, <3>1
    <3>3. Claim(i, order[l].r) = order[l]
      BY <2>6, <3>2
    <3> QED
      BY <3>1, <3>2, <3>3
  <2>10. DOMAIN to = Exclusive
    BY <2>3
  <2> HIDE DEF to, Claim, n, order, V
  <2>11. ASSUME NEW i \in Exclusive, NEW p \in PairsOf(i), Prefers(i, p)
         PROVE  /\ ~p.share
                /\ \E j \in Exclusive \ {i} :
                     to[j] = p.r /\ SameSpider(i, j) /\ Precedes(Claim(j, p.r), p)
    <3>1. PICK k \in 1 .. n : order[k] = p
      BY <2>4, <2>6
    <3>2. p.ordinal = i /\ p.points \in Int /\ p.r # 0
      BY <2>6
    <3>3. ~HasAmong(order, k, to, i)
      <4> SUFFICES ASSUME NEW l \in 1 .. k, order[l].ordinal = i, to[i] = order[l].r PROVE FALSE
        BY DEF HasAmong, Has
      <4>1. l \in 1 .. n /\ (l = k \/ l < k)
        BY <2>4, <3>1
      <4>2. order[l] \in PairsOf(i)
        BY <2>4, <2>7, <4>1
      <4>3. to[i] # 0 /\ Claim(i, to[i]) = order[l] /\ order[l].points \in Int
        BY <2>6, <4>2
      <4>4. p.points > order[l].points
        BY <2>11, <4>3
      <4>5. l = k \/ PairBefore(order[l], p)
        BY <2>4, <3>1, <4>1
      <4> QED
        BY <3>1, <3>2, <4>3, <4>4, <4>5 DEF PairBefore
    <3>4. ~p.share /\ TakenBefore(order, k - 1, to, p)
      BY <2>2, <2>3, <3>1, <3>2, <3>3 DEF LosersCameLate
    <3>5. PICK l \in 1 .. k - 1 : /\ order[l].ordinal # i /\ KeyOf(order[l]) = KeyOf(p)
                                  /\ to[order[l].ordinal] = order[l].r
      BY <3>2, <3>4 DEF TakenBefore, Has
    <3> DEFINE q == order[l]
               j == q.ordinal
    <3>6. l \in 1 .. n /\ l < k
      BY <2>4, <3>1
    <3>7. q \in AllPairs /\ j \in Exclusive /\ q \in PairsOf(j)
      BY <2>4, <2>7, <3>6
    <3>8. PairBefore(q, p)
      BY <2>4, <3>1, <3>6
    <3> HIDE DEF q, j
    <3>9. q.r = p.r /\ q.spider = p.spider
      BY <3>5 DEF KeyOf, q
    <3>10. /\ q.points \in Int /\ q.ordinal = j /\ q.spider = Places[j].spider
           /\ Claim(j, q.r) = q
      BY <2>6, <3>7
    <3>11. SameSpider(i, j)
      BY <2>6, <3>9, <3>10
    <3>12. i # j /\ to[j] = q.r
      BY <3>5 DEF q, j
    <3>13. Precedes(q, p)
      BY <3>2, <3>8, <3>10, <3>12 DEF PairBefore
    <3>14. Claim(j, p.r) = q /\ to[j] = p.r
      BY <3>9, <3>10, <3>12
    <3> QED
      BY <3>4, <3>7, <3>11, <3>12, <3>13, <3>14
  <2>12. ASSUME NEW i \in Exclusive, NEW j \in Exclusive \ {i},
                to[i] # 0, to[i] = to[j], SameSpider(i, j),
                Claim(i, to[i]).points < Claim(j, to[j]).points
         PROVE  Claim(i, to[i]).share
    <3>1. PICK l \in 1 .. n : /\ order[l].ordinal = i /\ order[l].r = to[i]
                              /\ Claim(i, to[i]) = order[l] /\ order[l] \in PairsOf(i)
      BY <2>9, <2>12
    <3>2. PICK k \in 1 .. n : /\ order[k].ordinal = j /\ order[k].r = to[j]
                              /\ Claim(j, to[j]) = order[k] /\ order[k] \in PairsOf(j)
      BY <2>9, <2>12
    <3>3. order[l].points \in Int /\ order[k].points \in Int
      BY <2>6, <3>1, <3>2
    <3>4. order[l].points < order[k].points
      BY <2>12, <3>1, <3>2
    <3>5. k < l
      <4>1. ~PairBefore(order[l], order[k])
        BY <3>3, <3>4 DEF PairBefore
      <4>2. ~(l < k)
        BY <2>4, <4>1
      <4>3. l # k
        BY <3>3, <3>4
      <4> QED
        BY <2>4, <4>2, <4>3
    <3>6. KeyOf(order[k]) = KeyOf(order[l])
      <4>1. order[l].spider = Places[i].spider /\ order[k].spider = Places[j].spider
        BY <2>6, <3>1, <3>2
      <4>2. order[l].r = order[k].r /\ Places[i].spider = Places[j].spider
        BY <2>12, <3>1, <3>2
      <4> QED
        BY <4>1, <4>2 DEF KeyOf
    <3>7. k \in 1 .. l - 1
      BY <2>4, <3>5
    <3>8. Has(to, order[l]) /\ Has(to, order[k]) /\ order[k].ordinal # order[l].ordinal
      BY <3>1, <3>2 DEF Has
    <3>9. TakenBefore(order, l - 1, to, order[l])
      BY <3>6, <3>7, <3>8 DEF TakenBefore
    <3>10. order[l].share
      BY <2>2, <2>3, <3>8, <3>9 DEF LaterMayShare
    <3> QED
      BY <3>1, <3>10
  <2>13. \A i \in Exclusive : \A p \in PairsOf(i) :
            Prefers(i, p) =>
               /\ ~p.share
               /\ \E j \in Exclusive \ {i} :
                     to[j] = p.r /\ SameSpider(i, j) /\ Precedes(Claim(j, p.r), p)
    BY <2>11
  <2>14. \A i \in Exclusive : \A j \in Exclusive \ {i} :
            /\ to[i] # 0 /\ to[i] = to[j] /\ SameSpider(i, j)
            /\ Claim(i, to[i]).points < Claim(j, to[j]).points
            => Claim(i, to[i]).share
    BY <2>12
  <2> QED
    BY <2>10, <2>13, <2>14 DEF StableAssignment, to, Claim
<1> QED
  BY <1>1, Invariance, AlwaysFromInput, AlwaysCandidates, PTL

-----------------------------------------------------------------------------
(***************************************************************************)
(* Rows with one key.                                                      *)
(***************************************************************************)
\* All rows that there may be.
RowsOfPlaces == {Row(i, r) : i \in WithMatcher, r \in {0} \cup DOMAIN Osm}
RowsOfFeatures == {OsmRow(r) : r \in DOMAIN Osm}
AllRows == RowsOfPlaces \cup RowsOfFeatures

LEMMA ZeroIsOutside ==
    ASSUME NEW n \in Nat
    PROVE  0 \notin 1 .. n
OBVIOUS

LEMMA SpidersDiffer ==
    ASSUME NEW s, s = "" \/ s \in ToSet(SpiderOrder), NEW t, t = "" \/ t \in ToSet(SpiderOrder),
           SpiderRank(s) = SpiderRank(t)
    PROVE  s = t
<1>1. ASSUME NEW u, u # "", u \in ToSet(SpiderOrder)
      PROVE  SpiderRank(u) \in DOMAIN SpiderOrder /\ SpiderOrder[SpiderRank(u)] = u
  <2>1. \E k \in DOMAIN SpiderOrder : SpiderOrder[k] = u
    BY <1>1 DEF ToSet
  <2> QED
    BY <1>1, <2>1 DEF SpiderRank
<1>2. 0 \notin DOMAIN SpiderOrder
  <2>1. SpiderOrder \in Seq(STRING)
    BY SpidersAssumption
  <2>2. DOMAIN SpiderOrder = 1 .. Len(SpiderOrder) /\ Len(SpiderOrder) \in Nat
    BY <2>1, LenProperties
  <2> QED
    BY <2>2, ZeroIsOutside
<1>3. SpiderRank("") = 0
  BY DEF SpiderRank
<1> QED
  BY <1>1, <1>2, <1>3

\* What the row of a place depends on.
LEMMA WorldRows ==
    ASSUME FromInput
    PROVE  /\ \A i, j \in DOMAIN Places : Places[i].rank = Places[j].rank => Places[i].tags = Places[j].tags
           /\ \A q, r \in DOMAIN Osm : Osm[q].id = Osm[r].id => q = r
           /\ \A r \in DOMAIN Osm : Osm[r].id # 0
           /\ \E n \in Nat : DOMAIN Osm = 1 .. n
           /\ \E signals :
                 /\ AreSignals(signals)
                 /\ \A i \in WithMatcher : \A r \in {0} \cup DOMAIN Osm :
                      world.scores[i][r] = score(signals, Places[i], IF r = 0 THEN <<>> ELSE Osm[r].tags)
                 /\ \A r \in DOMAIN Osm : world.osm_scores[r] = score_osm(signals, Osm[r])
<1>1. PICK input \in Worlds : world = WorldOf(input)
  BY DEF FromInput
<1>2. /\ input.places \in Seq(ToSet(input.places)) /\ input.osm \in Seq(ToSet(input.osm))
      /\ \A p, q \in ToSet(input.places) : p.rank = q.rank => p.tags = q.tags
      /\ \A j, k \in DOMAIN input.osm : input.osm[j].id = input.osm[k].id => j = k
      /\ \A feature \in ToSet(input.osm) :
            feature.at \in Nat /\ feature.id \in Nat /\ feature.id # 0
  BY WorldsAssumption DEF IsInput
<1> DEFINE signals == open_signals(input.places, Stored(input.osm))
<1>3. /\ world.places = input.places /\ world.osm = Stored(input.osm)
      /\ world.matcher = [i \in DOMAIN input.places |->
                             create_matcher(input.places[i], Know(input.places))]
      /\ world.scores = [i \in {j \in DOMAIN input.places : world.matcher[j] # "none"} |->
            [r \in 0 .. Len(world.osm) |->
                 score(signals, input.places[i], IF r = 0 THEN <<>> ELSE world.osm[r].tags)]]
      /\ world.osm_scores = [r \in DOMAIN world.osm |-> score_osm(signals, world.osm[r])]
  BY <1>1 DEF WorldOf
<1> HIDE DEF signals
<1>4. DOMAIN Stored(input.osm) = 1 .. Len(input.osm) /\ Len(input.osm) \in Nat
      /\ \A k \in 1 .. Len(input.osm) : Stored(input.osm)[k] \in ToSet(input.osm)
  <2>1. Len(input.osm) \in Nat
    BY <1>2, LenProperties
  <2>2. \A f \in ToSet(input.osm) : f.at \in Nat /\ f.id \in Nat
    BY <1>2
  <2> QED
    BY <1>2, <2>1, <2>2, StoredAreFeatures
<1>9. \A q, r \in 1 .. Len(input.osm) : Stored(input.osm)[q].id = Stored(input.osm)[r].id => q = r
  <2>1. DOMAIN input.osm = 1 .. Len(input.osm)
    BY <1>2, LenProperties
  <2>2. \A f \in ToSet(input.osm) : f.at \in Nat /\ f.id \in Nat
    BY <1>2
  <2>3. \A j, k \in 1 .. Len(input.osm) : input.osm[j].id = input.osm[k].id => j = k
    BY <1>2, <2>1
  <2> QED
    BY <1>2, <2>2, <2>3, StoredAreFeatures
<1>5. DOMAIN Osm = 1 .. Len(input.osm) /\ \A r \in DOMAIN Osm : Osm[r] \in ToSet(input.osm)
  BY <1>3, <1>4 DEF Osm
<1>10. \A q, r \in DOMAIN Osm : Osm[q].id = Osm[r].id => q = r
  BY <1>3, <1>5, <1>9 DEF Osm
<1>11. AreSignals(signals)
  BY <1>2, SignalsType DEF signals
<1>6. Len(world.osm) = Len(input.osm)
  BY <1>3, <1>4, LenProperties
<1>7. \A i \in DOMAIN Places : Places[i] \in ToSet(input.places)
  BY <1>3 DEF Places, ToSet
<1>8. /\ \A i \in WithMatcher : \A r \in {0} \cup DOMAIN Osm :
            world.scores[i][r] = score(signals, Places[i], IF r = 0 THEN <<>> ELSE Osm[r].tags)
      /\ \A r \in DOMAIN Osm : world.osm_scores[r] = score_osm(signals, Osm[r])
  <2>1. {0} \cup DOMAIN Osm = 0 .. Len(world.osm)
    BY <1>4, <1>5, <1>6
  <2>2. WithMatcher = {j \in DOMAIN input.places : world.matcher[j] # "none"}
    BY <1>3 DEF WithMatcher, Places, Matcher
  <2>3. \A i \in WithMatcher : \A r \in 0 .. Len(world.osm) :
            world.scores[i][r] = score(signals, input.places[i], IF r = 0 THEN <<>> ELSE world.osm[r].tags)
    BY <1>3, <2>2
  <2>4. \A r \in DOMAIN world.osm : world.osm_scores[r] = score_osm(signals, world.osm[r])
    BY <1>3
  <2> QED
    <3>1. Places = input.places /\ Osm = world.osm
      BY <1>3 DEF Places, Osm
    <3>2. \A i \in WithMatcher : \A r \in {0} \cup DOMAIN Osm :
            world.scores[i][r] = score(signals, Places[i], IF r = 0 THEN <<>> ELSE Osm[r].tags)
      BY <2>1, <2>3, <3>1, Zenon
    <3>3. \A r \in DOMAIN Osm : world.osm_scores[r] = score_osm(signals, Osm[r])
      BY <2>4, <3>1, Zenon
    <3> QED
      BY <3>2, <3>3
<1> QED
  BY <1>2, <1>4, <1>5, <1>7, <1>8, <1>10, <1>11

\* "Anything still equal after this is a genuine duplicate row."
LEMMA OneRowForAKey ==
    ASSUME ConflateInv, FromInput, NEW a \in AllRows, NEW b \in AllRows, SortKey(a) = SortKey(b)
    PROVE  a = b
<1>1. PICK signals :
         /\ \A i \in WithMatcher : \A r \in {0} \cup DOMAIN Osm :
              world.scores[i][r] = score(signals, Places[i], IF r = 0 THEN <<>> ELSE Osm[r].tags)
         /\ \A r \in DOMAIN Osm : world.osm_scores[r] = score_osm(signals, Osm[r])
  BY WorldRows
<1>2. /\ a.cell = b.cell /\ a.osm = b.osm /\ SpiderRank(a.spider) = SpiderRank(b.spider)
      /\ a.tags = b.tags /\ a.shape = b.shape
  BY DEF SortKey
<1>3. \A i \in WithMatcher : i \in DOMAIN Places /\ Places[i].spider \in ToSet(SpiderOrder)
  BY DEF WithMatcher, ConflateInv, WorldInv
<1>4. "" \notin ToSet(SpiderOrder)
  BY SpidersAssumption
<1>5. /\ \A i, r : Row(i, r).spider = Places[i].spider
      /\ \A r : OsmRow(r).spider = ""
  BY DEF Row, OsmRow
<1>6. /\ a \in RowsOfPlaces => a.spider \in ToSet(SpiderOrder)
      /\ b \in RowsOfPlaces => b.spider \in ToSet(SpiderOrder)
      /\ a \in RowsOfFeatures => a.spider = ""
      /\ b \in RowsOfFeatures => b.spider = ""
  <2>1. \A x \in RowsOfPlaces : x.spider \in ToSet(SpiderOrder)
    <3>1. \A i \in WithMatcher, r \in {0} \cup DOMAIN Osm : Row(i, r).spider \in ToSet(SpiderOrder)
      BY <1>3, <1>5
    <3> QED
      BY <3>1 DEF RowsOfPlaces
  <2>2. \A x \in RowsOfFeatures : x.spider = ""
    <3>1. \A r \in DOMAIN Osm : OsmRow(r).spider = ""
      BY <1>5
    <3> QED
      BY <3>1 DEF RowsOfFeatures
  <2> QED
    BY <2>1, <2>2
<1>7. a.spider = b.spider
  BY <1>2, <1>6, SpidersDiffer DEF AllRows
<1>8. 0 \notin DOMAIN Osm /\ \A r \in DOMAIN Osm : Osm[r].id # 0
  BY WorldRows
<1>9. CASE a \in RowsOfFeatures
  <2>1. b \in RowsOfFeatures
    BY <1>4, <1>6, <1>7, <1>9 DEF AllRows
  <2>2. PICK q \in DOMAIN Osm, r \in DOMAIN Osm : a = OsmRow(q) /\ b = OsmRow(r)
    BY <1>9, <2>1 DEF RowsOfFeatures
  <2>3. Osm[q].id = Osm[r].id
    BY <1>2, <2>2 DEF OsmRow
  <2>4. q = r
    BY <2>3, WorldRows
  <2> QED
    BY <2>2, <2>4
<1>10. CASE a \in RowsOfPlaces
  <2>1. b \in RowsOfPlaces
    BY <1>4, <1>6, <1>7, <1>10 DEF AllRows
  <2>2. PICK i \in WithMatcher, q \in {0} \cup DOMAIN Osm : a = Row(i, q)
    BY <1>10 DEF RowsOfPlaces
  <2>3. PICK j \in WithMatcher, r \in {0} \cup DOMAIN Osm : b = Row(j, r)
    BY <2>1 DEF RowsOfPlaces
  <2>4. /\ Places[i].at = Places[j].at /\ Places[i].rank = Places[j].rank
        /\ Places[i].spider = Places[j].spider /\ Places[i].shape = Places[j].shape
        /\ (IF q \in DOMAIN Osm THEN Osm[q].id ELSE 0) = (IF r \in DOMAIN Osm THEN Osm[r].id ELSE 0)
    BY <1>2, <1>7, <2>2, <2>3 DEF Row
  <2>5. Places[i].tags = Places[j].tags
    BY <1>3, <2>4, WorldRows
  <2>6. q = r
    BY <1>8, <2>4, WorldRows
  <2>7. (IF q = 0 THEN <<>> ELSE Osm[q].tags) = (IF r = 0 THEN <<>> ELSE Osm[r].tags)
    BY <2>6
  <2> DEFINE x == IF q = 0 THEN <<>> ELSE Osm[q].tags
             y == IF r = 0 THEN <<>> ELSE Osm[r].tags
  <2>8. /\ world.scores[i][q] = score(signals, Places[i], x)
        /\ world.scores[j][r] = score(signals, Places[j], y) /\ x = y
    BY <1>1, <2>7
  <2> HIDE DEF x, y
  <2>9. score(signals, Places[i], x) = score(signals, Places[j], y)
    BY <2>4, <2>5, <2>8 DEF score
  <2> QED
    BY <2>2, <2>3, <2>4, <2>8, <2>9 DEF Row
<1> QED
  BY <1>9, <1>10 DEF AllRows

LEMMA AllRowsComparable ==
    ASSUME ConflateInv, NEW x \in AllRows
    PROVE  RowsComparable(x)
<1>1. \A i \in WithMatcher : i \in DOMAIN Places
  BY DEF WithMatcher
<1>2. \A i \in DOMAIN Places : /\ Places[i].at \in Nat /\ Places[i].rank \in Nat
                               /\ Places[i].shape \in Nat
                               /\ Places[i].spider \in ToSet(SpiderOrder)
  BY DEF ConflateInv, WorldInv
<1>3. \A r \in DOMAIN Osm : Osm[r].at \in Nat /\ Osm[r].id \in Nat
  BY DEF ConflateInv, WorldInv
<1>4. \A i \in WithMatcher, r \in {0} \cup DOMAIN Osm : RowsComparable(Row(i, r))
  BY <1>1, <1>2, <1>3 DEF RowsComparable, Row
<1>5. \A r \in DOMAIN Osm : RowsComparable(OsmRow(r))
  BY <1>3 DEF RowsComparable, OsmRow
<1> QED
  BY <1>4, <1>5 DEF AllRows, RowsOfPlaces, RowsOfFeatures

\* So rows are in a total order.
LEMMA RowsDiffer ==
    ASSUME ConflateInv, FromInput, NEW a \in AllRows, NEW b \in AllRows, a # b
    PROVE  RowBefore(a, b) \/ RowBefore(b, a)
<1>1. \A x \in AllRows : RowsComparable(x)
  BY AllRowsComparable
<1>2. \A x \in AllRows : IsKey(SortKey(x))
  <2> SUFFICES ASSUME NEW x \in AllRows
               PROVE  IsKey(SortKey(x))
    OBVIOUS
  <2>1. RowsComparable(x)
    BY <1>1
  <2>2. SpiderRank(x.spider) \in Nat
    BY <2>1, SpiderRankType DEF RowsComparable
  <2> QED
    BY <2>1, <2>2 DEF RowsComparable, IsKey, SortKey
<1>3. SortKey(a) # SortKey(b)
  BY OneRowForAKey
<1> DEFINE x == SortKey(a)
           y == SortKey(b)
<1>4. IsKey(x) /\ IsKey(y) /\ x # y /\ x = <<x[1], x[2], x[3], x[4], x[5]>>
      /\ y = <<y[1], y[2], y[3], y[4], y[5]>>
  <2>1. x = <<x[1], x[2], x[3], x[4], x[5]>> /\ y = <<y[1], y[2], y[3], y[4], y[5]>>
    BY DEF SortKey
  <2> QED
    BY <1>2, <1>3, <2>1
<1> HIDE DEF x, y
<1>5. Lex(x, y) \/ Lex(y, x)
  BY <1>4 DEF Lex, IsKey
<1> QED
  BY <1>5, RowBeforeIsLexicographic DEF x, y

-----------------------------------------------------------------------------
(***************************************************************************)
(* What a file depends on: how often it has each row, and nothing else.    *)
(***************************************************************************)
Below(V, v) == {y \in V : RowBefore(y, v)}

LEMMA RowsInTotalOrder ==
    ASSUME NEW V, \A row \in V : RowsComparable(row),
           \A a, b \in V : a # b => RowBefore(a, b) \/ RowBefore(b, a)
    PROVE  \A v, w \in V :
              /\ v \notin Below(V, v)
              /\ RowBefore(v, w) => Below(V, v) \cup {v} \subseteq Below(V, w)
<1> SUFFICES ASSUME NEW v \in V, NEW w \in V
             PROVE  /\ v \notin Below(V, v)
                    /\ RowBefore(v, w) => Below(V, v) \cup {v} \subseteq Below(V, w)
  OBVIOUS
<1>1. v \notin Below(V, v)
  BY RowsAreOrdered DEF Below
<1>2. ASSUME RowBefore(v, w), NEW y \in V, RowBefore(y, v)
      PROVE  RowBefore(y, w)
  <2>1. RowBefore(y, w) \/ RowBefore(w, v)
    BY <1>2, RowsAreOrdered
  <2>2. ~RowBefore(w, v)
    BY <1>2, RowsAreOrdered
  <2> QED
    BY <2>1, <2>2
<1> QED
  BY <1>1, <1>2 DEF Below

\* The k-th row of a file has fewer than k rows before it, and with those that
\* are the same at least k.
LEMMA RowAtPosition ==
    ASSUME NEW S, NEW s \in Seq(S), NEW V, ToSet(s) \subseteq V,
           \A row \in V : RowsComparable(row),
           \A a, b \in V : a # b => RowBefore(a, b) \/ RowBefore(b, a),
           NEW k \in 1 .. Len(s)
    PROVE  LET v == SortBy(s, RowBefore)[k]
           IN  /\ v \in V
               /\ Cardinality(At(s, Below(V, v))) < k
               /\ k <= Cardinality(At(s, Below(V, v) \cup {v}))
<1> DEFINE n == Len(s)
           v == SortBy(s, RowBefore)[k]
           Ahead(i) == {j \in 1 .. n : \/ j = i
                                       \/ RowBefore(s[j], s[i])
                                       \/ j < i /\ ~RowBefore(s[i], s[j])}
<1>1. n \in Nat /\ DOMAIN s = 1 .. n /\ \A i \in 1 .. n : s[i] \in V
  BY LenProperties DEF ToSet
<1>2. PICK i \in 1 .. n : v = s[i] /\ Cardinality(Ahead(i)) = k
  <2>1. \A row \in ToSet(s) : RowsComparable(row)
    OBVIOUS
  <2> QED
    BY <2>1, SortedByPosition
<1> HIDE DEF v
<1>3. v \in V
  BY <1>1, <1>2
<1>4. IsFiniteSet(Ahead(i)) /\ k \in Nat
  <2>1. IsFiniteSet(1 .. n)
    BY <1>1, FS_Interval
  <2>2. Ahead(i) \subseteq 1 .. n
    OBVIOUS
  <2> QED
    BY <1>1, <2>1, <2>2, FS_Subset
<1>5. At(s, Below(V, v)) \cup {i} \subseteq Ahead(i)
  BY <1>1, <1>2 DEF At, Below
<1>6. i \notin At(s, Below(V, v))
  BY <1>2, <1>3, RowsInTotalOrder DEF At
<1>7. Ahead(i) \subseteq At(s, Below(V, v) \cup {v})
  <2> SUFFICES ASSUME NEW j \in Ahead(i)
               PROVE  j \in 1 .. n /\ s[j] \in Below(V, v) \cup {v}
    BY <1>1 DEF At
  <2>1. j \in 1 .. n /\ s[j] \in V
    BY <1>1
  <2>2. s[j] = s[i] \/ RowBefore(s[j], s[i])
    <3>1. j = i \/ RowBefore(s[j], s[i]) \/ ~RowBefore(s[i], s[j])
      OBVIOUS
    <3> QED
      BY <1>1, <2>1, <3>1
  <2> QED
    BY <1>2, <2>1, <2>2 DEF Below
<1> HIDE DEF Ahead
<1>8. Cardinality(At(s, Below(V, v))) < k
  <2> DEFINE A == At(s, Below(V, v))
  <2>1. IsFiniteSet(A) /\ Cardinality(A) \in Nat
    BY AtIsFinite
  <2> HIDE DEF A
  <2>2. Cardinality(A \cup {i}) = Cardinality(A) + 1
    BY <1>6, <2>1, FS_AddElement DEF A
  <2>3. Cardinality(A \cup {i}) <= Cardinality(Ahead(i))
    BY <1>4, <1>5, FS_Subset DEF A
  <2> QED
    BY <1>2, <1>4, <2>1, <2>2, <2>3 DEF A
<1>9. k <= Cardinality(At(s, Below(V, v) \cup {v}))
  BY <1>2, <1>7, AtIsFinite, FS_Subset
<1> QED
  BY <1>3, <1>8, <1>9 DEF v

LEMMA SameRowAtPosition ==
    ASSUME NEW S, NEW s \in Seq(S), NEW V,
           \A row \in V : RowsComparable(row),
           \A a, b \in V : a # b => RowBefore(a, b) \/ RowBefore(b, a),
           NEW k \in Nat, NEW v \in V, NEW w \in V,
           Cardinality(At(s, Below(V, v))) < k, k <= Cardinality(At(s, Below(V, v) \cup {v})),
           Cardinality(At(s, Below(V, w))) < k, k <= Cardinality(At(s, Below(V, w) \cup {w}))
    PROVE  v = w
<1>1. ASSUME NEW x \in V, NEW y \in V, RowBefore(x, y)
      PROVE  Cardinality(At(s, Below(V, x) \cup {x})) <= Cardinality(At(s, Below(V, y)))
  <2>1. Below(V, x) \cup {x} \subseteq Below(V, y)
    BY <1>1, RowsInTotalOrder
  <2>2. At(s, Below(V, x) \cup {x}) \subseteq At(s, Below(V, y))
    BY <2>1 DEF At
  <2> QED
    BY <2>2, AtIsFinite, FS_Subset
<1>2. ASSUME NEW x \in V, NEW y \in V, RowBefore(x, y),
             k <= Cardinality(At(s, Below(V, x) \cup {x})), Cardinality(At(s, Below(V, y))) < k
      PROVE  FALSE
  <2>1. /\ Cardinality(At(s, Below(V, x) \cup {x})) \in Nat
        /\ Cardinality(At(s, Below(V, y))) \in Nat
    BY AtIsFinite
  <2> QED
    BY <1>1, <1>2, <2>1
<1> QED
  BY <1>2

\* What is in a file is determined by how often there is which row.
LEMMA SameFile ==
    ASSUME NEW S, NEW s \in Seq(S), NEW T, NEW t \in Seq(T), NEW V,
           ToSet(s) \subseteq V, ToSet(t) \subseteq V,
           \A row \in V : RowsComparable(row),
           \A a, b \in V : a # b => RowBefore(a, b) \/ RowBefore(b, a),
           \A X : Cardinality(At(s, X)) = Cardinality(At(t, X))
    PROVE  write_conflated(s) = write_conflated(t)
<1> DEFINE n == Len(s)
           m == Len(t)
           x == SortBy(s, RowBefore)
           y == SortBy(t, RowBefore)
<1>1. /\ n \in Nat /\ DOMAIN s = 1 .. n /\ DOMAIN x = 1 .. n
      /\ m \in Nat /\ DOMAIN t = 1 .. m /\ DOMAIN y = 1 .. m
  <2>1. /\ \A row \in ToSet(s) : RowsComparable(row)
        /\ \A row \in ToSet(t) : RowsComparable(row)
    OBVIOUS
  <2> QED
    BY <2>1, SortedByPosition, LenProperties
<1>2. n = m
  <2>1. At(s, V) = 1 .. n /\ At(t, V) = 1 .. m
    BY <1>1 DEF At, ToSet
  <2>2. \A k \in Nat : Cardinality(1 .. k) = k
    <3> SUFFICES ASSUME NEW k \in Nat
                 PROVE  Cardinality(1 .. k) = k
      OBVIOUS
    <3>1. CASE k = 0
      BY <3>1, FS_EmptySet
    <3>2. CASE k # 0
      BY <3>2, FS_Interval
    <3> QED
      BY <3>1, <3>2
  <2>3. Cardinality(At(s, V)) = Cardinality(At(t, V))
    OBVIOUS
  <2> HIDE DEF n, m
  <2>4. Cardinality(1 .. n) = n /\ Cardinality(1 .. m) = m
    BY <1>1, <2>2
  <2> QED
    BY <2>1, <2>3, <2>4
<1>3. \A k \in 1 .. n : x[k] = y[k] /\ x[k] \in V
  <2> SUFFICES ASSUME NEW k \in 1 .. n
               PROVE  x[k] = y[k] /\ x[k] \in V
    OBVIOUS
  <2>1. /\ x[k] \in V /\ Cardinality(At(s, Below(V, x[k]))) < k
        /\ k <= Cardinality(At(s, Below(V, x[k]) \cup {x[k]}))
    BY RowAtPosition
  <2>2. k \in 1 .. m
    BY <1>2
  <2>3. /\ y[k] \in V /\ Cardinality(At(t, Below(V, y[k]))) < k
        /\ k <= Cardinality(At(t, Below(V, y[k]) \cup {y[k]}))
    BY <2>2, RowAtPosition
  <2> HIDE DEF x, y
  <2>4. /\ Cardinality(At(t, Below(V, y[k]))) = Cardinality(At(s, Below(V, y[k])))
        /\ Cardinality(At(t, Below(V, y[k]) \cup {y[k]}))
             = Cardinality(At(s, Below(V, y[k]) \cup {y[k]}))
    OBVIOUS
  <2>5. k \in Nat
    BY <1>1
  <2> QED
    BY <2>1, <2>3, <2>4, <2>5, SameRowAtPosition
<1>4. \A v : /\ CountWhere([i \in DOMAIN s |-> s[i].score], LAMBDA z : z < v)
                  = CountWhere([i \in DOMAIN t |-> t[i].score], LAMBDA z : z < v)
             /\ CountWhere([i \in DOMAIN s |-> s[i].score], LAMBDA z : z <= v)
                  = CountWhere([i \in DOMAIN t |-> t[i].score], LAMBDA z : z <= v)
  <2> SUFFICES ASSUME NEW v
               PROVE  /\ Cardinality({i \in DOMAIN s : s[i].score < v})
                           = Cardinality({i \in DOMAIN t : t[i].score < v})
                      /\ Cardinality({i \in DOMAIN s : s[i].score <= v})
                           = Cardinality({i \in DOMAIN t : t[i].score <= v})
    BY ZenonT(60) DEF CountWhere
  <2> DEFINE Less == {row \in V : row.score < v}
             Least == {row \in V : row.score <= v}
  <2>1. \A i \in DOMAIN s : s[i] \in V
    BY DEF ToSet
  <2>2. \A i \in DOMAIN t : t[i] \in V
    BY DEF ToSet
  <2>3. /\ {i \in DOMAIN s : s[i].score < v} = At(s, Less)
        /\ {i \in DOMAIN s : s[i].score <= v} = At(s, Least)
    BY <2>1 DEF At
  <2>4. /\ {i \in DOMAIN t : t[i].score < v} = At(t, Less)
        /\ {i \in DOMAIN t : t[i].score <= v} = At(t, Least)
    BY <2>2 DEF At
  <2>5. /\ Cardinality(At(s, Less)) = Cardinality(At(t, Less))
        /\ Cardinality(At(s, Least)) = Cardinality(At(t, Least))
    OBVIOUS
  <2> QED
    BY <2>3, <2>4, <2>5
<1>5. \A v : MidRank([i \in DOMAIN s |-> s[i].score], v) = MidRank([i \in DOMAIN t |-> t[i].score], v)
  BY <1>4 DEF MidRank
<1> DEFINE f(k) == [row |-> x[k], importance |-> MidRank([i \in DOMAIN s |-> s[i].score], x[k].score)]
           g(k) == [row |-> y[k], importance |-> MidRank([i \in DOMAIN t |-> t[i].score], y[k].score)]
<1>6. \A k \in 1 .. n : f(k) = g(k)
  BY <1>3, <1>5
<1>7. write_conflated(s) = [k \in 1 .. n |-> f(k)]
  BY <1>1 DEF write_conflated
<1>8. write_conflated(t) = [k \in 1 .. n |-> g(k)]
  BY <1>1, <1>2 DEF write_conflated
<1> HIDE DEF f, g
<1> QED
  BY <1>6, <1>7, <1>8

-----------------------------------------------------------------------------
(***************************************************************************)
(* The coverage does not depend on the workers: it is that of the batches  *)
(* before the one at hand, taken one after the other.                      *)
(***************************************************************************)
CoverNext(w, c, b) ==
    FoldSet(LAMBDA i, acc : AddPlace(acc, w.places[i], place_country(w.places[i])),
            c, ((IF b = 1 THEN 1 ELSE w.ends[b - 1] + 1) .. w.ends[b]) \cap w.counts)
Covering == INSTANCE Folding WITH Op <- CoverNext

CoveredBy(acc) ==
    /\ acc[0] = EmptyCoverage
    /\ \A b \in 1 .. Len(world.ends) : acc[b] = CoverNext(world, acc[b - 1], b)

CoverageInv ==
    phase \in Phases =>
        \A acc : CoveredBy(acc) =>
            coverage = acc[IF phase = "match" THEN batch - 1 ELSE Len(world.ends)]

LEMMA CoverageSteps == \A c, b : CoverageOf(c, b) = CoverNext(world, c, b)
BY DEF CoverageOf, CoverNext, Places, Ordinals

\* Most steps leave the coverage alone, and what it is of.
LEMMA CoverageStays ==
    ASSUME CoverageInv, world' = world, coverage' = coverage,
           \/ phase' = "failed"
           \/ phase' = phase /\ batch' = batch
           \/ phase \in {"second", "delete"} /\ phase' \in {"delete", "done"}
    PROVE  CoverageInv'
<1>1. \A acc : CoveredBy(acc)' <=> CoveredBy(acc)
  BY DEF CoveredBy
<1> SUFFICES ASSUME phase' \in Phases, NEW acc, CoveredBy(acc)
             PROVE  coverage' = acc[IF phase' = "match" THEN batch' - 1 ELSE Len(world'.ends)]
  BY <1>1 DEF CoverageInv
<1>2. phase \in Phases
  BY DEF Phases
<1>3. coverage = acc[IF phase = "match" THEN batch - 1 ELSE Len(world.ends)]
  BY <1>2 DEF CoverageInv
<1> QED
  BY <1>3 DEF Phases

LEMMA NextBatchCovers ==
    ASSUME ConflateInv, CoverageInv, NextBatch
    PROVE  CoverageInv'
<1>1. /\ phase = "match" /\ world' = world /\ coverage' = CoverageOf(coverage, batch)
      /\ \/ batch < Len(world.ends) /\ batch' = batch + 1 /\ phase' = "match"
         \/ ~(batch < Len(world.ends)) /\ batch' = batch /\ phase' = "second"
  BY DEF NextBatch
<1>2. batch \in 1 .. Len(world.ends) /\ Len(world.ends) \in Nat
  BY LenProperties DEF ConflateInv, Shape, WorldInv
<1>3. \A acc : CoveredBy(acc)' <=> CoveredBy(acc)
  BY <1>1 DEF CoveredBy
<1> SUFFICES ASSUME NEW acc, CoveredBy(acc)
             PROVE  coverage' = acc[IF phase' = "match" THEN batch' - 1 ELSE Len(world'.ends)]
  BY <1>3 DEF CoverageInv
<1>4. coverage = acc[batch - 1]
  BY <1>1 DEF CoverageInv, Phases
<1>5. acc[batch] = CoverNext(world, acc[batch - 1], batch)
  BY <1>2 DEF CoveredBy
<1>6. coverage' = acc[batch]
  BY <1>1, <1>4, <1>5, CoverageSteps
<1>7. (IF phase' = "match" THEN batch' - 1 ELSE Len(world'.ends)) = batch
  BY <1>1, <1>2
<1> QED
  BY <1>6, <1>7

LEMMA AlwaysCovered == Spec => []CoverageInv
<1>1. Init => CoverageInv
  <2> SUFFICES ASSUME Init, NEW acc, CoveredBy(acc)
               PROVE  coverage = acc[IF phase = "match" THEN batch - 1 ELSE Len(world.ends)]
    BY DEF CoverageInv
  <2>1. phase = "match" /\ batch - 1 = 0 /\ coverage = EmptyCoverage
    BY DEF Init
  <2> QED
    BY <2>1 DEF CoveredBy
<1>2. ConflateInv /\ CoverageInv /\ [Next]_vars => CoverageInv'
  <2> SUFFICES ASSUME ConflateInv, CoverageInv, [Next]_vars
               PROVE  CoverageInv'
    OBVIOUS
  <2>1. CASE NextBatch
    BY <2>1, NextBatchCovers
  <2>2. CASE ~NextBatch
    <3>1. /\ world' = world /\ coverage' = coverage
          /\ \/ phase' = "failed"
             \/ phase' = phase /\ batch' = batch
             \/ phase \in {"second", "delete"} /\ phase' \in {"delete", "done"}
      BY <2>2 DEF Next, Step, vars, producerVars, Receive, Return, BeginDeletion, EndProduce, Send,
             SendFails, Match, send_deletion_candidates, SecondPass, SecondPassFails, Publish,
             MatchFault, ReadFault, WriterFault, Abort
    <3> QED
      BY <3>1, CoverageStays
  <2> QED
    BY <2>1, <2>2
<1> QED
  BY <1>1, <1>2, Invariance, PTL DEF Spec

LEMMA CoverageOfTheWorld ==
    ASSUME ConflateInv, CoverageInv, phase \in {"second", "delete", "done"}
    PROVE  coverage = CoverageOfAll
<1> DEFINE n == Len(world.ends)
           batches == [b \in DOMAIN world.ends |-> b]
<1>1. n \in Nat /\ DOMAIN world.ends = 1 .. n
  BY LenProperties DEF ConflateInv, WorldInv
<1>2. CoverageOfAll = Covering!OverSeq(world, EmptyCoverage, batches)
  <2>1. CoverageOfAll = FoldLeft(LAMBDA c, b : CoverNext(world, c, b), EmptyCoverage, batches)
    BY CoverageSteps DEF CoverageOfAll, FoldLeft, MapThenFoldSet
  <2> QED
    BY <2>1 DEF Covering!OverSeq, FoldLeft, MapThenFoldSet, Max, Covering!FoldLeft,
                Covering!MapThenFoldSet, Covering!Max
<1>3. DOMAIN batches = 1 .. n /\ \A b \in 1 .. n : batches[b] = b
  BY <1>1
<1> HIDE DEF batches
<1>4. PICK acc : Covering!Through(world, EmptyCoverage, batches, n, acc)
  BY <1>1, <1>3, Covering!FoldLeftSteps
<1>5. /\ acc[0] = EmptyCoverage /\ acc[n] = CoverageOfAll
      /\ \A b \in 1 .. n : acc[b] = CoverNext(world, acc[b - 1], b)
  BY <1>2, <1>3, <1>4 DEF Covering!Through
<1>6. CoveredBy(acc)
  BY <1>5 DEF CoveredBy
<1>7. coverage = acc[n]
  BY <1>6 DEF CoverageInv, Phases
<1> QED
  BY <1>5, <1>7

\* Only a published file is whole.
FileInv == file.whole => writer = "published"

LEMMA AlwaysPublished == Spec => []FileInv
<1>1. Init => FileInv
  BY DEF Init, FileInv, NoFile
<1>2. FileInv /\ [Next]_vars => FileInv'
  <2> SUFFICES ASSUME FileInv, [Next]_vars
               PROVE  FileInv'
    OBVIOUS
  <2>1. CASE Publish
    BY <2>1 DEF Publish, FileInv
  <2>2. CASE ~Publish
    <3>1. file' = file /\ (writer' = writer \/ writer = "receiving")
      BY <2>2 DEF Next, Step, vars, producerVars, writerVars, Receive, Return, BeginDeletion,
             EndProduce, Send, SendFails, Match, send_deletion_candidates, NextBatch, SecondPass,
             SecondPassFails, MatchFault, ReadFault, WriterFault, Abort
    <3> QED
      BY <3>1 DEF FileInv
  <2> QED
    BY <2>1, <2>2
<1> QED
  BY <1>1, <1>2, PTL DEF Spec

-----------------------------------------------------------------------------
(***************************************************************************)
(* What one worker sends that takes all places and features in order.      *)
(***************************************************************************)
LEMMA FileOrderIsAll ==
    ASSUME NEW S, IsFiniteSet(S), S \subseteq Int
    PROVE  Lists(InFileOrder(S), Cardinality(S), S)
<1> DEFINE n == Cardinality(S)
           L == {p \in S \X S : p[1] < p[2]}
           order == [k \in 1 .. n |-> CHOOSE x \in S : Cardinality({y \in S : <<y, x>> \in L}) = k - 1]
<1>1. \A x, y \in S : <<x, y>> \in L <=> x < y
  OBVIOUS
<1>2. InFileOrder(S) = order
  <2> DEFINE A(x) == {y \in S : y < x}
             B(x) == {y \in S : <<y, x>> \in L}
  <2>1. \A x \in S : A(x) = B(x)
    BY <1>1
  <2>2. InFileOrder(S) = [k \in 1 .. n |-> CHOOSE x \in S : Cardinality(A(x)) = k - 1]
    BY DEF InFileOrder, Ordered
  <2> HIDE DEF A, B, n, order
  <2>3. \A m : (CHOOSE x \in S : Cardinality(A(x)) = m) = (CHOOSE x \in S : Cardinality(B(x)) = m)
    BY <2>1
  <2>4. InFileOrder(S) = [k \in 1 .. n |-> CHOOSE x \in S : Cardinality(B(x)) = k - 1]
    BY <2>2, <2>3
  <2> QED
    BY <2>4 DEF B, order
<1>3. /\ \A x, y \in S : ~(<<x, y>> \in L /\ <<y, x>> \in L)
      /\ \A x, y \in S : x # y => <<x, y>> \in L \/ <<y, x>> \in L
      /\ \A x, y, z \in S : <<x, y>> \in L /\ <<y, z>> \in L => <<x, z>> \in L
  OBVIOUS
<1> HIDE DEF L
<1>4. /\ n \in Nat /\ order \in [1 .. n -> S]
      /\ \A x \in S : \E k \in 1 .. n : order[k] = x
      /\ \A j, k \in 1 .. n : j < k => <<order[j], order[k]>> \in L
  BY <1>3, OrderedIsAll
<1> HIDE DEF order, n
<1>5. \A j, k \in 1 .. n : order[j] = order[k] => j = k
  <2> SUFFICES ASSUME NEW j \in 1 .. n, NEW k \in 1 .. n, order[j] = order[k], j < k
               PROVE  FALSE
    BY <1>4
  <2>1. order[j] \in S /\ <<order[j], order[j]>> \in L
    BY <1>4
  <2> QED
    BY <1>3, <2>1
<1> QED
  BY <1>2, <1>4, <1>5 DEF Lists, n

LEMMA OpenMatchIsFeature ==
    ASSUME FromInput, NEW i \in WithMatcher, i \notin Exclusive
    PROVE  MatchOf(i) \in {0} \cup DOMAIN Osm
<1> DEFINE best == candidates(i)
<1>1. i \in DOMAIN Places /\ Matcher(i) # "none"
  BY DEF WithMatcher
<1>2. best \in Seq(Int \X Good(i))
  BY <1>1, BestOfAPlace
<1>3. Good(i) \subseteq DOMAIN Osm
  <2>1. Found(i) \in Seq(DOMAIN Osm)
    BY <1>1, MatchesOfAPlace
  <2> QED
    BY <2>1, ElementOfSeq, LenProperties DEF ToSet, Good
<1>4. MatchOf(i) = IF best = <<>> THEN 0 ELSE best[1][2]
  BY DEF MatchOf
<1> HIDE DEF best
<1>5. best # <<>> => best[1] \in Int \X Good(i)
  <2>1. best # <<>> => Len(best) \in Nat \ {0}
    BY <1>2, EmptySeq
  <2>2. best # <<>> => 1 \in 1 .. Len(best)
    BY <2>1
  <2> QED
    BY <1>2, <2>2, ElementOfSeq
<1> QED
  BY <1>3, <1>4, <1>5

\* So does the assignment.
LEMMA MatchesAreFeatures ==
    ASSUME ConflateInv, FromInput, AreCandidates(exclusive), phase \in {"second", "delete", "done"}
    PROVE  /\ \A i \in Exclusive : MatchOf(i) = TheAssigned.to[i]
           /\ \A i \in WithMatcher : MatchOf(i) \in {0} \cup DOMAIN Osm
<1>1. {exclusive[k].ordinal : k \in DOMAIN exclusive} = Exclusive
  BY DEF ConflateInv, Gathered, Phases
<1>2. assign_exclusive(exclusive) = TheAssigned.to
  BY <1>1, AssignmentOfLists
<1>3. TheAssigned.to \in [Exclusive -> {0} \cup DOMAIN Osm]
  BY AssignmentInvariant DEF Assigned
<1>4. \A i \in Exclusive : MatchOf(i) = TheAssigned.to[i]
  BY <1>2 DEF MatchOf
<1>5. ASSUME NEW i \in WithMatcher
      PROVE  MatchOf(i) \in {0} \cup DOMAIN Osm
  <2>1. CASE i \in Exclusive
    BY <1>3, <1>4, <2>1
  <2>2. CASE i \notin Exclusive
    BY <2>2, OpenMatchIsFeature
  <2> QED
    BY <2>1, <2>2
<1> QED
  BY <1>4, <1>5

\* And it finds the same matches, and the same features gone.
LEMMA RowsInOrder ==
    ASSUME ConflateInv, FromInput, AreCandidates(exclusive), CoverageInv, phase = "done",
           IsFiniteSet(WithMatcher), IsFiniteSet(Gone)
    PROVE  LET places == InFileOrder(WithMatcher)
               features == InFileOrder(Gone)
           IN  InOrder = [k \in DOMAIN places |-> Row(places[k], MatchOf(places[k]))]
                         \o [k \in DOMAIN features |-> OsmRow(features[k])]
<1> DEFINE n == Cardinality(Exclusive)
           e == InFileOrder(Exclusive)
           lists == [k \in 1 .. n |-> ExclusiveCandidates(e[k])]
           Match_of(i) == IF i \in Exclusive THEN assign_exclusive(lists)[i] ELSE MatchOf(i)
           gone == {r \in DOMAIN Osm : /\ \A i \in WithMatcher : Match_of(i) # r
                                       /\ deletion_reason(Osm[r], CoverageOfAll) # "none"}
           places == InFileOrder(WithMatcher)
           features == InFileOrder(Gone)
<1>1. WithMatcher \subseteq Nat /\ Exclusive \subseteq WithMatcher
  <2>1. WithMatcher \subseteq DOMAIN Places
    BY DEF WithMatcher
  <2>2. DOMAIN Places \subseteq Nat
    BY DEF ConflateInv, WorldInv
  <2>3. Exclusive \subseteq WithMatcher
    BY DEF Exclusive, WithMatcher, is_exclusive
  <2> QED
    BY <2>1, <2>2, <2>3
<1>2. /\ n \in Nat /\ e \in [1 .. n -> Exclusive]
      /\ \A x \in Exclusive : \E k \in 1 .. n : e[k] = x
  <2>1. IsFiniteSet(Exclusive)
    BY <1>1, FS_Subset
  <2>2. Exclusive \subseteq Int
    BY <1>1
  <2> QED
    BY <2>1, <2>2, FileOrderIsAll DEF Lists
<1> HIDE DEF n, e
<1>3. DOMAIN lists = 1 .. n /\ \A k \in 1 .. n : lists[k] = ExclusiveCandidates(e[k])
  OBVIOUS
<1>4. \A i : ExclusiveCandidates(i).ordinal = i
  BY DEF ExclusiveCandidates
<1> HIDE DEF lists
<1>5. AreCandidates(lists) /\ {lists[k].ordinal : k \in DOMAIN lists} = Exclusive
  <2>1. AreCandidates(lists)
    BY <1>3, <1>4 DEF AreCandidates
  <2>2. \A k \in 1 .. n : lists[k].ordinal = e[k]
    BY <1>3, <1>4
  <2> QED
    BY <1>2, <1>3, <2>1, <2>2
<1>6. assign_exclusive(lists) = TheAssigned.to
  BY <1>5, AssignmentOfLists
<1>7. \A i : Match_of(i) = MatchOf(i)
  BY <1>6, MatchesAreFeatures
<1>8. coverage = CoverageOfAll
  BY CoverageOfTheWorld
<1>9. gone = Gone
  BY <1>7, <1>8 DEF Gone
<1>10. InOrder = [k \in DOMAIN places |-> Row(places[k], Match_of(places[k]))]
                 \o [k \in DOMAIN InFileOrder(gone) |-> OsmRow(InFileOrder(gone)[k])]
  BY DEF InOrder, lists, n, e
<1> HIDE DEF Match_of, gone
<1> QED
  BY <1>7, <1>9, <1>10

\* How often it sends which row.
LEMMA InOrderRows ==
    ASSUME ConflateInv, FromInput, AreCandidates(exclusive), CoverageInv, phase = "done",
           IsFiniteSet(WithMatcher), IsFiniteSet(Gone)
    PROVE  /\ \E S : InOrder \in Seq(S)
           /\ ToSet(InOrder) = {Row(i, MatchOf(i)) : i \in WithMatcher} \cup {OsmRow(r) : r \in Gone}
           /\ \A X : Cardinality(At(InOrder, X)) =
                       Cardinality(PlacesIn(WithMatcher, X)) + Cardinality(FeaturesIn(Gone, X))
<1> DEFINE places == InFileOrder(WithMatcher)
           features == InFileOrder(Gone)
           n == Cardinality(WithMatcher)
           m == Cardinality(Gone)
           f == [i \in WithMatcher |-> Row(i, MatchOf(i))]
           g == [r \in Gone |-> OsmRow(r)]
           s == Mapped(places, n, f)
           t == Mapped(features, m, g)
           F == ImageOf(f, WithMatcher)
           G == ImageOf(g, Gone)
<1>1. WithMatcher \subseteq Int /\ Gone \subseteq Int
  <2>1. WithMatcher \subseteq DOMAIN Places /\ Gone \subseteq DOMAIN Osm
    BY DEF WithMatcher, Gone
  <2>2. DOMAIN Places \subseteq Nat /\ DOMAIN Osm \subseteq Nat
    BY DEF ConflateInv, WorldInv
  <2> QED
    BY <2>1, <2>2
<1>2. Lists(places, n, WithMatcher)
  BY <1>1, FileOrderIsAll
<1>3. Lists(features, m, Gone)
  BY <1>1, FileOrderIsAll
<1>4. InOrder = [k \in DOMAIN places |-> Row(places[k], MatchOf(places[k]))]
                \o [k \in DOMAIN features |-> OsmRow(features[k])]
  BY RowsInOrder
<1> HIDE DEF n, m, places, features
<1>5. InOrder = s \o t
  <2>1. [k \in DOMAIN places |-> Row(places[k], MatchOf(places[k]))] = s
    <3>1. DOMAIN places = 1 .. n /\ \A k \in 1 .. n : f[places[k]] = Row(places[k], MatchOf(places[k]))
      BY <1>2 DEF Lists
    <3> HIDE DEF f
    <3> QED
      BY <3>1 DEF Mapped
  <2>2. [k \in DOMAIN features |-> OsmRow(features[k])] = t
    <3>1. DOMAIN features = 1 .. m /\ \A k \in 1 .. m : g[features[k]] = OsmRow(features[k])
      BY <1>3 DEF Lists
    <3> HIDE DEF g
    <3> QED
      BY <3>1 DEF Mapped
  <2> HIDE DEF s, t
  <2> QED
    BY <1>4, <2>1, <2>2
<1>6. \A X : /\ Within(f, WithMatcher, X) = PlacesIn(WithMatcher, X)
             /\ Within(g, Gone, X) = FeaturesIn(Gone, X)
  BY DEF Within, PlacesIn, FeaturesIn
<1>7. F = {Row(i, MatchOf(i)) : i \in WithMatcher} /\ G = {OsmRow(r) : r \in Gone}
  BY DEF ImageOf
<1> HIDE DEF f, g, s, t
<1>8. \A X : /\ s \in Seq(F) /\ ToSet(s) = F
             /\ Cardinality(At(s, X)) = Cardinality(Within(f, WithMatcher, X))
  BY <1>2, CountedInList DEF s
<1>9. \A X : /\ t \in Seq(G) /\ ToSet(t) = G
             /\ Cardinality(At(t, X)) = Cardinality(Within(g, Gone, X))
  BY <1>3, CountedInList DEF t
<1> HIDE DEF F, G
<1>10. s \in Seq(F \cup G) /\ t \in Seq(F \cup G)
  <2>1. s \in Seq(F) /\ t \in Seq(G) /\ F \subseteq F \cup G /\ G \subseteq F \cup G
    BY <1>8, <1>9
  <2> QED
    BY <2>1, SeqMonotonic
<1>11. s \o t \in Seq(F \cup G) /\ ToSet(s \o t) = F \cup G
  BY <1>8, <1>9, <1>10, ConcatProperties, AtConcat
<1>12. \A X : Cardinality(At(s \o t, X)) =
                Cardinality(PlacesIn(WithMatcher, X)) + Cardinality(FeaturesIn(Gone, X))
  <2> SUFFICES ASSUME NEW X
               PROVE  Cardinality(At(s \o t, X)) =
                        Cardinality(PlacesIn(WithMatcher, X)) + Cardinality(FeaturesIn(Gone, X))
    OBVIOUS
  <2>1. Cardinality(At(s \o t, X)) = Cardinality(At(s, X)) + Cardinality(At(t, X))
    BY <1>10, AtConcat
  <2> QED
    BY <1>6, <1>8, <1>9, <2>1
<1> QED
  BY <1>5, <1>7, <1>11, <1>12

\* "So that runs are reproducible": whatever the workers do, in whichever order
\* they match, send and are received, a whole file has the same rows in the
\* same order, with the same importance (conflate/mod.rs, assign_exclusive; the
\* Ord of ParquetRow in writer.rs).
THEOREM FilesAreReproducible == Spec => []Reproducible
<1>1. ConflateInv /\ FromInput /\ AreCandidates(exclusive) /\ CoverageInv /\ FileInv => Reproducible
  <2> SUFFICES ASSUME ConflateInv, FromInput, AreCandidates(exclusive), CoverageInv, FileInv,
                      file.whole
               PROVE  file.rows = write_conflated(InOrder)
    BY DEF Reproducible
  <2>1. writer = "published" /\ phase = "done" /\ file.rows = write_conflated(received)
    <3>1. writer = "published"
      BY DEF FileInv
    <3>2. file = [rows |-> write_conflated(received), whole |-> phase = "done"]
      BY <3>1 DEF ConflateInv, Published
    <3>3. file.rows = write_conflated(received) /\ file.whole = (phase = "done")
      BY <3>2
    <3> QED
      BY <3>1, <3>3
  <2>2. /\ \E S : received \in Seq(S)
        /\ ToSet(received) = {Row(i, MatchOf(i)) : i \in WithMatcher} \cup {OsmRow(r) : r \in Gone}
        /\ \A X : Cardinality(At(received, X)) =
                    Cardinality(PlacesIn(WithMatcher, X)) + Cardinality(FeaturesIn(Gone, X))
        /\ IsFiniteSet(WithMatcher) /\ IsFiniteSet(Gone)
    BY <2>1, ReceivedRows
  <2>3. /\ \E S : InOrder \in Seq(S)
        /\ ToSet(InOrder) = ToSet(received)
        /\ \A X : Cardinality(At(InOrder, X)) = Cardinality(At(received, X))
    BY <2>1, <2>2, InOrderRows
  <2>4. ToSet(received) \subseteq AllRows
    <3>1. \A i \in WithMatcher : Row(i, MatchOf(i)) \in AllRows
      <4>1. \A i \in WithMatcher : MatchOf(i) \in {0} \cup DOMAIN Osm
        BY <2>1, MatchesAreFeatures
      <4> QED
        BY <4>1 DEF AllRows, RowsOfPlaces
    <3>2. \A r \in Gone : OsmRow(r) \in AllRows
      BY DEF AllRows, RowsOfFeatures, Gone
    <3> QED
      BY <2>2, <3>1, <3>2
  <2>5. /\ \A row \in AllRows : RowsComparable(row)
        /\ \A a, b \in AllRows : a # b => RowBefore(a, b) \/ RowBefore(b, a)
    BY AllRowsComparable, RowsDiffer
  <2>6. PICK S : received \in Seq(S)
    BY <2>2
  <2>7. PICK T : InOrder \in Seq(T)
    BY <2>3
  <2>8. write_conflated(received) = write_conflated(InOrder)
    BY <2>3, <2>4, <2>5, <2>6, <2>7, SameFile
  <2> QED
    BY <2>1, <2>8
<1> QED
  BY <1>1, Invariance, AlwaysFromInput, AlwaysCandidates, AlwaysCovered, AlwaysPublished, PTL

-----------------------------------------------------------------------------
(***************************************************************************)
(* Importance in a file.                                                   *)
(***************************************************************************)
SumNext(of, total, row) == total + row.importance
Summing == INSTANCE Folding WITH Op <- SumNext

Importances(rows) == FoldLeft(LAMBDA n, row : n + row.importance, 0, rows)

LEMMA SumSteps ==
    ASSUME NEW n \in Nat, NEW seq, DOMAIN seq = 1 .. n
    PROVE  \E acc : /\ acc[0] = 0
                    /\ \A k \in 1 .. n : acc[k] = acc[k - 1] + seq[k].importance
                    /\ acc[n] = Importances(seq)
<1>1. Importances(seq) = Summing!OverSeq(0, 0, seq)
  BY DEF Importances, Summing!OverSeq, SumNext, FoldLeft, MapThenFoldSet, Max, Summing!FoldLeft,
         Summing!MapThenFoldSet, Summing!Max
<1>2. PICK acc : Summing!Through(0, 0, seq, n, acc)
  BY Summing!FoldLeftSteps
<1>3. /\ acc[0] = 0
      /\ \A k \in 1 .. n : acc[k] = acc[k - 1] + seq[k].importance
      /\ acc[n] = Importances(seq)
  BY <1>1, <1>2 DEF Summing!Through, SumNext
<1> QED
  BY <1>3

LEMMA AverageOfRows ==
    ASSUME NEW S, NEW rows \in Seq(S),
           \A row \in ToSet(rows) : RowsComparable(row) /\ row.score \in Int
    PROVE  Importances(write_conflated(rows)) = Len(write_conflated(rows)) * Len(write_conflated(rows))
<1> DEFINE n == Len(rows)
           sorted == SortBy(rows, RowBefore)
           scores == [i \in DOMAIN rows |-> rows[i].score]
           Ahead(i) == {j \in 1 .. n : \/ j = i
                                       \/ RowBefore(rows[j], rows[i])
                                       \/ j < i /\ ~RowBefore(rows[i], rows[j])}
           rank(k) == MidRank(scores, sorted[k].score)
           p == [k \in 1 .. n |-> CHOOSE i \in 1 .. n : sorted[k] = rows[i] /\ Cardinality(Ahead(i)) = k]
<1>1. n \in Nat /\ DOMAIN sorted = 1 .. n /\ DOMAIN rows = 1 .. n
  BY SortedByPosition, LenProperties
<1>2. \A k \in 1 .. n : \E i \in 1 .. n : sorted[k] = rows[i] /\ Cardinality(Ahead(i)) = k
  BY SortedByPosition
<1>3. write_conflated(rows) = [k \in 1 .. n |-> [row |-> sorted[k], importance |-> rank(k)]]
  BY <1>1 DEF write_conflated
<1>4. scores \in [1 .. n -> Int] /\ \A i \in 1 .. n : scores[i] = rows[i].score
  BY <1>1 DEF ToSet
<1> HIDE DEF sorted, Ahead, scores
<1>5. \A k \in 1 .. n : p[k] \in 1 .. n /\ sorted[k] = rows[p[k]] /\ Cardinality(Ahead(p[k])) = k
  BY <1>2
<1>6. p \in [1 .. n -> 1 .. n]
  BY <1>5
<1> HIDE DEF p
<1>7. IsOrder(p, n)
  BY <1>5, <1>6 DEF IsOrder
<1> DEFINE written == write_conflated(rows)
<1>8. DOMAIN written = 1 .. n /\ Len(written) = n
  BY <1>1, <1>3
<1>9. \A k \in 1 .. n : written[k].importance = MidRank(scores, scores[p[k]])
  BY <1>3, <1>4, <1>5
<1> HIDE DEF written, rank
<1>10. PICK acc : /\ acc[0] = 0
                  /\ \A k \in 1 .. n : acc[k] = acc[k - 1] + written[k].importance
                  /\ acc[n] = Importances(written)
  BY <1>1, <1>8, SumSteps
<1>11. AddsRanks(acc, n, scores, p)
  BY <1>9, <1>10 DEF AddsRanks
<1>12. acc[n] = n * n
  BY <1>1, <1>4, <1>7, <1>11, RanksAverage
<1> QED
  BY <1>8, <1>10, <1>12 DEF written

-----------------------------------------------------------------------------
(***************************************************************************)
(* What has been sent, also by a producer that has failed.                 *)
(***************************************************************************)
\* Rows of places have a match that counts as one; those of features have none.
RowOfPlace(row) ==
    \E i \in WithMatcher, r \in {0} \cup (DOMAIN Osm \cap matched) : row = Row(i, r)
RowOfGone(row) ==
    \E r \in DOMAIN Osm \ matched :
        row = OsmRow(r) /\ deletion_reason(Osm[r], CoverageOfAll) # "none"

SentInv ==
    \A row \in Sent :
        RowOfPlace(row) \/ (phase \in {"delete", "done", "failed"} /\ RowOfGone(row))
NothingYet == writer # "published" => file = NoFile

LEMMA CoverageIsFold ==
    CoverageOfAll = Covering!OverSeq(world, EmptyCoverage, [b \in DOMAIN world.ends |-> b])
<1> DEFINE batches == [b \in DOMAIN world.ends |-> b]
<1>1. CoverageOfAll = FoldLeft(LAMBDA c, b : CoverNext(world, c, b), EmptyCoverage, batches)
  BY CoverageSteps DEF CoverageOfAll, FoldLeft, MapThenFoldSet
<1> QED
  BY <1>1 DEF Covering!OverSeq, FoldLeft, MapThenFoldSet, Max, Covering!FoldLeft,
              Covering!MapThenFoldSet, Covering!Max

LEMMA SameCoverage == world' = world => CoverageOfAll' = CoverageOfAll
<1>1. (CoverageOfAll = Covering!OverSeq(world, EmptyCoverage, [b \in DOMAIN world.ends |-> b]))'
  BY CoverageIsFold, PTL
<1>2. CoverageOfAll' = Covering!OverSeq(world', EmptyCoverage, [b \in DOMAIN world'.ends |-> b])
  BY <1>1
<1> QED
  BY <1>2, CoverageIsFold

LEMMA RowsStaySent ==
    ASSUME world' = world
    PROVE  /\ \A row : RowOfPlace(row) /\ matched \subseteq matched' => RowOfPlace(row)'
           /\ \A row : RowOfGone(row) /\ matched' = matched => RowOfGone(row)'
           /\ \A i \in WithMatcher, r \in {0} \cup (DOMAIN Osm \cap matched') : \A row :
                 row = Row(i, r) => RowOfPlace(row)'
           /\ \A r \in DOMAIN Osm \ matched' : \A row :
                 row = OsmRow(r) /\ deletion_reason(Osm[r], CoverageOfAll) # "none" => RowOfGone(row)'
<1>1. /\ Osm' = Osm /\ CoverageOfAll' = CoverageOfAll /\ WithMatcher' = WithMatcher
      /\ \A i, r : Row(i, r)' = Row(i, r)
      /\ \A r : OsmRow(r)' = OsmRow(r)
  BY SameWorld, SameCoverage DEF WithMatcher
<1> QED
  BY <1>1 DEF RowOfPlace, RowOfGone

LEMMA NothingNewSent ==
    ASSUME SentInv, world' = world, matched' = matched, Sent' \subseteq Sent,
           phase \in {"delete", "done", "failed"} => phase' \in {"delete", "done", "failed"}
    PROVE  SentInv'
<1> SUFFICES ASSUME NEW row \in Sent'
             PROVE  RowOfPlace(row)' \/ (phase' \in {"delete", "done", "failed"} /\ RowOfGone(row)')
  BY DEF SentInv
<1>1. RowOfPlace(row) \/ (phase \in {"delete", "done", "failed"} /\ RowOfGone(row))
  BY DEF SentInv
<1> QED
  BY <1>1, RowsStaySent

LEMMA PlaceIsSent ==
    ASSUME SentInv, world' = world, phase \in {"match", "second"},
           matched \subseteq matched',
           NEW i \in WithMatcher, NEW r \in {0} \cup (DOMAIN Osm \cap matched'),
           Sent' \subseteq Sent \cup {Row(i, r)}
    PROVE  SentInv'
<1> SUFFICES ASSUME NEW row \in Sent'
             PROVE  RowOfPlace(row)'
  BY DEF SentInv
<1>1. CASE row \in Sent
  BY <1>1, RowsStaySent DEF SentInv
<1>2. CASE row = Row(i, r)
  BY <1>2, RowsStaySent
<1> QED
  BY <1>1, <1>2

LEMMA MatchIsSent ==
    ASSUME ConflateInv, FromInput, SentInv, NEW t \in Workers, Match(t)
    PROVE  SentInv'
<1>1. PICK i \in todo : MatchNothing(t, i) \/ MatchExclusive(t, i) \/ MatchOpen(t, i)
  BY DEF Match
<1>2. /\ phase = "match" /\ phase' = phase /\ world' = world /\ worker[t] = Idle
      /\ channel' = channel /\ received' = received
  BY DEF Match, writerVars
<1>3. CASE MatchNothing(t, i) \/ MatchExclusive(t, i)
  <2>1. worker' = worker /\ matched' = matched
    BY <1>3 DEF MatchNothing, MatchExclusive
  <2>2. Sent' = Sent
    BY <1>2, <2>1, RowsStay
  <2> QED
    BY <1>2, <2>1, <2>2, NothingNewSent
<1>4. CASE MatchOpen(t, i)
  <2>1. i \in DOMAIN Places
    <3>1. i \in 1 .. world.ends[batch]
      BY <1>2, BatchInside DEF ConflateInv, Shape
    <3> QED
      BY <3>1, BatchInside DEF ConflateInv, Shape
  <2>2. i \in WithMatcher /\ i \notin Exclusive
    BY <1>4, <2>1 DEF MatchOpen, WithMatcher, Exclusive, is_exclusive
  <2>3. MatchOf(i) \in {0} \cup DOMAIN Osm
    BY <2>2, OpenMatchIsFeature
  <2>4. matched' = matched \cup ({MatchOf(i)} \ {0}) /\ worker' = [worker EXCEPT ![t] = Row(i, MatchOf(i))]
    BY <1>4, <2>2 DEF MatchOpen, MatchOf
  <2>5. Row(i, MatchOf(i)) # Idle
    BY DEF Row, Idle
  <2>6. DOMAIN worker = Workers /\ InOrderOnTheWay
    BY DEF ConflateInv, Shape
  <2>7. Sent' = Sent \cup {Row(i, MatchOf(i))}
    BY <1>2, <2>4, <2>5, <2>6, WorkerGetsRow
  <2> QED
    BY <1>2, <2>2, <2>3, <2>4, <2>7, PlaceIsSent
<1> QED
  BY <1>1, <1>3, <1>4

LEMMA SecondPassIsSent ==
    ASSUME ConflateInv, FromInput, AreCandidates(exclusive), SentInv, SecondPass
    PROVE  SentInv'
<1>1. PICK i \in second :
         LET r == assign_exclusive(exclusive)[i]
         IN  matched' = matched \cup ({r} \ {0}) /\ channel' = Append(channel, Row(i, r))
  BY DEF SecondPass
<1>2. phase = "second" /\ world' = world /\ worker' = worker /\ received' = received
  BY DEF SecondPass, writerVars
<1>3. second \subseteq Exclusive
  BY <1>2 DEF ConflateInv, Shape
<1>4. i \in WithMatcher /\ assign_exclusive(exclusive)[i] = MatchOf(i)
  BY <1>3 DEF Exclusive, is_exclusive, WithMatcher, MatchOf
<1>5. MatchOf(i) \in {0} \cup DOMAIN Osm
  BY <1>2, <1>4, MatchesAreFeatures
<1>6. InOrderOnTheWay
  BY DEF ConflateInv, Shape
<1>7. matched' = matched \cup ({MatchOf(i)} \ {0}) /\ channel' = Append(channel, Row(i, MatchOf(i)))
  BY <1>1, <1>4
<1>8. Sent' = Sent \cup {Row(i, MatchOf(i))}
  BY <1>2, <1>6, <1>7, ChannelGetsRow
<1> QED
  BY <1>2, <1>4, <1>5, <1>7, <1>8, PlaceIsSent

LEMMA GoneIsSent ==
    ASSUME ConflateInv, CoverageInv, SentInv, NEW t \in Workers, send_deletion_candidates(t)
    PROVE  SentInv'
<1>1. PICK r \in todo :
         worker' = IF deletion_reason(Osm[r], coverage) = "none" THEN worker
                   ELSE [worker EXCEPT ![t] = OsmRow(r)]
  BY DEF send_deletion_candidates
<1>2. /\ phase = "delete" /\ phase' = phase /\ worker[t] = Idle /\ world' = world
      /\ matched' = matched /\ channel' = channel /\ received' = received
  BY DEF send_deletion_candidates, writerVars
<1>3. r \in DOMAIN Osm \ matched
  BY <1>2 DEF ConflateInv, Shape
<1>4. coverage = CoverageOfAll
  BY <1>2, CoverageOfTheWorld
<1>5. CASE deletion_reason(Osm[r], coverage) = "none"
  <2>1. worker' = worker
    BY <1>1, <1>5
  <2> QED
    BY <1>2, <2>1, RowsStay, NothingNewSent
<1>6. CASE deletion_reason(Osm[r], coverage) # "none"
  <2>1. worker' = [worker EXCEPT ![t] = OsmRow(r)] /\ OsmRow(r) # Idle
    BY <1>1, <1>6 DEF OsmRow, Idle
  <2>2. DOMAIN worker = Workers /\ InOrderOnTheWay
    BY DEF ConflateInv, Shape
  <2>3. Sent' = Sent \cup {OsmRow(r)}
    BY <1>2, <2>1, <2>2, WorkerGetsRow
  <2> SUFFICES ASSUME NEW row \in Sent'
               PROVE  RowOfPlace(row)' \/ RowOfGone(row)'
    BY <1>2 DEF SentInv
  <2>4. CASE row \in Sent
    BY <1>2, <2>4, RowsStaySent DEF SentInv
  <2>5. CASE row = OsmRow(r)
    BY <1>2, <1>3, <1>4, <1>6, <2>5, RowsStaySent
  <2> QED
    BY <2>3, <2>4, <2>5
<1> QED
  BY <1>5, <1>6

LEMMA PipeIsSent ==
    ASSUME ConflateInv, SentInv,
           \/ Receive \/ Return \/ Publish \/ BeginDeletion \/ EndProduce \/ NextBatch
           \/ WriterFault \/ UNCHANGED vars \/ \E t \in Workers : Send(t)
    PROVE  SentInv'
<1>1. /\ world' = world /\ matched' = matched
      /\ phase \in {"delete", "done", "failed"} => phase' \in {"delete", "done", "failed"}
  BY DEF Receive, Return, Publish, BeginDeletion, EndProduce, NextBatch, WriterFault, Send, vars,
         producerVars
<1>2. InOrderOnTheWay /\ DOMAIN worker = Workers
  BY DEF ConflateInv, Shape
<1>3. CASE Return \/ Publish \/ BeginDeletion \/ EndProduce \/ NextBatch \/ UNCHANGED vars
  <2>1. UNCHANGED <<worker, channel, received>>
    BY <1>3 DEF Return, Publish, BeginDeletion, EndProduce, NextBatch, vars, writerVars
  <2> QED
    BY <1>1, <2>1, RowsStay, NothingNewSent
<1>4. CASE Receive
  BY <1>1, <1>2, <1>4, WriterGetsRow, NothingNewSent DEF Receive
<1>5. CASE \E t \in Workers : Send(t)
  BY <1>1, <1>2, <1>5, WorkerSendsRow, NothingNewSent DEF Send, writerVars
<1>6. CASE WriterFault
  <2>1. Sent' \subseteq Sent
    BY <1>6, ToSetEmpty DEF Sent, Busy, WriterFault
  <2> QED
    BY <1>1, <2>1, NothingNewSent
<1> QED
  BY <1>3, <1>4, <1>5, <1>6

LEMMA AbortIsSent ==
    ASSUME ConflateInv, SentInv,
           \/ \E t \in Workers : SendFails(t) \/ MatchFault(t)
           \/ ReadFault \/ SecondPassFails
    PROVE  SentInv'
<1>1. /\ world' = world /\ matched' = matched /\ phase' = "failed"
      /\ channel' = channel /\ received' = received
      /\ worker' = worker \/ \E t \in Workers : worker' = [worker EXCEPT ![t] = Idle]
  BY DEF SendFails, MatchFault, ReadFault, SecondPassFails, Abort, writerVars
<1>2. Sent' \subseteq Sent
  BY <1>1 DEF ConflateInv, Shape, Sent, Busy
<1> QED
  BY <1>1, <1>2, NothingNewSent

LEMMA AlwaysSent == Spec => [](SentInv /\ NothingYet)
<1>1. Init => SentInv /\ NothingYet
  <2> SUFFICES ASSUME Init
               PROVE  SentInv /\ NothingYet
    OBVIOUS
  <2>1. Sent = {}
    BY ToSetEmpty DEF Init, Sent, Busy
  <2> QED
    BY <2>1 DEF SentInv, NothingYet, Init
<1>2. /\ ConflateInv /\ FromInput /\ AreCandidates(exclusive) /\ CoverageInv
      /\ SentInv /\ NothingYet /\ [Next]_vars
      => SentInv' /\ NothingYet'
  <2> SUFFICES ASSUME ConflateInv, FromInput, AreCandidates(exclusive), CoverageInv,
                      SentInv, NothingYet, [Next]_vars
               PROVE  SentInv' /\ NothingYet'
    OBVIOUS
  <2>1. SentInv'
    BY PipeIsSent, AbortIsSent, MatchIsSent, SecondPassIsSent, GoneIsSent DEF Next, Step
  <2>2. NothingYet'
    <3>1. CASE Publish
      BY <3>1 DEF Publish, NothingYet
    <3>2. CASE ~Publish
      <4>1. file' = file /\ (writer' = writer \/ writer = "receiving")
        BY <3>2 DEF Next, Step, vars, producerVars, writerVars, Receive, Return, BeginDeletion,
               EndProduce, Send, SendFails, Match, send_deletion_candidates, NextBatch, SecondPass,
               SecondPassFails, MatchFault, ReadFault, WriterFault, Abort
      <4> QED
        BY <4>1 DEF NothingYet
    <3> QED
      BY <3>1, <3>2
  <2> QED
    BY <2>1, <2>2
<1> QED
  BY <1>1, <1>2, Invariance, AlwaysFromInput, AlwaysCandidates, AlwaysCovered, PTL DEF Spec

\* What is in a file.
LEMMA FileOfSent ==
    ASSUME ConflateInv, SentInv, NothingYet, file # NoFile
    PROVE  /\ file.rows = write_conflated(received)
           /\ phase \in {"done", "failed"}
           /\ \E S : received \in Seq(S)
           /\ \A row \in ToSet(received) : RowOfPlace(row) \/ RowOfGone(row)
<1>1. writer = "published"
  BY DEF NothingYet
<1>2. /\ phase \in {"done", "failed"}
      /\ file = [rows |-> write_conflated(received), whole |-> phase = "done"]
      /\ InOrderOnTheWay
  BY <1>1 DEF ConflateInv, Published, Shape
<1>3. file.rows = write_conflated(received)
  BY <1>2
<1> QED
  BY <1>2, <1>3 DEF InOrderOnTheWay, SentInv, Sent

\* Rows have scores, and an order.
LEMMA RowsHaveScores ==
    ASSUME ConflateInv, FromInput, NEW row, RowOfPlace(row) \/ RowOfGone(row)
    PROVE  RowsComparable(row) /\ row.score \in Int
<1>1. row \in AllRows
  BY DEF RowOfPlace, RowOfGone, AllRows, RowsOfPlaces, RowsOfFeatures
<1>2. PICK signals :
         /\ AreSignals(signals)
         /\ \A i \in WithMatcher : \A r \in {0} \cup DOMAIN Osm :
              world.scores[i][r] = score(signals, Places[i], IF r = 0 THEN <<>> ELSE Osm[r].tags)
         /\ \A r \in DOMAIN Osm : world.osm_scores[r] = score_osm(signals, Osm[r])
  BY WorldRows
<1>3. /\ \A place, tags : score(signals, place, tags) \in Int
      /\ \A feature : score_osm(signals, feature) \in Int
  BY <1>2, ImportanceType
<1>4. \A i \in WithMatcher : \A r \in {0} \cup DOMAIN Osm : world.scores[i][r] \in Int
  <2> SUFFICES ASSUME NEW i \in WithMatcher, NEW r \in {0} \cup DOMAIN Osm
               PROVE  world.scores[i][r] \in Int
    OBVIOUS
  <2> DEFINE tags == IF r = 0 THEN <<>> ELSE Osm[r].tags
  <2>1. world.scores[i][r] = score(signals, Places[i], tags)
    BY <1>2
  <2> HIDE DEF tags
  <2> QED
    BY <1>3, <2>1
<1>5. \A r \in DOMAIN Osm : world.osm_scores[r] \in Int
  BY <1>2, <1>3
<1>6. /\ \A i, r : Row(i, r).score = world.scores[i][r]
      /\ \A r : OsmRow(r).score = world.osm_scores[r]
  BY DEF Row, OsmRow
<1>7. row.score \in Int
  BY <1>4, <1>5, <1>6 DEF RowOfPlace, RowOfGone
<1> QED
  BY <1>1, <1>7, AllRowsComparable

\* The importance of the rows of a file is one half on average: a mid rank
\* gives each of n equal rows the same place among them, so ties neither raise
\* nor lower the sum (write_conflated in writer.rs; importance/osm_views.rs,
\* quantile).
THEOREM ImportanceIsFair == Spec => []ImportanceAveragesHalf
<1>1. ConflateInv /\ FromInput /\ SentInv /\ NothingYet => ImportanceAveragesHalf
  <2> SUFFICES ASSUME ConflateInv, FromInput, SentInv, NothingYet
               PROVE  Importances(file.rows) = Len(file.rows) * Len(file.rows)
    BY DEF ImportanceAveragesHalf, Importances
  <2>1. CASE file = NoFile
    <3>1. file.rows = <<>>
      BY <2>1 DEF NoFile
    <3>2. DOMAIN file.rows = 1 .. 0 /\ Len(file.rows) = 0
      BY <3>1
    <3>3. Importances(file.rows) = 0
      BY <3>2, SumSteps
    <3> QED
      BY <3>2, <3>3
  <2>2. CASE file # NoFile
    <3>1. PICK S : received \in Seq(S)
      BY <2>2, FileOfSent
    <3>2. \A row \in ToSet(received) : RowsComparable(row) /\ row.score \in Int
      BY <2>2, FileOfSent, RowsHaveScores
    <3>3. Importances(write_conflated(received))
            = Len(write_conflated(received)) * Len(write_conflated(received))
      BY <3>1, <3>2, AverageOfRows
    <3> QED
      BY <2>2, <3>3, FileOfSent
  <2> QED
    BY <2>1, <2>2
<1> QED
  BY <1>1, Invariance, AlwaysFromInput, AlwaysSent, PTL

-----------------------------------------------------------------------------
(***************************************************************************)
(* Where the coverage comes from: it has the codes of every place that     *)
(* counts, and its ids and names are those of places.                      *)
(***************************************************************************)
AddNext(w, acc, i) == AddPlace(acc, w.places[i], place_country(w.places[i]))
Adding == INSTANCE Folding WITH Op <- AddNext

SwissCodes(place) ==
    swiss_uics(Parts(place.tags, {"uic_ref"})) \cup UNION {swiss_uic(id) : id \in SwissIds(place)}

StemsFrom(place, keys, entry) ==
    /\ entry[1] \in Parts(place.tags, keys)
    /\ entry[2] = place_country(place)
    /\ ~abroad(place, entry[2])

Covers(w, P, c) ==
    /\ \A i \in P : SwissCodes(w.places[i]) \subseteq c.uic /\ SwissIds(w.places[i]) \subseteq c.ifopt
    /\ \A entry \in c.wikidata : \E i \in DOMAIN w.places : StemsFrom(w.places[i], WIKIDATA_KEYS, entry)
    /\ \A entry \in c.names : \E i \in DOMAIN w.places : StemsFrom(w.places[i], NAME_KEYS, entry)

LEMMA OnePlaceMore ==
    ASSUME NEW w, NEW P, NEW c, Covers(w, P, c), NEW i \in DOMAIN w.places
    PROVE  Covers(w, P \cup {i}, AddNext(w, c, i))
<1> DEFINE place == w.places[i]
           land == place_country(place)
           brand == ~abroad(place, land)
           next == AddNext(w, c, i)
<1>1. /\ next.uic = c.uic \cup swiss_uics(Parts(place.tags, {"uic_ref"}))
                    \cup UNION {swiss_uic(id) : id \in SwissIds(place)}
      /\ next.ifopt = c.ifopt \cup SwissIds(place)
      /\ next.wikidata = c.wikidata \cup
            (IF brand THEN Parts(place.tags, WIKIDATA_KEYS) \X {land} \X Categories(place.tags) ELSE {})
      /\ next.names = c.names \cup
            (IF brand THEN Parts(place.tags, NAME_KEYS) \X {land} \X Categories(place.tags) ELSE {})
  BY DEF AddNext, AddPlace
<1>2. next.uic = c.uic \cup SwissCodes(place)
  BY <1>1 DEF SwissCodes
<1> HIDE DEF next, land
<1>3. \A entry \in next.wikidata :
         entry \in c.wikidata \/ StemsFrom(place, WIKIDATA_KEYS, entry)
  <2>1. ASSUME NEW entry \in Parts(place.tags, WIKIDATA_KEYS) \X {land} \X Categories(place.tags), brand
        PROVE  StemsFrom(place, WIKIDATA_KEYS, entry)
    BY <2>1 DEF StemsFrom, land
  <2> QED
    BY <1>1, <2>1
<1>4. \A entry \in next.names :
         entry \in c.names \/ StemsFrom(place, NAME_KEYS, entry)
  <2>1. ASSUME NEW entry \in Parts(place.tags, NAME_KEYS) \X {land} \X Categories(place.tags), brand
        PROVE  StemsFrom(place, NAME_KEYS, entry)
    BY <2>1 DEF StemsFrom, land
  <2> QED
    BY <1>1, <2>1
<1> HIDE DEF place
<1>5. place = w.places[i]
  BY DEF place
<1>6. \A j \in P \cup {i} : SwissCodes(w.places[j]) \subseteq next.uic
                             /\ SwissIds(w.places[j]) \subseteq next.ifopt
  <2>1. next.ifopt = c.ifopt \cup SwissIds(place)
    BY <1>1
  <2> QED
    BY <1>2, <1>5, <2>1 DEF Covers
<1>7. /\ \A entry \in next.wikidata : \E j \in DOMAIN w.places : StemsFrom(w.places[j], WIKIDATA_KEYS, entry)
      /\ \A entry \in next.names : \E j \in DOMAIN w.places : StemsFrom(w.places[j], NAME_KEYS, entry)
  BY <1>3, <1>4, <1>5 DEF Covers
<1>8. Covers(w, P \cup {i}, next)
  BY <1>6, <1>7 DEF Covers
<1> QED
  BY <1>8 DEF next

LEMMA BatchCovered ==
    ASSUME NEW w, NEW P, NEW c, Covers(w, P, c), NEW S \in SUBSET DOMAIN w.places, IsFiniteSet(S)
    PROVE  Covers(w, P \cup S, Adding!OverSet(w, c, S))
<1>0. PICK n \in Nat : \E e, acc : Adding!Run(w, c, S, n, e, acc)
  BY Adding!FoldSetSteps DEF IsFiniteSet, Adding!IsFiniteSet
<1>1. PICK e, acc : Adding!Run(w, c, S, n, e, acc)
  BY <1>0
<1>2. /\ e \in [1 .. n -> S]
      /\ \A x \in S : \E k \in 1 .. n : e[k] = x
      /\ acc[0] = c
      /\ \A k \in 1 .. n : acc[k] = AddNext(w, acc[k - 1], e[k])
      /\ acc[n] = Adding!OverSet(w, c, S)
  BY <1>1 DEF Adding!Run
<1> DEFINE Added(m) == {e[k] : k \in 1 .. m}
           T == {m \in Nat : m <= n => Covers(w, P \cup Added(m), acc[m])}
<1>4. 0 \in T
  <2>1. Added(0) = {}
    OBVIOUS
  <2>2. P \cup Added(0) = P
    BY <2>1
  <2> QED
    BY <1>2, <2>2
<1>5. ASSUME NEW m \in Nat, m \in T
      PROVE  m + 1 \in T
  <2> SUFFICES ASSUME m + 1 <= n
               PROVE  Covers(w, P \cup Added(m + 1), acc[m + 1])
    OBVIOUS
  <2>1. m + 1 \in 1 .. n /\ m <= n /\ (m + 1) - 1 = m
    OBVIOUS
  <2>2. acc[m + 1] = AddNext(w, acc[m], e[m + 1])
    BY <1>2, <2>1
  <2>3. e[m + 1] \in DOMAIN w.places
    BY <1>2, <2>1
  <2>4. P \cup Added(m + 1) = (P \cup Added(m)) \cup {e[m + 1]}
    <3>1. \A k : k \in 1 .. m + 1 <=> k \in 1 .. m \/ k = m + 1
      OBVIOUS
    <3>2. Added(m + 1) = Added(m) \cup {e[m + 1]}
      BY <3>1
    <3> QED
      BY <3>2
  <2>5. Covers(w, P \cup Added(m), acc[m])
    BY <1>5, <2>1
  <2> HIDE DEF Added
  <2>6. Covers(w, (P \cup Added(m)) \cup {e[m + 1]}, AddNext(w, acc[m], e[m + 1]))
    BY <2>3, <2>5, OnePlaceMore
  <2> QED
    BY <2>2, <2>4, <2>6
<1>6. n \in T
  <2> HIDE DEF T
  <2> QED
    BY <1>4, <1>5, Adding!NumbersFrom0
<1>7. Covers(w, P \cup Added(n), acc[n])
  BY <1>6
<1>8. Added(n) = S
  BY <1>2
<1> QED
  BY <1>2, <1>7, <1>8

LEMMA CoverNextIsFold ==
    \A w, c, b : CoverNext(w, c, b) =
        Adding!OverSet(w, c, ((IF b = 1 THEN 1 ELSE w.ends[b - 1] + 1) .. w.ends[b]) \cap w.counts)
BY DEF CoverNext, Adding!OverSet, AddNext, FoldSet, MapThenFoldSet, Adding!FoldSet,
       Adding!MapThenFoldSet

\* All places that count do so in some batch.
LEMMA AllCovered ==
    ASSUME WorldInv, world.counts \subseteq DOMAIN Places
    PROVE  Covers(world, world.counts, CoverageOfAll)
<1> DEFINE n == Len(world.ends)
           batches == [b \in DOMAIN world.ends |-> b]
           Counted(b) == world.counts \cap (1 .. (IF b = 0 THEN 0 ELSE world.ends[b]))
<1>1. n \in Nat \ {0} /\ DOMAIN world.ends = 1 .. n /\ \A b \in 1 .. n : world.ends[b] \in Nat
  BY LenProperties, EmptySeq DEF WorldInv
<1>2. DOMAIN batches = 1 .. n /\ \A b \in 1 .. n : batches[b] = b
  BY <1>1
<1> HIDE DEF batches
<1>3. PICK acc : Covering!Through(world, EmptyCoverage, batches, n, acc)
  BY <1>1, <1>2, Covering!FoldLeftSteps
<1>4. /\ acc[0] = EmptyCoverage /\ acc[n] = CoverageOfAll
      /\ \A b \in 1 .. n : acc[b] = CoverNext(world, acc[b - 1], b)
  BY <1>2, <1>3, CoverageIsFold DEF Covering!Through, batches
<1>5. PICK m \in Nat : DOMAIN Places = 1 .. m /\ world.ends[n] = m
  BY DEF WorldInv
<1>6. \A b, c \in 1 .. n : b <= c => world.ends[b] <= world.ends[c]
  BY <1>1 DEF WorldInv
<1> HIDE DEF n
<1> DEFINE T == {b \in Nat : b <= n => Covers(world, Counted(b), acc[b])}
<1>7. 0 \in T
  <2>1. Counted(0) = {}
    OBVIOUS
  <2>2. Covers(world, {}, EmptyCoverage)
    BY DEF Covers, EmptyCoverage
  <2> HIDE DEF Counted
  <2> QED
    BY <1>4, <2>1, <2>2
<1>8. ASSUME NEW b \in Nat, b \in T
      PROVE  b + 1 \in T
  <2> SUFFICES ASSUME b + 1 <= n
               PROVE  Covers(world, Counted(b + 1), acc[b + 1])
    OBVIOUS
  <2> DEFINE S == ((IF b + 1 = 1 THEN 1 ELSE world.ends[b] + 1) .. world.ends[b + 1]) \cap world.counts
  <2>1. b + 1 \in 1 .. n /\ b <= n /\ (b + 1) - 1 = b /\ b + 1 # 0
    BY <1>1
  <2>2. world.ends[b + 1] \in Nat
    BY <1>1, <2>1
  <2>3. b # 0 => world.ends[b] \in Nat /\ world.ends[b] <= world.ends[b + 1]
    <3>1. b # 0 => b \in 1 .. n /\ b <= b + 1
      BY <1>1, <2>1
    <3> QED
      BY <1>1, <1>6, <2>1, <3>1
  <2>4. Counted(b + 1) = Counted(b) \cup S
    <3>1. CASE b = 0
      BY <2>2, <3>1
    <3>2. CASE b # 0
      <4>1. \A i : i \in 1 .. world.ends[b + 1]
                     <=> i \in 1 .. world.ends[b] \/ i \in world.ends[b] + 1 .. world.ends[b + 1]
        BY <2>2, <2>3, <3>2
      <4> QED
        BY <2>1, <3>2, <4>1
    <3> QED
      BY <3>1, <3>2
  <2>5. acc[b + 1] = Adding!OverSet(world, acc[b], S)
    BY <1>4, <2>1, CoverNextIsFold
  <2>6. Covers(world, Counted(b), acc[b])
    BY <1>8, <2>1
  <2>7. S \in SUBSET DOMAIN world.places /\ IsFiniteSet(S)
    <3>1. S \subseteq world.counts
      OBVIOUS
    <3>2. S \subseteq DOMAIN Places
      BY <3>1
    <3>3. IsFiniteSet(DOMAIN Places)
      BY <1>5, IntervalOfNat, FS_Interval
    <3> HIDE DEF S
    <3> QED
      BY <3>2, <3>3, FS_Subset DEF Places
  <2> HIDE DEF S, Counted
  <2>8. Covers(world, Counted(b) \cup S, Adding!OverSet(world, acc[b], S))
    BY <2>6, <2>7, BatchCovered
  <2> QED
    BY <2>4, <2>5, <2>8
<1>9. n \in T
  <2> HIDE DEF T
  <2> QED
    BY <1>1, <1>7, <1>8, Adding!NumbersFrom0
<1>10. Covers(world, Counted(n), acc[n])
  BY <1>1, <1>9
<1>11. Counted(n) = world.counts
  BY <1>1, <1>5
<1> QED
  BY <1>4, <1>10, <1>11

\* Of the inputs, what the reasons for deletion depend on.
LEMMA WorldCodes ==
    ASSUME FromInput
    PROVE  /\ world.counts \subseteq DOMAIN Places
           /\ \A i \in DOMAIN Places : Matcher(i) = "transit" => i \in world.counts
           /\ \A i \in DOMAIN Places : \A code \in Parts(Places[i].tags, {"uic_ref"}) :
                 code = <<code[1], code[2]>>
           /\ \A r \in DOMAIN Osm : \A code \in Parts(Osm[r].tags, {"uic_ref"}) :
                 code = <<code[1], code[2]>>
<1>1. PICK input \in Worlds : world = WorldOf(input)
  BY DEF FromInput
<1>2. /\ input.places \in Seq(ToSet(input.places)) /\ input.osm \in Seq(ToSet(input.osm))
      /\ \A feature \in ToSet(input.osm) : feature.at \in Nat /\ feature.id \in Nat
      /\ \A item \in ToSet(input.places) \cup ToSet(input.osm) :
            \A code \in Parts(item.tags, {"uic_ref"}) : code = <<code[1], code[2]>>
  BY WorldsAssumption DEF IsInput
<1> DEFINE know == Know(input.places)
<1>3. /\ world.places = input.places /\ world.osm = Stored(input.osm)
      /\ world.matcher = [i \in DOMAIN input.places |-> create_matcher(input.places[i], know)]
      /\ world.counts = {i \in {j \in DOMAIN input.places : world.matcher[j] # "none"} :
                            counts_for_coverage(input.places[i], know)}
  BY <1>1 DEF WorldOf
<1> HIDE DEF know
<1>4. world.counts \subseteq DOMAIN Places
  BY <1>3 DEF Places
<1>5. ASSUME NEW i \in DOMAIN Places, Matcher(i) = "transit"
      PROVE  i \in world.counts
  <2>1. i \in DOMAIN input.places /\ world.matcher[i] = "transit"
    BY <1>3, <1>5 DEF Places, Matcher
  <2>2. create_matcher(input.places[i], know) = "transit"
    BY <1>3, <2>1
  <2>3. counts_for_coverage(input.places[i], know)
    BY <2>2 DEF counts_for_coverage
  <2> QED
    BY <1>3, <2>1, <2>3
<1>6. \A i \in DOMAIN Places : Places[i] \in ToSet(input.places)
  BY <1>3 DEF Places, ToSet
<1>7. \A r \in DOMAIN Osm : Osm[r] \in ToSet(input.osm)
  <2>1. Len(input.osm) \in Nat
    BY <1>2, LenProperties
  <2>2. /\ DOMAIN Stored(input.osm) = 1 .. Len(input.osm)
        /\ \A k \in 1 .. Len(input.osm) : Stored(input.osm)[k] \in ToSet(input.osm)
    BY <1>2, <2>1, StoredAreFeatures
  <2> QED
    BY <1>3, <2>2 DEF Osm
<1> QED
  BY <1>2, <1>4, <1>5, <1>6, <1>7

LEMMA SloidIsSwiss ==
    ASSUME NEW id, NEW code \in swiss_uic(id)
    PROVE  id[1] = "ch" /\ code = <<"85", code[2]>>
<1>1. IsSloid(id) /\ code = <<"85", Padded[id[4]]>>
  BY DEF swiss_uic
<1>2. id[1] = "ch"
  <2>1. SubSeq(<<"ch", "1", "sloid">>, 1, 3) = SubSeq(id, 1, 3)
    BY <1>1 DEF IsSloid, IsPrefix
  <2>2. SubSeq(<<"ch", "1", "sloid">>, 1, 3)[1] = "ch"
    OBVIOUS
  <2>3. SubSeq(id, 1, 3)[1] = id[1]
    OBVIOUS
  <2> QED
    BY <2>1, <2>2, <2>3
<1> QED
  BY <1>1, <1>2

\* A number of a stop, in whichever form, is that of a code.
LEMMA NumberIsCode ==
    ASSUME NEW item, NEW n \in Numbers_of(item.tags),
           \A code \in Parts(item.tags, {"uic_ref"}) : code = <<code[1], code[2]>>
    PROVE  <<"85", n>> \in SwissCodes(item)
<1>1. CASE \E code \in swiss_uics(Parts(item.tags, {"uic_ref"})) : n = code[2]
  <2>1. PICK code \in swiss_uics(Parts(item.tags, {"uic_ref"})) : n = code[2]
    BY <1>1
  <2>2. code \in Parts(item.tags, {"uic_ref"}) /\ code[1] = "85"
    BY <2>1 DEF swiss_uics
  <2>3. code = <<"85", n>>
    BY <2>1, <2>2
  <2> QED
    BY <2>1, <2>3 DEF SwissCodes
<1>2. CASE \E id \in Parts(item.tags, IFOPT_KEYS) : \E code \in swiss_uic(id) : n = code[2]
  <2>0. PICK id \in Parts(item.tags, IFOPT_KEYS) : \E code \in swiss_uic(id) : n = code[2]
    BY <1>2
  <2>1. PICK code \in swiss_uic(id) : n = code[2]
    BY <2>0
  <2>2. id[1] = "ch" /\ code = <<"85", code[2]>>
    BY SloidIsSwiss
  <2>3. id \in SwissIds(item)
    BY <2>2 DEF SwissIds, swiss_ifopts
  <2>4. code = <<"85", n>>
    BY <2>1, <2>2
  <2> QED
    BY <2>3, <2>4 DEF SwissCodes
<1>3. \/ \E code \in swiss_uics(Parts(item.tags, {"uic_ref"})) : n = code[2]
      \/ \E id \in Parts(item.tags, IFOPT_KEYS) : \E code \in swiss_uic(id) : n = code[2]
  BY DEF Numbers_of
<1> QED
  BY <1>1, <1>2, <1>3

LEMMA PartsGrow ==
    ASSUME NEW tags, NEW keys, NEW more, keys \subseteq more
    PROVE  Parts(tags, keys) \subseteq Parts(tags, more)
BY DEF Parts

\* A place whose id or name is covered counts in its country.
LEMMA CountryOfEntry ==
    ASSUME NEW place, NEW keys, keys \subseteq WIKIDATA_KEYS \cup NAME_KEYS, NEW entry,
           StemsFrom(place, keys, entry)
    PROVE  entry[2] = country(place.at) /\ (SwissIds(place) = {} \/ entry[2] \in SwissCountries)
<1>1. PICK i \in DOMAIN place.tags : place.tags[i][1] \in keys
  BY DEF StemsFrom, Parts
<1>2. place_country(place) = country(place.at)
  BY <1>1 DEF place_country
<1> QED
  BY <1>2 DEF StemsFrom, abroad

LEMMA EntryJustifies ==
    ASSUME NEW r \in DOMAIN Osm, NEW i \in DOMAIN Places, NEW entry,
           NEW keys, keys \subseteq WIKIDATA_KEYS \cup NAME_KEYS,
           StemsFrom(Places[i], keys, entry),
           entry[1] \in Parts(Osm[r].tags, keys), entry[2] = country(Osm[r].at)
    PROVE  in_swiss_home(Osm[r].at) \/ NamedThere(r)
<1>1. /\ entry[2] = country(Places[i].at)
      /\ SwissIds(Places[i]) = {} \/ entry[2] \in SwissCountries
  BY CountryOfEntry
<1>2. CASE entry[2] \in SwissCountries
  BY <1>2 DEF in_swiss_home
<1>3. CASE SwissIds(Places[i]) = {}
  <2>1. /\ entry[1] \in Parts(Places[i].tags, WIKIDATA_KEYS \cup NAME_KEYS)
        /\ entry[1] \in Parts(Osm[r].tags, WIKIDATA_KEYS \cup NAME_KEYS)
    BY PartsGrow DEF StemsFrom
  <2> QED
    BY <1>1, <1>3, <2>1 DEF NamedThere
<1> QED
  BY <1>1, <1>2, <1>3

\* So what looks gone does so for a reason.
LEMMA ReasonJustifies ==
    ASSUME NEW P, NEW c, Covers(world, P, c), NEW r \in DOMAIN Osm,
           deletion_reason(Osm[r], c) # "none"
    PROVE  in_swiss_home(Osm[r].at) \/ NamedThere(r)
<1> DEFINE osm == Osm[r]
           at == country(osm.at)
           ids == Parts(osm.tags, WIKIDATA_KEYS)
           names == IF ids # {} THEN {}
                    ELSE UNION {ToSet(osm.tags[i][2]) :
                                  i \in {j \in NameTags(osm.tags) :
                                           Len(osm.tags[j][2]) <= MAX_NAME_VALUES}}
<1>1. in_swiss_home(osm.at) \/ BrandReason(osm, c) # "none"
  BY DEF deletion_reason
<1>2. CASE BrandReason(osm, c) # "none"
  <2>1. \/ \E id \in ids : covers_wikidata(c, id, at, osm)
        \/ \E name \in names : covers_name(c, name, at, osm)
    BY <1>2 DEF BrandReason
  <2>2. names \subseteq Parts(osm.tags, NAME_KEYS)
    BY DEF Parts, NameTags
  <2> HIDE DEF ids, names, at, osm
  <2>3. CASE \E id \in ids : covers_wikidata(c, id, at, osm)
    <3>0. PICK id \in ids : \E kind : <<id, at, kind>> \in c.wikidata
      BY <2>3 DEF covers_wikidata
    <3>1. PICK kind : <<id, at, kind>> \in c.wikidata
      BY <3>0
    <3>2. PICK i \in DOMAIN world.places :
             StemsFrom(world.places[i], WIKIDATA_KEYS, <<id, at, kind>>)
      BY <3>1 DEF Covers
    <3>3. <<id, at, kind>>[1] \in Parts(Osm[r].tags, WIKIDATA_KEYS)
          /\ <<id, at, kind>>[2] = country(Osm[r].at)
      BY <3>1 DEF ids, at, osm
    <3> QED
      BY <3>2, <3>3, EntryJustifies DEF Places
  <2>4. CASE \E name \in names : covers_name(c, name, at, osm)
    <3>0. PICK name \in names : \E kind : <<name, at, kind>> \in c.names
      BY <2>4 DEF covers_name
    <3>1. PICK kind : <<name, at, kind>> \in c.names
      BY <3>0
    <3>2. PICK i \in DOMAIN world.places :
             StemsFrom(world.places[i], NAME_KEYS, <<name, at, kind>>)
      BY <3>1 DEF Covers
    <3>3. <<name, at, kind>>[1] \in Parts(Osm[r].tags, NAME_KEYS)
          /\ <<name, at, kind>>[2] = country(Osm[r].at)
      BY <2>2, <3>1 DEF at, osm
    <3> QED
      BY <3>2, <3>3, EntryJustifies DEF Places
  <2> QED
    BY <2>1, <2>3, <2>4
<1> QED
  BY <1>1, <1>2

\* And a stop that the register lists does not look gone.
LEMMA ListedIsKnown ==
    ASSUME FromInput, NEW c, Covers(world, world.counts, c), NEW r \in DOMAIN Osm,
           has_swiss_transit(c), KnownStop(r)
    PROVE  deletion_reason(Osm[r], c) = "none"
<1>1. PICK i \in DOMAIN Places :
         /\ is_stop(Osm[r].tags) /\ Matcher(i) = "transit"
         /\ \/ Numbers_of(Osm[r].tags) \cap Numbers_of(Places[i].tags) # {}
            \/ OsmIfopt(Osm[r]) \cap SwissIds(Places[i]) # {}
  BY DEF KnownStop
<1>2. SwissCodes(Places[i]) \subseteq c.uic /\ SwissIds(Places[i]) \subseteq c.ifopt
  <2>1. i \in world.counts
    BY <1>1, WorldCodes
  <2> QED
    BY <2>1 DEF Covers, Places
<1>3. ASSUME Numbers_of(Osm[r].tags) \cap Numbers_of(Places[i].tags) # {}
      PROVE  KnownId(Osm[r], c)
  <2>0. PICK n : n \in Numbers_of(Osm[r].tags) /\ n \in Numbers_of(Places[i].tags)
    BY <1>3
  <2>1. \A code \in Parts(Places[i].tags, {"uic_ref"}) : code = <<code[1], code[2]>>
    BY WorldCodes
  <2>2. \A code \in Parts(Osm[r].tags, {"uic_ref"}) : code = <<code[1], code[2]>>
    BY WorldCodes
  <2>3. <<"85", n>> \in SwissCodes(Osm[r]) /\ <<"85", n>> \in SwissCodes(Places[i])
    BY <2>0, <2>1, <2>2, NumberIsCode
  <2> QED
    BY <1>2, <2>3 DEF KnownId, SwissCodes, SwissIds, OsmIfopt, OsmUic
<1>4. ASSUME OsmIfopt(Osm[r]) \cap SwissIds(Places[i]) # {}
      PROVE  KnownId(Osm[r], c)
  BY <1>2, <1>4 DEF KnownId
<1>5. KnownId(Osm[r], c)
  BY <1>1, <1>3, <1>4
<1> QED
  BY <1>1, <1>5 DEF deletion_reason

\* The rows of a file, as far as the reasons are concerned.
LEMMA FileOfGone ==
    ASSUME ConflateInv, FromInput, SentInv, NothingYet
    PROVE  \A k \in DOMAIN file.rows :
              \/ /\ file.rows[k].row.spider # ""
                 /\ \A r \in DOMAIN Osm : file.rows[k].row.osm = Osm[r].id => r \in matched
              \/ /\ file.rows[k].row.spider = ""
                 /\ \A r \in DOMAIN Osm : file.rows[k].row.osm = Osm[r].id =>
                       r \notin matched /\ deletion_reason(Osm[r], CoverageOfAll) # "none"
<1>1. ASSUME NEW row, RowOfPlace(row)
      PROVE  row.spider # "" /\ \A r \in DOMAIN Osm : row.osm = Osm[r].id => r \in matched
  <2>1. PICK i \in WithMatcher, q \in {0} \cup (DOMAIN Osm \cap matched) : row = Row(i, q)
    BY <1>1 DEF RowOfPlace
  <2>2. Places[i].spider \in ToSet(SpiderOrder)
    BY DEF WithMatcher, ConflateInv, WorldInv
  <2>3. row.spider = Places[i].spider /\ row.osm = IF q \in DOMAIN Osm THEN Osm[q].id ELSE 0
    BY <2>1 DEF Row
  <2>4. ASSUME NEW r \in DOMAIN Osm, row.osm = Osm[r].id
        PROVE  r \in matched
    <3>1. Osm[r].id # 0
      BY WorldRows
    <3>2. q \in DOMAIN Osm /\ Osm[q].id = Osm[r].id
      BY <2>3, <2>4, <3>1
    <3>3. q = r
      BY <3>2, WorldRows
    <3>4. q # 0
      BY <3>2, WorldRows, ZeroIsOutside
    <3> QED
      BY <2>1, <3>3, <3>4
  <2> QED
    BY <2>2, <2>3, <2>4, SpidersAssumption
<1>2. ASSUME NEW row, RowOfGone(row)
      PROVE  /\ row.spider = ""
             /\ \A r \in DOMAIN Osm : row.osm = Osm[r].id =>
                   r \notin matched /\ deletion_reason(Osm[r], CoverageOfAll) # "none"
  <2>1. PICK q \in DOMAIN Osm \ matched :
           row = OsmRow(q) /\ deletion_reason(Osm[q], CoverageOfAll) # "none"
    BY <1>2 DEF RowOfGone
  <2>2. row.spider = "" /\ row.osm = Osm[q].id
    BY <2>1 DEF OsmRow
  <2>3. \A r \in DOMAIN Osm : row.osm = Osm[r].id => q = r
    BY <2>2, WorldRows
  <2> QED
    BY <2>1, <2>2, <2>3
<1>3. CASE file = NoFile
  <2>1. DOMAIN file.rows = {}
    BY <1>3 DEF NoFile
  <2> QED
    BY <2>1
<1>4. CASE file # NoFile
  <2>1. PICK S : received \in Seq(S)
    BY <1>4, FileOfSent
  <2>2. file.rows = write_conflated(received)
        /\ \A row \in ToSet(received) : RowOfPlace(row) \/ RowOfGone(row)
    BY <1>4, FileOfSent
  <2>3. \A row \in ToSet(received) : RowsComparable(row)
    BY <2>2, RowsHaveScores
  <2>4. {write_conflated(received)[k].row : k \in DOMAIN write_conflated(received)} = ToSet(received)
    BY <2>1, <2>3, FileHasTheRows
  <2>5. \A k \in DOMAIN file.rows : file.rows[k].row \in ToSet(received)
    BY <2>2, <2>4
  <2>6. \A k \in DOMAIN file.rows : RowOfPlace(file.rows[k].row) \/ RowOfGone(file.rows[k].row)
    BY <2>2, <2>5
  <2> QED
    BY <1>1, <1>2, <2>6
<1> QED
  BY <1>3, <1>4

\* Whatever fails, and whichever workers send what, a feature that a file
\* proposes for deletion is not the match of one of its places, is no stop that
\* the Swiss register lists, if AllThePlaces has all of that, and where it is, a
\* place that the register does not vouch for has its id or name, unless it is
\* in the home of the register (send_deletion_candidates in conflate/mod.rs;
\* deletion_reason and AtpCoverage::add in deletion.rs).
THEOREM DeletionsAreJustified == Spec => []GoneIsJustified
<1>1. ConflateInv /\ FromInput /\ SentInv /\ NothingYet => GoneIsJustified
  <2> SUFFICES ASSUME ConflateInv, FromInput, SentInv, NothingYet, NEW r \in GoneFeatures
               PROVE  /\ Osm[r].id \notin MatchedOf({file.rows[i].row : i \in DOMAIN file.rows})
                      /\ ~(has_swiss_transit(CoverageOfAll) /\ KnownStop(r))
                      /\ in_swiss_home(Osm[r].at) \/ NamedThere(r)
    BY DEF GoneIsJustified
  <2>1. r \in DOMAIN Osm
        /\ \E i \in DOMAIN file.rows : file.rows[i].row.spider = "" /\ file.rows[i].row.osm = Osm[r].id
    BY DEF GoneFeatures
  <2>2. r \notin matched /\ deletion_reason(Osm[r], CoverageOfAll) # "none"
    BY <2>1, FileOfGone
  <2>3. \A i \in DOMAIN file.rows : file.rows[i].row.spider # "" => file.rows[i].row.osm # Osm[r].id
    BY <2>1, <2>2, FileOfGone
  <2>4. Osm[r].id \notin MatchedOf({file.rows[i].row : i \in DOMAIN file.rows})
    BY <2>3 DEF MatchedOf
  <2>5. Covers(world, world.counts, CoverageOfAll)
    BY AllCovered, WorldCodes DEF ConflateInv
  <2>6. ~(has_swiss_transit(CoverageOfAll) /\ KnownStop(r))
    BY <2>1, <2>2, <2>5, ListedIsKnown
  <2>7. in_swiss_home(Osm[r].at) \/ NamedThere(r)
    BY <2>1, <2>2, <2>5, ReasonJustifies
  <2> QED
    BY <2>4, <2>6, <2>7
<1> QED
  BY <1>1, Invariance, AlwaysFromInput, AlwaysSent, PTL

-----------------------------------------------------------------------------
\* What a matcher takes for evidence is not shared by places far apart: of the
\* contacts, those that find_nondescript leaves are of places close to each
\* other, and a domain with a brand has no place of another brand, or of none
\* (nondescript.rs, find_nondescript; brand_domains.rs, Builder::add and build).
THEOREM EvidenceIsNotShared == Spec => []SharedEvidenceTellsNothing
<1>1. FromInput => SharedEvidenceTellsNothing
  <2> SUFFICES ASSUME FromInput
               PROVE  /\ \A i \in {j \in DOMAIN Places : Matcher(j) = "poi"} :
                           \A s \in DOMAIN SIGNALS :
                             \A v \in Evidence(Places[i], world.know).contacts[s] :
                               Spread(s, v) < min_spread[s]
                      /\ \A d \in DOMAIN world.know.domains : \A i \in DOMAIN Places :
                           LET tags == Places[i].tags
                           IN  d \in website_domains(tags) /\ ~has_several_ids(tags)
                               => brand_id(tags) = world.know.domains[d]
    BY DEF SharedEvidenceTellsNothing
  <2>1. PICK input \in Worlds : world = WorldOf(input)
    BY DEF FromInput
  <2>2. Places = input.places /\ world.know = Know(Places)
    BY <2>1 DEF WorldOf, Places
  <2>3. Places \in Seq(ToSet(Places)) /\ \A i \in DOMAIN Places : IsPlaced(Places[i])
    <3>1. /\ input.places \in Seq(ToSet(input.places))
          /\ \A place \in ToSet(input.places) :
                /\ place.at \in Nat
                /\ place.tags \in Seq(ToSet(place.tags))
                /\ \A tag \in ToSet(place.tags) : tag[2] \in Seq(ToSet(tag[2]))
      BY WorldsAssumption DEF IsInput
    <3>2. \A i \in DOMAIN Places : Places[i] \in ToSet(Places)
      BY DEF ToSet
    <3> QED
      BY <2>2, <3>1, <3>2 DEF IsPlaced, IsTags
  <2>4. ASSUME NEW i \in DOMAIN Places, NEW s \in DOMAIN SIGNALS,
               NEW v \in Evidence(Places[i], world.know).contacts[s]
        PROVE  Spread(s, v) < min_spread[s]
    <3> DEFINE D == {j \in DOMAIN Places : v \in ContactValues(Places[j].tags, s)}
               at == [j \in D |-> Places[j].at]
               A == {Places[j].at : j \in D}
    <3>1. /\ v \in ContactValues(Places[i].tags, s)
          /\ v \notin Know(Places).nondescript[s]
      BY <2>2 DEF Evidence, AtpContacts
    <3>2. \A j, k \in D : Places[j].at - Places[k].at < min_spread[s]
      BY <2>3, <3>1, SharedByNeighborsOnly
    <3>3. i \in D
      BY <3>1
    <3>4. IsFiniteSet(D)
      <4>1. DOMAIN Places = 1 .. Len(Places) /\ Len(Places) \in Nat
        BY <2>3, LenProperties
      <4>2. IsFiniteSet(DOMAIN Places)
        BY <4>1, FS_Interval
      <4> QED
        BY <4>2, FS_Subset
    <3>5. /\ at \in [D -> A] /\ \A t \in A : \E j \in D : at[j] = t
      OBVIOUS
    <3>6. A \in SUBSET Int /\ A # {}
      BY <2>3, <3>3 DEF IsPlaced
    <3>7. \A t \in A : \E j \in D : t = Places[j].at
      OBVIOUS
    <3>8. Spread(s, v) = Max(A) - Min(A)
      BY DEF Spread
    <3> HIDE DEF D, A, at
    <3>9. IsFiniteSet(A)
      BY <3>4, <3>5, ImageIsFinite
    <3>10. Max(A) \in A /\ Min(A) \in A
      BY <3>6, <3>9, LeastAndGreatest
    <3> QED
      BY <3>2, <3>7, <3>8, <3>10
  <2>5. ASSUME NEW d \in DOMAIN world.know.domains, NEW i \in DOMAIN Places,
               d \in website_domains(Places[i].tags), ~has_several_ids(Places[i].tags)
        PROVE  brand_id(Places[i].tags) = world.know.domains[d]
    <3>1. world.know.domains = build_brand_domains(Places)
      BY <2>2 DEF Know
    <3>2. Tells(Places[i].tags, d)
      BY <2>5 DEF Tells
    <3> QED
      BY <2>3, <2>5, <3>1, <3>2, DomainsAreOfOneBrand
  <2> QED
    BY <2>4, <2>5
<1> QED
  BY <1>1, AlwaysFromInput, PTL

-----------------------------------------------------------------------------
(***************************************************************************)
(* What the pipeline makes of the file.  Its steps are no steps of the     *)
(* conflation, of which everything above still holds.                      *)
(***************************************************************************)
LEMMA ProductsConflate == ProductsSpec => Spec
<1>1. ProductsInit => Init
  BY DEF ProductsInit
<1>2. [ProductsNext]_allVars => [Next]_vars
  BY DEF ProductsNext, Products, extract_conflated_layers, suggest_edits, allVars
<1> QED
  BY <1>1, <1>2, PTL DEF ProductsSpec, Spec

\* A file that is there stays as it is.
LEMMA FileStays ==
    ASSUME writer = "published", [ProductsNext]_allVars
    PROVE  writer' = "published" /\ file' = file /\ world' = world
<1>1. [Next]_vars
  BY DEF ProductsNext, Products, extract_conflated_layers, suggest_edits, allVars
<1> QED
  BY <1>1 DEF Next, Step, vars, producerVars, writerVars, Receive, Return, BeginDeletion,
         EndProduce, Send, SendFails, Match, send_deletion_candidates, NextBatch, SecondPass,
         SecondPassFails, Publish, MatchFault, ReadFault, WriterFault, Abort

\* The tags of the place of a row have keys that differ.
HasKeys(tags) ==
    /\ tags \in Seq(ToSet(tags))
    /\ \A j, k \in DOMAIN tags : tags[j][1] = tags[k][1] => j = k

\* The rows of the file are those that have been sent.
LEMMA FileOfRows ==
    ASSUME ConflateInv, FromInput, SentInv, writer = "published"
    PROVE  /\ file.rows \in Seq(ToSet(file.rows))
           /\ \A i \in DOMAIN file.rows : RowOfPlace(file.rows[i].row) \/ RowOfGone(file.rows[i].row)
<1>1. /\ file = [rows |-> write_conflated(received), whole |-> phase = "done"]
      /\ InOrderOnTheWay
  BY DEF ConflateInv, Published, Shape
<1>2. file.rows = write_conflated(received)
  BY <1>1
<1>3. PICK S : received \in Seq(S)
  BY <1>1 DEF InOrderOnTheWay
<1>4. \A r \in ToSet(received) : RowOfPlace(r) \/ RowOfGone(r)
  BY DEF SentInv, Sent
<1>5. /\ file.rows \in Seq(ToSet(file.rows))
      /\ {file.rows[k].row : k \in DOMAIN file.rows} = ToSet(received)
  BY <1>2, <1>3, <1>4, RowsHaveScores, FileHasTheRows
<1> QED
  BY <1>4, <1>5

LEMMA PlaceOfRow ==
    ASSUME ConflateInv, FromInput, SentInv, writer = "published",
           NEW i \in DOMAIN file.rows, HasAtp(file.rows[i].row)
    PROVE  HasKeys(AtpTags(file.rows[i].row))
<1> DEFINE row == file.rows[i].row
<1>5. RowOfPlace(row) \/ RowOfGone(row)
  BY FileOfRows
<1>6. row.spider # ""
  BY DEF HasAtp
<1>7. ~RowOfGone(row)
  <2>1. \A r : OsmRow(r).spider = ""
    BY DEF OsmRow
  <2> HIDE DEF row
  <2> QED
    BY <1>6, <2>1 DEF RowOfGone
<1>8. PICK j \in DOMAIN Places : row.spider = Places[j].spider /\ row.tags = Places[j].rank
  <2>1. \A j, r : Row(j, r).spider = Places[j].spider /\ Row(j, r).tags = Places[j].rank
    BY DEF Row
  <2> HIDE DEF row
  <2> QED
    BY <1>5, <1>7, <2>1 DEF RowOfPlace, WithMatcher
<1> DEFINE c == CHOOSE k \in DOMAIN Places : Places[k].spider = row.spider /\ Places[k].rank = row.tags
<1>9. c \in DOMAIN Places
  BY <1>8
<1>10. AtpTags(row) = Places[c].tags
  BY DEF AtpTags
<1> HIDE DEF c, row
<1>11. PICK input \in Worlds : world = WorldOf(input)
  BY DEF FromInput
<1>12. Places = input.places
  BY <1>11 DEF WorldOf, Places
<1>13. Places[c] \in ToSet(input.places)
  BY <1>9, <1>12 DEF ToSet
<1>14. HasKeys(Places[c].tags)
  <2>1. \A place \in ToSet(input.places) :
           /\ place.tags \in Seq(ToSet(place.tags))
           /\ \A k, l \in DOMAIN place.tags : place.tags[k][1] = place.tags[l][1] => k = l
    BY WorldsAssumption DEF IsInput
  <2> QED
    BY <1>13, <2>1 DEF HasKeys
<1> QED
  BY <1>10, <1>14 DEF row

-----------------------------------------------------------------------------
(***************************************************************************)
(* Edits.                                                                  *)
(***************************************************************************)
Differs(theirs, tag) == is_atp_tag_trustworthy(tag[1]) /\ Value(theirs, tag[1]) # tag[2]
PickNext(theirs, kept, tag) == IF Differs(theirs, tag) THEN Append(kept, tag) ELSE kept
Picking == INSTANCE Folding WITH Op <- PickNext

\* An edit has those of the tags that differ.
LEMMA EditHasWhatDiffers ==
    ASSUME NEW S, NEW ours \in Seq(S), NEW theirs
    PROVE  /\ suggest_edit(ours, theirs) \in Seq(S)
           /\ \A tag : tag \in ToSet(suggest_edit(ours, theirs)) <=>
                         tag \in ToSet(ours) /\ Differs(theirs, tag)
<1> DEFINE n == Len(ours)
           edit == suggest_edit(ours, theirs)
<1>1. n \in Nat /\ DOMAIN ours = 1 .. n /\ \A k \in 1 .. n : ours[k] \in S
  BY LenProperties, ElementOfSeq
<1>2. Picking!OverSeq(theirs, <<>>, ours) = edit
  BY DEF suggest_edit, Passing, FoldLeft, MapThenFoldSet, Max, Picking!OverSeq, Picking!FoldLeft,
         Picking!MapThenFoldSet, Picking!Max, PickNext, Differs
<1> HIDE DEF n, edit
<1>3. PICK acc : Picking!Through(theirs, <<>>, ours, n, acc)
  BY <1>1, Picking!FoldLeftSteps
<1>4. /\ acc[0] = <<>>
      /\ \A k \in 1 .. n : acc[k] = PickNext(theirs, acc[k - 1], ours[k])
      /\ acc[n] = edit
  BY <1>2, <1>3 DEF Picking!Through
<1> DEFINE Picked(kept, k) ==
              /\ kept \in Seq(S)
              /\ \A tag : tag \in ToSet(kept) <=> \E j \in 1 .. k : tag = ours[j] /\ Differs(theirs, tag)
           T == {k \in Nat : k <= n => Picked(acc[k], k)}
<1>5. 0 \in T
  <2>1. Picked(<<>>, 0)
    BY ToSetEmpty
  <2> QED
    BY <1>4, <2>1
<1>6. ASSUME NEW k \in Nat, k \in T
      PROVE  k + 1 \in T
  <2> SUFFICES ASSUME k + 1 <= n
               PROVE  Picked(acc[k + 1], k + 1)
    OBVIOUS
  <2>1. Picked(acc[k], k)
    BY <1>1, <1>6
  <2>2. k + 1 \in 1 .. n /\ k + 1 - 1 = k /\ \A j \in 1 .. k + 1 : j \in 1 .. k \/ j = k + 1
    BY <1>1
  <2>3. acc[k + 1] = PickNext(theirs, acc[k], ours[k + 1])
    BY <1>4, <2>2
  <2>4. CASE Differs(theirs, ours[k + 1])
    <3>1. acc[k + 1] = Append(acc[k], ours[k + 1])
      BY <2>3, <2>4 DEF PickNext
    <3>2. acc[k + 1] \in Seq(S) /\ ToSet(acc[k + 1]) = ToSet(acc[k]) \cup {ours[k + 1]}
      BY <1>1, <2>1, <2>2, <3>1, ToSetAppend
    <3>3. \A tag : (\E j \in 1 .. k + 1 : tag = ours[j] /\ Differs(theirs, tag)) <=>
                   (\E j \in 1 .. k : tag = ours[j] /\ Differs(theirs, tag)) \/ tag = ours[k + 1]
      BY <2>2, <2>4
    <3> QED
      BY <2>1, <3>2, <3>3
  <2>5. CASE ~Differs(theirs, ours[k + 1])
    <3>1. acc[k + 1] = acc[k]
      BY <2>3, <2>5 DEF PickNext
    <3>3. \A tag : (\E j \in 1 .. k + 1 : tag = ours[j] /\ Differs(theirs, tag)) <=>
                   (\E j \in 1 .. k : tag = ours[j] /\ Differs(theirs, tag))
      BY <2>2, <2>5
    <3> QED
      BY <2>1, <3>1, <3>3
  <2> QED
    BY <2>4, <2>5
<1>7. n \in T
  <2> HIDE DEF T
  <2> QED
    BY <1>1, <1>5, <1>6, Picking!NumbersFrom0
<1>8. Picked(edit, n)
  BY <1>1, <1>4, <1>7
<1>9. \A tag : tag \in ToSet(ours) <=> \E j \in 1 .. n : tag = ours[j]
  BY <1>1 DEF ToSet
<1> QED
  BY <1>8, <1>9 DEF edit

\* Where no other tag has its key, a tag gives the value of it.
LEMMA ValueOfTag ==
    ASSUME NEW S, NEW tags \in Seq(S), NEW tag \in ToSet(tags),
           \A t \in ToSet(tags) : t[1] = tag[1] => t = tag
    PROVE  HasKey(tags, tag[1]) /\ Value(tags, tag[1]) = tag[2]
<1> DEFINE D == {i \in DOMAIN tags : tags[i][1] = tag[1]}
<1>1. DOMAIN tags = 1 .. Len(tags) /\ Len(tags) \in Nat
  BY LenProperties
<1>2. \A i \in DOMAIN tags : tags[i] \in ToSet(tags)
  BY DEF ToSet
<1>3. PICK k \in DOMAIN tags : tags[k] = tag
  BY DEF ToSet
<1>4. IsFiniteSet(D)
  <2>1. IsFiniteSet(DOMAIN tags)
    BY <1>1, FS_Interval
  <2> QED
    BY <2>1, FS_Subset
<1>5. D \in SUBSET Int /\ D # {}
  BY <1>1, <1>3
<1>6. \A i \in D : tags[i] = tag
  BY <1>2
<1>7. HasKey(tags, tag[1])
  BY <1>3 DEF HasKey
<1>8. Value(tags, tag[1]) = tags[Min(D)][2]
  BY <1>7 DEF Value
<1> HIDE DEF D
<1>9. Min(D) \in D
  BY <1>4, <1>5, LeastAndGreatest
<1> QED
  BY <1>6, <1>7, <1>8, <1>9

\* With an edit, a feature agrees with the place for which it has been made;
\* and there is something in it only if it did not agree before.
Fits(ours, theirs, edit) ==
    \A k \in DOMAIN ours :
        ours[k][1] \in TRUSTWORTHY => After(theirs, edit, ours[k][1]) = Value(ours, ours[k][1])

LEMMA EditFits ==
    ASSUME NEW ours, HasKeys(ours), NEW theirs, NEW edit, edit = suggest_edit(ours, theirs)
    PROVE  /\ Fits(ours, theirs, edit)
           /\ edit # <<>> <=> ~Fits(ours, theirs, <<>>)
           /\ \A k \in DOMAIN edit : edit[k][1] \in TRUSTWORTHY
<1>1. /\ ours \in Seq(ToSet(ours))
      /\ \A t, u \in ToSet(ours) : t[1] = u[1] => t = u
  BY DEF HasKeys, ToSet
<1>2. /\ edit \in Seq(ToSet(ours))
      /\ \A tag : tag \in ToSet(edit) <=> tag \in ToSet(ours) /\ Differs(theirs, tag)
  BY <1>1, EditHasWhatDiffers
<1>3. \A k \in DOMAIN ours : ours[k] \in ToSet(ours)
  BY DEF ToSet
<1>4. \A k \in DOMAIN edit : edit[k] \in ToSet(edit)
  BY DEF ToSet
<1>5. \A tag \in ToSet(ours) : Value(ours, tag[1]) = tag[2]
  BY <1>1, ValueOfTag
<1>6. \A tag \in ToSet(edit) : HasKey(edit, tag[1]) /\ Value(edit, tag[1]) = tag[2]
  BY <1>1, <1>2, ValueOfTag
<1>7. Fits(ours, theirs, edit)
  <2> SUFFICES ASSUME NEW k \in DOMAIN ours, ours[k][1] \in TRUSTWORTHY
               PROVE  After(theirs, edit, ours[k][1]) = ours[k][2]
    BY <1>3, <1>5 DEF Fits
  <2>1. CASE Differs(theirs, ours[k])
    BY <1>2, <1>3, <1>6, <2>1 DEF After
  <2>2. CASE ~Differs(theirs, ours[k])
    <3>1. Value(theirs, ours[k][1]) = ours[k][2]
      BY <2>2 DEF Differs, is_atp_tag_trustworthy
    <3>2. ~HasKey(edit, ours[k][1])
      <4> SUFFICES ASSUME NEW j \in DOMAIN edit, edit[j][1] = ours[k][1]
                   PROVE  FALSE
        BY DEF HasKey
      <4>1. edit[j] \in ToSet(ours) /\ Differs(theirs, edit[j])
        BY <1>2, <1>4
      <4>2. edit[j] = ours[k]
        BY <1>1, <1>3, <4>1
      <4> QED
        BY <2>2, <4>1, <4>2
    <3> QED
      BY <3>1, <3>2 DEF After
  <2> QED
    BY <2>1, <2>2
<1>8. \A k \in DOMAIN edit : edit[k][1] \in TRUSTWORTHY
  BY <1>2, <1>4 DEF Differs, is_atp_tag_trustworthy
<1>9. \A key : After(theirs, <<>>, key) = Value(theirs, key)
  BY DEF After, HasKey
<1>10. edit # <<>> <=> \E tag \in ToSet(ours) : Differs(theirs, tag)
  <2>1. edit = <<>> => ToSet(edit) = {}
    BY ToSetEmpty
  <2>2. edit # <<>> => \E tag : tag \in ToSet(edit)
    <3>1. edit # <<>> => 1 \in DOMAIN edit
      BY <1>2, LenProperties, EmptySeq
    <3> QED
      BY <1>4, <3>1
  <2> QED
    BY <1>2, <2>1, <2>2
<1>11. (\E tag \in ToSet(ours) : Differs(theirs, tag)) <=> ~Fits(ours, theirs, <<>>)
  <2>1. \A tag \in ToSet(ours) : \E k \in DOMAIN ours : tag = ours[k]
    BY DEF ToSet
  <2>2. \A k \in DOMAIN ours : After(theirs, <<>>, ours[k][1]) = Value(theirs, ours[k][1])
                               /\ Value(ours, ours[k][1]) = ours[k][2]
    BY <1>3, <1>5, <1>9
  <2> QED
    BY <1>3, <2>1, <2>2 DEF Fits, Differs, is_atp_tag_trustworthy
<1> QED
  BY <1>7, <1>8, <1>10, <1>11

LEMMA AgreesIsFits ==
    ASSUME NEW row, NEW edit
    PROVE  Agrees(row, edit) <=> Fits(AtpTags(row), FeatureOf(row).tags, edit)
BY DEF Agrees, Fits

\* What is suggested for the rows of the file.
LEMMA EditOfRow ==
    ASSUME ConflateInv, FromInput, SentInv, writer = "published",
           NEW i \in DOMAIN file.rows, HasAtp(file.rows[i].row),
           NEW edit, edit = SuggestedEdit(file.rows[i].row)
    PROVE  /\ edit.osm = file.rows[i].row.osm /\ edit.osm_id = edit.osm \div 10
           /\ Agrees(file.rows[i].row, edit.tags)
           /\ edit.tags # <<>> <=> ~Agrees(file.rows[i].row, <<>>)
           /\ \A k \in DOMAIN edit.tags : edit.tags[k][1] \in TRUSTWORTHY
<1> DEFINE row == file.rows[i].row
<1>1. HasKeys(AtpTags(row))
  BY PlaceOfRow
<1> HIDE DEF row
<1>2. /\ edit.osm = row.osm /\ edit.osm_id = row.osm \div 10
      /\ edit.tags = suggest_edit(AtpTags(row), FeatureOf(row).tags)
  BY DEF SuggestedEdit, row
<1>3. /\ Fits(AtpTags(row), FeatureOf(row).tags, edit.tags)
      /\ edit.tags # <<>> <=> ~Fits(AtpTags(row), FeatureOf(row).tags, <<>>)
      /\ \A k \in DOMAIN edit.tags : edit.tags[k][1] \in TRUSTWORTHY
  BY <1>1, <1>2, EditFits
<1> QED
  BY <1>2, <1>3, AgreesIsFits DEF row

LEMMA ProducedEdits ==
    ASSUME NEW edit
    PROVE  edit \in produce_edits <=>
               /\ edit.tags # <<>>
               /\ \E i \in MatchedShops : edit = SuggestedEdit(file.rows[i].row)
<1> DEFINE Wanted(row) == HasAtp(row) /\ HasOsm(row) /\ create_edit_suggester(AtpTags(row))
<1>1. MatchedShops = {i \in DOMAIN file.rows : Wanted(file.rows[i].row)}
  BY DEF MatchedShops, Rows, create_edit_suggester
<1>2. edit \in produce_edits <=>
          /\ edit.tags # <<>>
          /\ \E row \in {file.rows[i].row : i \in DOMAIN file.rows} :
                Wanted(row) /\ edit = SuggestedEdit(row)
  BY DEF produce_edits
<1> HIDE DEF Wanted
<1> QED
  BY <1>1, <1>2

\* The edits agree.
EditsOf(kept) ==
    /\ \A edit \in kept :
         /\ \E i \in MatchedShops : file.rows[i].row.osm = edit.osm
                                    /\ Agrees(file.rows[i].row, edit.tags)
                                    /\ ~Agrees(file.rows[i].row, <<>>)
         /\ \A k \in DOMAIN edit.tags : edit.tags[k][1] \in TRUSTWORTHY
    /\ \A i \in {j \in MatchedShops : ~Agrees(file.rows[j].row, <<>>)} :
         LET osm == file.rows[i].row.osm
             one == {edit \in kept : edit.osm = osm}
         IN  \/ Cardinality(one) = 1
             \/ one = {} /\ \E edit \in kept : edit.osm \div 10 = osm \div 10

LEMMA EditsAreFinite ==
    ASSUME ConflateInv, FromInput, SentInv, writer = "published"
    PROVE  IsFiniteSet(produce_edits)
<1> DEFINE D == DOMAIN file.rows
           f == [i \in D |-> SuggestedEdit(file.rows[i].row)]
           I == {SuggestedEdit(file.rows[i].row) : i \in D}
<1>1. IsFiniteSet(D)
  <2>1. file.rows \in Seq(ToSet(file.rows))
    BY FileOfRows
  <2>2. D = 1 .. Len(file.rows) /\ Len(file.rows) \in Nat
    BY <2>1, LenProperties
  <2> QED
    BY <2>2, FS_Interval
<1>2. f \in [D -> I] /\ \A t \in I : \E i \in D : f[i] = t
  OBVIOUS
<1>3. produce_edits \subseteq I
  <2>1. \A i \in MatchedShops : i \in D
    BY DEF MatchedShops, Rows
  <2> QED
    BY <2>1, ProducedEdits
<1> HIDE DEF D, f, I
<1>4. IsFiniteSet(I)
  BY <1>1, <1>2, ImageIsFinite
<1> QED
  BY <1>3, <1>4, FS_Subset

LEMMA WrittenEdits ==
    ASSUME ConflateInv, FromInput, SentInv, writer = "published",
           NEW kept \in write_edits(produce_edits)
    PROVE  EditsOf(kept)
<1>1. kept \in SUBSET produce_edits
  BY DEF write_edits
<1>2. \A edit \in produce_edits : Cardinality({k \in kept : k.osm_id = edit.osm_id}) = 1
  BY DEF write_edits
<1>3. \A i \in MatchedShops : i \in DOMAIN file.rows /\ HasAtp(file.rows[i].row)
  BY DEF MatchedShops, Rows
<1>4. ASSUME NEW edit \in produce_edits
      PROVE  \E i \in MatchedShops :
                 /\ file.rows[i].row.osm = edit.osm
                 /\ Agrees(file.rows[i].row, edit.tags)
                 /\ ~Agrees(file.rows[i].row, <<>>)
                 /\ edit.osm_id = edit.osm \div 10
                 /\ \A k \in DOMAIN edit.tags : edit.tags[k][1] \in TRUSTWORTHY
  <2>1. PICK i \in MatchedShops : edit = SuggestedEdit(file.rows[i].row)
    BY ProducedEdits
  <2>2. edit.tags # <<>>
    BY ProducedEdits
  <2> QED
    BY <1>3, <2>1, <2>2, EditOfRow
<1>5. ASSUME NEW i \in MatchedShops, ~Agrees(file.rows[i].row, <<>>)
      PROVE  LET osm == file.rows[i].row.osm
                 one == {edit \in kept : edit.osm = osm}
             IN  \/ Cardinality(one) = 1
                 \/ one = {} /\ \E edit \in kept : edit.osm \div 10 = osm \div 10
  <2> DEFINE edit == SuggestedEdit(file.rows[i].row)
             osm == file.rows[i].row.osm
             one == {e \in kept : e.osm = osm}
             same == {k \in kept : k.osm_id = edit.osm_id}
  <2>1. edit.tags # <<>> /\ edit.osm = osm /\ edit.osm_id = osm \div 10
    <3> HIDE DEF edit
    <3>1. edit = SuggestedEdit(file.rows[i].row)
      BY DEF edit
    <3> QED
      BY <1>3, <1>5, <3>1, EditOfRow
  <2>2. edit \in produce_edits
    BY <2>1, ProducedEdits
  <2>3. Cardinality(same) = 1
    BY <1>2, <2>2
  <2> HIDE DEF edit, osm, one, same
  <2>4. PICK e : same = {e}
    <3>1. IsFiniteSet(same)
      BY <1>1, EditsAreFinite, FS_Subset DEF same
    <3> QED
      BY <2>3, <3>1, FS_Singleton
  <2>5. e \in kept /\ e.osm_id = osm \div 10 /\ e.osm \div 10 = osm \div 10
    BY <1>1, <1>4, <2>1, <2>4 DEF same
  <2>6. \A x \in one : x = e
    <3>1. \A x \in one : x \in kept /\ x.osm_id = osm \div 10
      BY <1>1, <1>4 DEF one
    <3> QED
      BY <2>1, <2>4, <3>1 DEF same
  <2>7. CASE e.osm = osm
    <3>1. one = {e}
      BY <2>5, <2>6, <2>7 DEF one
    <3> QED
      BY <3>1, FS_Singleton DEF one, osm
  <2>8. CASE e.osm # osm
    <3>1. one = {}
      BY <2>6, <2>8 DEF one
    <3> QED
      BY <2>5, <3>1 DEF one, osm
  <2> QED
    BY <2>7, <2>8
<1>6. \A i \in {j \in MatchedShops : ~Agrees(file.rows[j].row, <<>>)} :
         LET osm == file.rows[i].row.osm
             one == {edit \in kept : edit.osm = osm}
         IN  \/ Cardinality(one) = 1
             \/ one = {} /\ \E edit \in kept : edit.osm \div 10 = osm \div 10
  BY <1>5
<1> QED
  BY <1>1, <1>4, <1>6 DEF EditsOf

\* The file from which edits are made does not change.
EditsInv == edits # {} => writer = "published"

\* An edit changes a shop only in what AllThePlaces is trusted with, and leaves
\* it in agreement with a match of it; and one that disagrees with a match gets
\* an edit, unless one with the same number does (suggest_edit in poi.rs;
\* produce_edits and write_edits in edits.rs).
THEOREM EditsAreRight == ProductsSpec => []EditsAgree
<1>1. ProductsInit => EditsInv /\ EditsAgree
  BY DEF ProductsInit, EditsInv, EditsAgree
<1>2. /\ ConflateInv /\ FromInput /\ SentInv /\ EditsInv /\ EditsAgree
      /\ [ProductsNext]_allVars
      => EditsInv' /\ EditsAgree'
  <2> SUFFICES ASSUME ConflateInv, FromInput, SentInv, EditsInv, EditsAgree, [ProductsNext]_allVars
               PROVE  EditsInv' /\ EditsAgree'
    OBVIOUS
  <2>1. EditsAgree <=> \A kept \in edits : EditsOf(kept)
    BY DEF EditsAgree, EditsOf
  <2>2. EditsAgree' <=> \A kept \in edits' : EditsOf(kept)'
    BY DEF EditsAgree, EditsOf
  <2>3. file' = file /\ world' = world => \A kept : EditsOf(kept)' <=> EditsOf(kept)
    BY DEF EditsOf, MatchedShops, Rows, Agrees, AtpTags, FeatureOf, Places, Osm
  <2>4. CASE suggest_edits
    <3>1. /\ writer = "published"
          /\ \E kept \in write_edits(produce_edits) : edits' = {kept}
      BY <2>4 DEF suggest_edits
    <3>2. writer' = "published" /\ file' = file /\ world' = world
      BY <3>1, FileStays
    <3>3. \A kept \in edits' : EditsOf(kept)
      BY <3>1, WrittenEdits
    <3> QED
      BY <2>2, <2>3, <3>2, <3>3 DEF EditsInv
  <2>5. CASE edits' = edits
    <3>1. CASE edits = {}
      BY <2>2, <2>5, <3>1 DEF EditsInv
    <3>2. CASE edits # {}
      <4>1. writer = "published"
        BY <3>2 DEF EditsInv
      <4>2. writer' = "published" /\ file' = file /\ world' = world
        BY <4>1, FileStays
      <4> QED
        BY <2>1, <2>2, <2>3, <2>5, <4>2 DEF EditsInv
    <3> QED
      BY <3>1, <3>2
  <2> QED
    BY <2>4, <2>5 DEF ProductsNext, Products, extract_conflated_layers, allVars, productVars
<1>3. Spec => [](ConflateInv /\ FromInput /\ SentInv)
  BY Invariance, AlwaysFromInput, AlwaysSent, PTL
<1> QED
  BY <1>1, <1>2, <1>3, ProductsConflate, PTL DEF ProductsSpec

-----------------------------------------------------------------------------
(***************************************************************************)
(* The map.  Of the features in a layer, those of the overview, and of the *)
(* details those of places, mark a place.                                  *)
(***************************************************************************)
IsSeq(seq) == seq \in Seq(ToSet(seq))
IsMark(f) == "part" \notin DOMAIN f \/ f.part = "atp"
Marked(f, s, o) == IsMark(f) /\ f.spider = s /\ f.osm = o
Marking(seq, s, o) == {k \in DOMAIN seq : Marked(seq[k], s, o)}
NumMarks(seq, s, o) == Cardinality(Marking(seq, s, o))
Mark(f, s, o) == IF Marked(f, s, o) THEN 1 ELSE 0

LEMMA SeqGrows ==
    ASSUME NEW S, NEW s \in Seq(S), NEW T, ToSet(s) \subseteq T
    PROVE  s \in Seq(T)
<1>1. Len(s) \in Nat /\ DOMAIN s = 1 .. Len(s) /\ s = [k \in 1 .. Len(s) |-> s[k]]
  BY LenProperties
<1>2. \A k \in 1 .. Len(s) : s[k] \in T
  BY <1>1 DEF ToSet
<1>3. s \in [1 .. Len(s) -> T]
  BY <1>1, <1>2
<1> QED
  BY <1>1, <1>3, SeqDef

LEMMA NoMarks == IsSeq(<<>>) /\ ToSet(<<>>) = {} /\ \A s, o : NumMarks(<<>>, s, o) = 0
<1>1. \A s, o : Marking(<<>>, s, o) = {}
  BY DEF Marking
<1>2. <<>> \in Seq({})
  OBVIOUS
<1> QED
  BY <1>1, <1>2, ToSetEmpty, FS_EmptySet DEF NumMarks, IsSeq

LEMMA OneMark ==
    ASSUME NEW f
    PROVE  IsSeq(<<f>>) /\ ToSet(<<f>>) = {f} /\ \A s, o : NumMarks(<<f>>, s, o) = Mark(f, s, o)
<1>1. DOMAIN <<f>> = {1} /\ <<f>>[1] = f
  OBVIOUS
<1>2. \A s, o : Marking(<<f>>, s, o) = IF Marked(f, s, o) THEN {1} ELSE {}
  BY <1>1 DEF Marking
<1>3. ToSet(<<f>>) = {f}
  BY <1>1 DEF ToSet
<1>4. <<f>> \in Seq({f})
  OBVIOUS
<1> QED
  BY <1>2, <1>3, <1>4, FS_EmptySet, FS_Singleton DEF NumMarks, IsSeq, Mark

LEMMA MarksAdd ==
    ASSUME NEW a, IsSeq(a), NEW b, IsSeq(b)
    PROVE  /\ IsSeq(a \o b) /\ ToSet(a \o b) = ToSet(a) \cup ToSet(b)
           /\ \A s, o : /\ NumMarks(a, s, o) \in Nat /\ NumMarks(b, s, o) \in Nat
                        /\ NumMarks(a \o b, s, o) = NumMarks(a, s, o) + NumMarks(b, s, o)
<1> DEFINE S == ToSet(a) \cup ToSet(b)
<1>1. a \in Seq(S) /\ b \in Seq(S)
  BY SeqGrows DEF IsSeq
<1> HIDE DEF S
<1>2. a \o b \in Seq(S)
  BY <1>1, ConcatProperties
<1>3. ToSet(a \o b) = ToSet(a) \cup ToSet(b)
  BY <1>1, AtConcat
<1>4. ASSUME NEW s, NEW o
      PROVE  /\ NumMarks(a, s, o) \in Nat /\ NumMarks(b, s, o) \in Nat
             /\ NumMarks(a \o b, s, o) = NumMarks(a, s, o) + NumMarks(b, s, o)
  <2> DEFINE X == {f \in S : Marked(f, s, o)}
  <2>1. \A t \in Seq(S) : Marking(t, s, o) = At(t, X)
    <3> SUFFICES ASSUME NEW t \in Seq(S)
                 PROVE  Marking(t, s, o) = At(t, X)
      OBVIOUS
    <3>1. \A k \in DOMAIN t : t[k] \in S
      BY LenProperties, ElementOfSeq
    <3> QED
      BY <3>1 DEF Marking, At
  <2> HIDE DEF X
  <2>2. /\ Cardinality(At(a \o b, X)) = Cardinality(At(a, X)) + Cardinality(At(b, X))
        /\ Cardinality(At(a, X)) \in Nat /\ Cardinality(At(b, X)) \in Nat
    BY <1>1, AtConcat, AtIsFinite
  <2> QED
    BY <1>1, <1>2, <2>1, <2>2 DEF NumMarks
<1> QED
  BY <1>2, <1>3, <1>4 DEF S, IsSeq

LEMMA AppendMark ==
    ASSUME NEW a, IsSeq(a), NEW f
    PROVE  /\ IsSeq(Append(a, f))
           /\ \A s, o : /\ NumMarks(a, s, o) \in Nat
                        /\ NumMarks(Append(a, f), s, o) = NumMarks(a, s, o) + Mark(f, s, o)
<1>1. Append(a, f) = a \o <<f>>
  <2>1. a \in Seq(ToSet(a) \cup {f})
    BY SeqGrows DEF IsSeq
  <2> QED
    BY <2>1, AppendIsConcat
<1> QED
  BY <1>1, OneMark, MarksAdd

\* The details of a row: that of its place, and others that do not mark it.
Part(row, fid, p) == [fid |-> fid, spider |-> row.spider, osm |-> row.osm, part |-> p]
TellsRow(f, row, fid) == f.fid = fid /\ f.spider = row.spider /\ f.osm = row.osm

LEMMA DetailsOfRow ==
    ASSUME NEW row, NEW fid
    PROVE  /\ IsSeq(to_detail(row, fid))
           /\ \A f \in ToSet(to_detail(row, fid)) : TellsRow(f, row, fid)
           /\ \A s, o : NumMarks(to_detail(row, fid), s, o) =
                            IF row.spider = s /\ row.osm = o THEN 1 ELSE 0
<1> DEFINE x == Part(row, fid, "atp")
           y == Part(row, fid, "osm")
           z == Part(row, fid, "link")
<1>1. \E a \in {<<y>>, <<>>} : \E b \in {<<z>>, <<>>} : to_detail(row, fid) = (<<x>> \o a) \o b
  BY DEF to_detail, Part
<1>2. PICK a \in {<<y>>, <<>>} : \E b \in {<<z>>, <<>>} : to_detail(row, fid) = (<<x>> \o a) \o b
  BY <1>1
<1>3. PICK b \in {<<z>>, <<>>} : to_detail(row, fid) = (<<x>> \o a) \o b
  BY <1>2
<1>4. \A p : TellsRow(Part(row, fid, p), row, fid)
  BY DEF Part, TellsRow
<1>5. \A s, o : /\ Mark(x, s, o) = IF row.spider = s /\ row.osm = o THEN 1 ELSE 0
                /\ Mark(y, s, o) = 0 /\ Mark(z, s, o) = 0
  BY DEF Part, Mark, Marked, IsMark
<1>6. TellsRow(x, row, fid) /\ TellsRow(y, row, fid) /\ TellsRow(z, row, fid)
  BY <1>4
<1> HIDE DEF x, y, z
<1>7. /\ IsSeq(a) /\ \A f \in ToSet(a) : TellsRow(f, row, fid)
      /\ \A s, o : NumMarks(a, s, o) = 0
  BY <1>5, <1>6, NoMarks, OneMark
<1>8. /\ IsSeq(b) /\ \A f \in ToSet(b) : TellsRow(f, row, fid)
      /\ \A s, o : NumMarks(b, s, o) = 0
  BY <1>3, <1>5, <1>6, NoMarks, OneMark
<1>9. /\ IsSeq(<<x>>) /\ \A f \in ToSet(<<x>>) : TellsRow(f, row, fid)
      /\ \A s, o : NumMarks(<<x>>, s, o) = IF row.spider = s /\ row.osm = o THEN 1 ELSE 0
  BY <1>5, <1>6, OneMark
<1> HIDE <1>2
<1> DEFINE c == <<x>>
           d == c \o a
<1> HIDE DEF c
<1>10. /\ IsSeq(d) /\ ToSet(d) = ToSet(c) \cup ToSet(a)
       /\ \A s, o : NumMarks(d, s, o) = NumMarks(c, s, o) + NumMarks(a, s, o)
  BY <1>7, <1>9, MarksAdd DEF c
<1> HIDE DEF d
<1>11. /\ IsSeq(d \o b) /\ ToSet(d \o b) = ToSet(d) \cup ToSet(b)
       /\ \A s, o : NumMarks(d \o b, s, o) = NumMarks(d, s, o) + NumMarks(b, s, o)
  BY <1>8, <1>10, MarksAdd
<1>12. to_detail(row, fid) = d \o b
  BY <1>3 DEF c, d
<1>13. \A s, o : NumMarks(d \o b, s, o) = IF row.spider = s /\ row.osm = o THEN 1 ELSE 0
  BY <1>7, <1>8, <1>9, <1>10, <1>11 DEF c
<1>14. \A f \in ToSet(d \o b) : TellsRow(f, row, fid)
  BY <1>7, <1>8, <1>9, <1>10, <1>11 DEF c
<1> QED
  BY <1>11, <1>12, <1>13, <1>14

\* How many of the first m rows are of this place and this feature.
LayerNames == {"matched", "unmatched"}
LayerOfOsm(o) == IF o # 0 THEN "matched" ELSE "unmatched"
LikeUpTo(rows, m, s, o) == {i \in 1 .. m : rows[i].row.spider = s /\ rows[i].row.osm = o}
NumLike(rows, m, s, o) == Cardinality(LikeUpTo(rows, m, s, o))
IsRow(row, s, o) == IF row.spider = s /\ row.osm = o THEN 1 ELSE 0

LEMMA OneRowMore ==
    ASSUME NEW rows, NEW m \in Nat, NEW s, NEW o
    PROVE  /\ NumLike(rows, m, s, o) \in Nat
           /\ NumLike(rows, m + 1, s, o) = NumLike(rows, m, s, o) + IsRow(rows[m + 1].row, s, o)
<1> DEFINE A == LikeUpTo(rows, m, s, o)
           B == LikeUpTo(rows, m + 1, s, o)
           X == {i \in {m + 1} : rows[i].row.spider = s /\ rows[i].row.osm = o}
<1>1. IsFiniteSet(A) /\ m + 1 \notin A
  <2>1. A \in SUBSET (1 .. m)
    BY DEF LikeUpTo
  <2> QED
    BY <2>1, FS_Interval, FS_Subset
<1>2. B = IF m + 1 \in X THEN A \cup {m + 1} ELSE A
  <2>1. \A i : i \in 1 .. m + 1 <=> i \in 1 .. m \/ i = m + 1
    OBVIOUS
  <2> QED
    BY <2>1 DEF LikeUpTo
<1>3. One(X, m + 1) = IsRow(rows[m + 1].row, s, o)
  BY DEF One, IsRow
<1> HIDE DEF A, B, X
<1>4. Cardinality(A) \in Nat /\ Cardinality(B) = Cardinality(A) + One(X, m + 1)
  BY <1>1, <1>2, OneMore
<1> QED
  BY <1>3, <1>4 DEF NumLike, A, B

\* The layers of the first m rows.
IsOut(out) ==
    /\ DOMAIN out = {"overview", "detail", "offset"}
    /\ DOMAIN out.overview = LayerNames /\ DOMAIN out.detail = LayerNames

InLayer(out, l, rows, m) ==
    /\ IsSeq(out.overview[l]) /\ IsSeq(out.detail[l])
    /\ \A f \in ToSet(out.detail[l]) :
          \E i \in 1 .. m : f.fid + 1 = i /\ TellsRow(f, rows[i].row, f.fid)
    /\ \A s, o : s # "" /\ LayerOfOsm(o) = l =>
          /\ NumMarks(out.overview[l], s, o) = NumLike(rows, m, s, o)
          /\ NumMarks(out.detail[l], s, o) = NumLike(rows, m, s, o)

OnTheMap(out, rows, m) == IsOut(out) /\ \A l \in LayerNames : InLayer(out, l, rows, m)

LEMMA NothingMapped ==
    ASSUME NEW rows
    PROVE  OnTheMap(NoLayers, rows, 0) /\ NoLayers.offset = 0
<1>1. \A l \in LayerNames : NoLayers.overview[l] = <<>> /\ NoLayers.detail[l] = <<>>
  BY DEF NoLayers, LayerNames
<1>2. \A s, o : NumLike(rows, 0, s, o) = 0
  <2>1. \A s, o : LikeUpTo(rows, 0, s, o) = {}
    BY DEF LikeUpTo
  <2> QED
    BY <2>1, FS_EmptySet DEF NumLike
<1>3. IsOut(NoLayers) /\ NoLayers.offset = 0
  BY DEF NoLayers, IsOut, LayerNames
<1> QED
  BY <1>1, <1>2, <1>3, NoMarks DEF OnTheMap, InLayer

\* A row goes to the layers of those like it.
LEMMA RowAdded ==
    ASSUME NEW out, IsOut(out), NEW row, HasAtp(row), NEW rank, NEW fid
    PROVE  LET new == AddRow(out, row, rank, fid) IN
           /\ IsOut(new) /\ new.offset = out.offset
           /\ \A l \in LayerNames :
                 /\ new.overview[l] = IF l = LayerOf(row) THEN Append(out.overview[l], to_overview(row, rank))
                                      ELSE out.overview[l]
                 /\ new.detail[l] = IF l = LayerOf(row) THEN out.detail[l] \o to_detail(row, fid)
                                    ELSE out.detail[l]
<1> DEFINE over == to_overview(row, rank)
           det == to_detail(row, fid)
           layer == LayerOf(row)
<1>1. layer \in LayerNames
  BY DEF LayerOf, LayerNames
<1>2. AddRow(out, row, rank, fid) =
         [out EXCEPT !.overview[layer] = Append(@, over), !.detail[layer] = @ \o det]
  BY DEF AddRow
<1> HIDE DEF over, det, layer
<1> DEFINE new == [out EXCEPT !.overview[layer] = Append(@, over), !.detail[layer] = @ \o det]
<1>3. /\ DOMAIN new = DOMAIN out /\ new.offset = out.offset
      /\ new.overview = [out.overview EXCEPT ![layer] = Append(@, over)]
      /\ new.detail = [out.detail EXCEPT ![layer] = @ \o det]
  BY DEF IsOut
<1> HIDE DEF new
<1>4. DOMAIN new.overview = LayerNames /\ DOMAIN new.detail = LayerNames
  BY <1>3 DEF IsOut
<1>5. \A l \in LayerNames :
         /\ new.overview[l] = IF l = layer THEN Append(out.overview[l], over) ELSE out.overview[l]
         /\ new.detail[l] = IF l = layer THEN out.detail[l] \o det ELSE out.detail[l]
  BY <1>3 DEF IsOut
<1> QED
  BY <1>2, <1>3, <1>4, <1>5 DEF IsOut, new, layer, over, det

LEMMA RowMapped ==
    ASSUME NEW out, NEW rows, NEW m \in Nat, OnTheMap(out, rows, m), NEW rank
    PROVE  LET new == AddRow(out, rows[m + 1].row, rank, m) IN
           OnTheMap(new, rows, m + 1) /\ new.offset = out.offset
<1> DEFINE row == rows[m + 1].row
           new == AddRow(out, row, rank, m)
<1>0. \A x \in Nat : x + 0 = x
  OBVIOUS
<1>1. \A s, o : /\ NumLike(rows, m, s, o) \in Nat
                /\ NumLike(rows, m + 1, s, o) = NumLike(rows, m, s, o) + IsRow(row, s, o)
  BY OneRowMore
<1>2. IsOut(out) /\ \A l \in LayerNames : InLayer(out, l, rows, m)
  BY DEF OnTheMap
<1>3. m + 1 \in 1 .. m + 1 /\ \A i \in 1 .. m : i \in 1 .. m + 1
  OBVIOUS
<1>4. rows[m + 1].row = row
  OBVIOUS
<1> HIDE DEF row
<1>5. ASSUME NEW l \in LayerNames, \A s, o : s # "" /\ LayerOfOsm(o) = l => IsRow(row, s, o) = 0,
             new.overview[l] = out.overview[l], new.detail[l] = out.detail[l]
      PROVE  InLayer(new, l, rows, m + 1)
  <2> HIDE DEF new
  <2>1. \A s, o : s # "" /\ LayerOfOsm(o) = l => NumLike(rows, m + 1, s, o) = NumLike(rows, m, s, o)
    <3> SUFFICES ASSUME NEW s, NEW o, s # "", LayerOfOsm(o) = l
                 PROVE  NumLike(rows, m + 1, s, o) = NumLike(rows, m, s, o)
      OBVIOUS
    <3>1. IsRow(row, s, o) = 0
      BY <1>5
    <3>2. /\ NumLike(rows, m, s, o) \in Nat
          /\ NumLike(rows, m + 1, s, o) = NumLike(rows, m, s, o) + IsRow(row, s, o)
      BY <1>1
    <3>3. NumLike(rows, m + 1, s, o) = NumLike(rows, m, s, o) + 0
      BY <3>1, <3>2
    <3> QED
      BY <1>0, <3>2, <3>3
  <2>2. InLayer(out, l, rows, m)
    BY <1>2
  <2>3. /\ IsSeq(new.overview[l]) /\ IsSeq(new.detail[l])
        /\ \A s, o : s # "" /\ LayerOfOsm(o) = l =>
              /\ NumMarks(new.overview[l], s, o) = NumLike(rows, m + 1, s, o)
              /\ NumMarks(new.detail[l], s, o) = NumLike(rows, m + 1, s, o)
    BY <1>5, <2>1, <2>2, ZenonT(60) DEF InLayer
  <2>4. \A f \in ToSet(new.detail[l]) :
           \E i \in 1 .. m + 1 : f.fid + 1 = i /\ TellsRow(f, rows[i].row, f.fid)
    BY <1>3, <1>5, <2>2 DEF InLayer
  <2> QED
    BY <2>3, <2>4 DEF InLayer
<1>6. CASE ~HasAtp(row)
  <2>1. new = out
    BY <1>6 DEF AddRow
  <2> HIDE DEF new
  <2>2. \A s, o : s # "" => IsRow(row, s, o) = 0
    BY <1>6 DEF IsRow, HasAtp
  <2>3. \A l \in LayerNames : InLayer(new, l, rows, m + 1)
    BY <1>5, <2>1, <2>2
  <2> QED
    BY <1>2, <2>1, <2>3 DEF OnTheMap, new, row
<1>7. CASE HasAtp(row)
  <2>1. /\ IsOut(new) /\ new.offset = out.offset
        /\ \A l \in LayerNames :
              /\ new.overview[l] = IF l = LayerOf(row) THEN Append(out.overview[l], to_overview(row, rank))
                                   ELSE out.overview[l]
              /\ new.detail[l] = IF l = LayerOf(row) THEN out.detail[l] \o to_detail(row, m)
                                 ELSE out.detail[l]
    BY <1>2, <1>7, RowAdded
  <2> HIDE DEF new
  <2>2. LayerOf(row) = LayerOfOsm(row.osm)
    BY DEF LayerOf, LayerOfOsm, HasOsm
  <2>3. ASSUME NEW l \in LayerNames, l # LayerOf(row)
        PROVE  InLayer(new, l, rows, m + 1)
    <3>1. \A s, o : LayerOfOsm(o) = l => IsRow(row, s, o) = 0
      BY <2>2, <2>3 DEF IsRow
    <3> QED
      BY <1>5, <2>1, <2>3, <3>1
  <2>4. ASSUME NEW l \in LayerNames, l = LayerOf(row)
        PROVE  InLayer(new, l, rows, m + 1)
    <3> DEFINE over == to_overview(row, rank)
               det == to_detail(row, m)
               A == out.overview[l]
               D == out.detail[l]
    <3>1. \A s, o : Mark(over, s, o) = IsRow(row, s, o)
      BY DEF to_overview, Mark, Marked, IsMark, IsRow
    <3>2. /\ IsSeq(det) /\ \A f \in ToSet(det) : TellsRow(f, row, m)
          /\ \A s, o : NumMarks(det, s, o) = IsRow(row, s, o)
      BY DetailsOfRow DEF IsRow
    <3> HIDE DEF over, det, A, D
    <3>3. new.overview[l] = Append(A, over) /\ new.detail[l] = D \o det
      BY <2>1, <2>4 DEF over, det, A, D
    <3>4. /\ IsSeq(A) /\ IsSeq(D)
          /\ \A f \in ToSet(D) :
                \E i \in 1 .. m : f.fid + 1 = i /\ TellsRow(f, rows[i].row, f.fid)
          /\ \A s, o : s # "" /\ LayerOfOsm(o) = l =>
                /\ NumMarks(A, s, o) = NumLike(rows, m, s, o)
                /\ NumMarks(D, s, o) = NumLike(rows, m, s, o)
      BY <1>2 DEF InLayer, A, D
    <3>0. IsSeq(A) /\ IsSeq(D) /\ IsSeq(det)
      BY <3>2, <3>4
    <3>5. /\ IsSeq(Append(A, over))
          /\ \A s, o : /\ NumMarks(A, s, o) \in Nat
                       /\ NumMarks(Append(A, over), s, o) = NumMarks(A, s, o) + Mark(over, s, o)
      BY <3>0, AppendMark
    <3>6. /\ IsSeq(D \o det) /\ ToSet(D \o det) = ToSet(D) \cup ToSet(det)
          /\ \A s, o : /\ NumMarks(D, s, o) \in Nat
                       /\ NumMarks(D \o det, s, o) = NumMarks(D, s, o) + NumMarks(det, s, o)
      BY <3>0, MarksAdd
    <3>7. \A f \in ToSet(new.detail[l]) :
             \E i \in 1 .. m + 1 : f.fid + 1 = i /\ TellsRow(f, rows[i].row, f.fid)
      <4>1. \A f \in ToSet(D) :
             \E i \in 1 .. m + 1 : f.fid + 1 = i /\ TellsRow(f, rows[i].row, f.fid)
        BY <1>3, <3>4
      <4>2. \A f \in ToSet(det) : f.fid = m /\ f.fid + 1 = m + 1 /\ TellsRow(f, rows[m + 1].row, f.fid)
        BY <1>4, <3>2 DEF TellsRow
      <4> QED
        BY <1>3, <3>3, <3>6, <4>1, <4>2
    <3>8. \A s, o : s # "" /\ LayerOfOsm(o) = l =>
             /\ NumMarks(new.overview[l], s, o) = NumLike(rows, m + 1, s, o)
             /\ NumMarks(new.detail[l], s, o) = NumLike(rows, m + 1, s, o)
      <4> SUFFICES ASSUME NEW s, NEW o, s # "", LayerOfOsm(o) = l
                   PROVE  /\ NumMarks(new.overview[l], s, o) = NumLike(rows, m + 1, s, o)
                          /\ NumMarks(new.detail[l], s, o) = NumLike(rows, m + 1, s, o)
        OBVIOUS
      <4>1. NumMarks(A, s, o) = NumLike(rows, m, s, o) /\ NumMarks(D, s, o) = NumLike(rows, m, s, o)
        BY <3>4
      <4>2. NumLike(rows, m + 1, s, o) = NumLike(rows, m, s, o) + IsRow(row, s, o)
        BY <1>1
      <4>3. NumMarks(Append(A, over), s, o) = NumMarks(A, s, o) + IsRow(row, s, o)
        BY <3>1, <3>5
      <4>4. NumMarks(D \o det, s, o) = NumMarks(D, s, o) + IsRow(row, s, o)
        BY <3>2, <3>6
      <4> QED
        BY <3>3, <4>1, <4>2, <4>3, <4>4
    <3> QED
      BY <3>3, <3>5, <3>6, <3>7, <3>8 DEF InLayer
  <2>5. OnTheMap(new, rows, m + 1)
    BY <2>1, <2>3, <2>4 DEF OnTheMap
  <2> QED
    BY <2>1, <2>5 DEF new, row
<1> QED
  BY <1>6, <1>7

\* The rows of a batch.
ExtractNext(p, out, k) == AddRow(out, p[1][k].row, p[1][k].importance, p[2] + k - 1)
Extracting == INSTANCE Folding WITH Op <- ExtractNext

LEMMA BatchMapped ==
    ASSUME NEW out, NEW rows, out.offset \in Nat, OnTheMap(out, rows, out.offset),
           NEW n \in Nat, NEW batch_rows, Len(batch_rows) = n, DOMAIN batch_rows = 1 .. n,
           \A k \in 1 .. n : batch_rows[k] = rows[out.offset + k]
    PROVE  LET new == extract_batch(out, batch_rows) IN
           new.offset = out.offset + n /\ OnTheMap(new, rows, out.offset + n)
<1> DEFINE first == out.offset
           p == <<batch_rows, first>>
           nums == [k \in DOMAIN batch_rows |-> k]
           last == Extracting!OverSeq(p, out, nums)
<1>1. extract_batch(out, batch_rows) = [last EXCEPT !.offset = first + n]
  BY DEF extract_batch, FoldLeft, MapThenFoldSet, Max, Extracting!OverSeq, Extracting!FoldLeft,
         Extracting!MapThenFoldSet, Extracting!Max, ExtractNext
<1>2. DOMAIN nums = 1 .. n /\ \A k \in 1 .. n : nums[k] = k
  OBVIOUS
<1>3. p[1] = batch_rows /\ p[2] = first
  OBVIOUS
<1>4. first \in Nat /\ first = out.offset
  OBVIOUS
<1> HIDE DEF first, p, nums, last
<1>5. PICK acc : Extracting!Through(p, out, nums, n, acc)
  <2>1. n \in Nat /\ DOMAIN nums = 1 .. n
    BY <1>2
  <2> QED
    BY <2>1, Extracting!FoldLeftSteps
<1>6. /\ acc[0] = out
      /\ \A k \in 1 .. n : acc[k] = ExtractNext(p, acc[k - 1], nums[k])
      /\ acc[n] = last
  BY <1>5 DEF Extracting!Through, last
<1>7. \A k \in 1 .. n : acc[k] = AddRow(acc[k - 1], batch_rows[k].row, batch_rows[k].importance, first + k - 1)
  BY <1>2, <1>3, <1>6 DEF ExtractNext
<1> DEFINE T == {k \in Nat : k <= n => OnTheMap(acc[k], rows, first + k)}
<1>8. 0 \in T
  <2>1. first + 0 = first
    BY <1>4
  <2> QED
    BY <1>4, <1>6, <2>1
<1>9. ASSUME NEW k \in Nat, k \in T
      PROVE  k + 1 \in T
  <2> SUFFICES ASSUME k + 1 <= n
               PROVE  OnTheMap(acc[k + 1], rows, first + (k + 1))
    OBVIOUS
  <2>1. /\ k + 1 \in 1 .. n /\ k + 1 - 1 = k /\ first + (k + 1) - 1 = first + k
        /\ first + (k + 1) = (first + k) + 1 /\ first + k \in Nat
    BY <1>4
  <2>2. OnTheMap(acc[k], rows, first + k)
    BY <1>9
  <2>3. batch_rows[k + 1] = rows[(first + k) + 1]
    BY <1>4, <2>1
  <2>4. acc[k + 1] = AddRow(acc[k], rows[(first + k) + 1].row, batch_rows[k + 1].importance, first + k)
    BY <1>7, <2>1, <2>3
  <2>5. OnTheMap(acc[k + 1], rows, (first + k) + 1)
    BY <2>1, <2>2, <2>4, RowMapped
  <2> QED
    BY <2>1, <2>5
<1>10. n \in T
  <2> HIDE DEF T
  <2> QED
    BY <1>8, <1>9, Extracting!NumbersFrom0
<1>11. OnTheMap(last, rows, first + n)
  BY <1>6, <1>10
<1> DEFINE new == [last EXCEPT !.offset = first + n]
<1>12. /\ DOMAIN new = DOMAIN last /\ new.overview = last.overview /\ new.detail = last.detail
       /\ new.offset = first + n
  BY <1>11 DEF OnTheMap, IsOut
<1> HIDE DEF new
<1>13. OnTheMap(new, rows, first + n)
  <2>1. IsOut(new)
    BY <1>11, <1>12 DEF OnTheMap, IsOut
  <2>2. \A l \in LayerNames : InLayer(new, l, rows, first + n)
    <3> SUFFICES ASSUME NEW l \in LayerNames
                 PROVE  InLayer(new, l, rows, first + n)
      OBVIOUS
    <3>1. InLayer(last, l, rows, first + n)
      BY <1>11 DEF OnTheMap
    <3>2. new.overview[l] = last.overview[l] /\ new.detail[l] = last.detail[l]
      BY <1>12
    <3> QED
      BY <3>1, <3>2 DEF InLayer
  <2> QED
    BY <2>1, <2>2 DEF OnTheMap
<1> QED
  BY <1>1, <1>12, <1>13 DEF first, new

\* The batches are the file.
BatchNext(p, out, batch_rows) == extract_batch(out, batch_rows)
Batching == INSTANCE Folding WITH Op <- BatchNext

Least(a, b) == IF b < a THEN b ELSE a

LEMMA Batches ==
    ASSUME NEW len \in Nat, NEW size \in Nat \ {0}
    PROVE  LET n == (len + size - 1) \div size IN
           /\ n \in Nat /\ len <= n * size
           /\ \A b \in 1 .. n : (b - 1) * size < len /\ (b - 1) * size \in Nat
                                /\ b * size = (b - 1) * size + size
<1> DEFINE a == len + size - 1
           n == a \div size
<1>1. a \in Nat /\ size \in Nat /\ size > 0
  OBVIOUS
<1>2. n \in Nat /\ size * n <= a /\ a < size * n + size
  BY <1>1
<1> HIDE DEF n
<1>3. \A b \in 1 .. n : (b - 1) * size <= (n - 1) * size
  BY <1>1, <1>2
<1>4. \A b \in 1 .. n : (b - 1) * size \in Nat /\ b * size = (b - 1) * size + size
  BY <1>1, <1>2
<1>5. (n - 1) * size = size * n - size /\ n * size = size * n /\ size * n \in Nat
  BY <1>1, <1>2
<1> QED
  BY <1>1, <1>2, <1>3, <1>4, <1>5 DEF n

LEMMA FileMapped ==
    ASSUME NEW rows, rows \in Seq(ToSet(rows))
    PROVE  OnTheMap(FoldLeft(extract_batch, NoLayers, BatchesOf(rows)), rows, Len(rows))
<1> DEFINE len == Len(rows)
           B == BatchRows
           n == (len + B - 1) \div B
           batches == BatchesOf(rows)
           last == Batching!OverSeq(0, NoLayers, batches)
<1>1. len \in Nat /\ DOMAIN rows = 1 .. len /\ \A i \in 1 .. len : rows[i] \in ToSet(rows)
  BY LenProperties, ElementOfSeq
<1>2. B \in Nat \ {0}
  BY ProductsAssumption
<1>3. last = FoldLeft(extract_batch, NoLayers, BatchesOf(rows))
  BY DEF FoldLeft, MapThenFoldSet, Max, Batching!OverSeq, Batching!FoldLeft,
         Batching!MapThenFoldSet, Batching!Max, BatchNext
<1>4. /\ DOMAIN batches = 1 .. n
      /\ \A b \in 1 .. n : batches[b] = SubSeq(rows, (b - 1) * B + 1, Min({b * B, len}))
  BY DEF BatchesOf
<1>5. /\ n \in Nat /\ len <= n * B
      /\ \A b \in 1 .. n : (b - 1) * B < len /\ (b - 1) * B \in Nat
                           /\ b * B = (b - 1) * B + B
  <2> HIDE DEF len, B
  <2> QED
    BY <1>1, <1>2, Batches
<1>6. \A x, y \in Nat : Min({x, y}) = Least(x, y)
  BY DEF Min, Least
<1> HIDE DEF len, B, n, batches, last
<1>7. PICK acc : Batching!Through(0, NoLayers, batches, n, acc)
  BY <1>4, <1>5, Batching!FoldLeftSteps
<1>8. /\ acc[0] = NoLayers
      /\ \A b \in 1 .. n : acc[b] = extract_batch(acc[b - 1], batches[b])
      /\ acc[n] = last
  BY <1>7 DEF Batching!Through, BatchNext, last
<1> DEFINE To(b) == Least(b * B, len)
           T == {b \in Nat : b <= n => acc[b].offset = To(b) /\ OnTheMap(acc[b], rows, To(b))}
<1>9. 0 \in T
  <2>1. 0 * B = 0 /\ Least(0, len) = 0
    BY <1>1, <1>2 DEF Least
  <2> QED
    BY <1>8, <2>1, NothingMapped
<1>10. ASSUME NEW b \in Nat, b \in T
       PROVE  b + 1 \in T
  <2> SUFFICES ASSUME b + 1 <= n
               PROVE  acc[b + 1].offset = To(b + 1) /\ OnTheMap(acc[b + 1], rows, To(b + 1))
    OBVIOUS
  <2> DEFINE m == b * B
             k == To(b + 1)
             batch_rows == batches[b + 1]
  <2>1. b + 1 \in 1 .. n /\ b + 1 - 1 = b /\ b <= n
    BY <1>5
  <2>2. m < len /\ m \in Nat /\ (b + 1) * B = m + B
    BY <1>5, <2>1
  <2>3. To(b) = m
    <3>1. \A x, y \in Nat : x < y => Least(x, y) = x
      BY DEF Least
    <3> QED
      BY <1>1, <2>2, <3>1
  <2>4. acc[b].offset = m /\ OnTheMap(acc[b], rows, m)
    BY <1>10, <2>1, <2>3
  <2>5. k = Least(m + B, len)
    BY <2>2
  <2>6. k \in Nat /\ m + 1 <= k /\ k <= len
    BY <1>1, <1>2, <2>2, <2>5 DEF Least
  <2>7. batch_rows = SubSeq(rows, m + 1, k)
    <3> DEFINE c == b + 1
    <3>1. c \in 1 .. n /\ c - 1 = b /\ c * B = m + B
      BY <2>1, <2>2
    <3> HIDE DEF c, m
    <3>2. batches[c] = SubSeq(rows, m + 1, Min({m + B, len}))
      <4>1. batches[c] = SubSeq(rows, (c - 1) * B + 1, Min({c * B, len}))
        BY <1>4, <3>1
      <4> QED
        BY <3>1, <4>1 DEF m
    <3>3. Min({m + B, len}) = Least(m + B, len)
      BY <1>1, <1>2, <1>6, <2>2
    <3> HIDE DEF k, batch_rows
    <3> QED
      BY <2>5, <3>2, <3>3 DEF batch_rows, c
  <2>8. acc[b + 1] = extract_batch(acc[b], batch_rows)
    BY <1>8, <2>1
  <2> HIDE DEF m, k, batch_rows
  <2>9. /\ batch_rows \in Seq(ToSet(rows)) /\ Len(batch_rows) = k - m
        /\ \A i \in 1 .. k - m : batch_rows[i] = rows[m + i]
    <3>1. \A i \in m + 1 .. k : rows[i] \in ToSet(rows)
      BY <1>1, <2>2, <2>6
    <3>2. m + 1 \in Int /\ k \in Int
      BY <2>2, <2>6
    <3>3. /\ SubSeq(rows, m + 1, k) \in Seq(ToSet(rows))
          /\ Len(SubSeq(rows, m + 1, k)) = IF m + 1 <= k THEN k - (m + 1) + 1 ELSE 0
          /\ \A i \in 1 .. k - (m + 1) + 1 : SubSeq(rows, m + 1, k)[i] = rows[(m + 1) + i - 1]
      BY <3>1, <3>2, SubSeqProperties
    <3>4. k - (m + 1) + 1 = k - m /\ \A i \in 1 .. k - m : (m + 1) + i - 1 = m + i
      BY <2>2, <2>6
    <3> QED
      BY <2>6, <2>7, <3>3, <3>4
  <2>10. DOMAIN batch_rows = 1 .. k - m /\ k - m \in Nat
    BY <2>2, <2>6, <2>9, LenProperties
  <2>11. /\ acc[b + 1].offset = m + (k - m)
         /\ OnTheMap(acc[b + 1], rows, m + (k - m))
    <3>1. /\ acc[b].offset \in Nat /\ OnTheMap(acc[b], rows, acc[b].offset)
          /\ \A i \in 1 .. k - m : batch_rows[i] = rows[acc[b].offset + i]
      BY <2>2, <2>4, <2>9
    <3>2. /\ extract_batch(acc[b], batch_rows).offset = acc[b].offset + (k - m)
          /\ OnTheMap(extract_batch(acc[b], batch_rows), rows, acc[b].offset + (k - m))
      BY <2>9, <2>10, <3>1, BatchMapped
    <3> QED
      BY <2>4, <2>8, <3>2
  <2>12. m + (k - m) = k
    BY <2>2, <2>6
  <2> QED
    BY <2>11, <2>12 DEF k
<1>11. n \in T
  <2> HIDE DEF T
  <2> QED
    BY <1>5, <1>9, <1>10, Batching!NumbersFrom0
<1>12. To(n) = len
  <2>1. n * B \in Nat
    BY <1>2, <1>5
  <2> QED
    BY <1>1, <1>5, <2>1 DEF Least
<1>13. OnTheMap(last, rows, len)
  BY <1>5, <1>8, <1>11, <1>12
<1> QED
  BY <1>3, <1>13 DEF len

-----------------------------------------------------------------------------
\* From zoom 4 on, no filter leaves anything out.
ShowNext(zoom, kept, f) == IF importance_filter(zoom, f.importance) THEN Append(kept, f) ELSE kept
Showing == INSTANCE Folding WITH Op <- ShowNext

ShownAt(zoom, seq) == Passing(seq, LAMBDA f : importance_filter(zoom, f.importance))

LEMMA AllShown ==
    ASSUME NEW zoom, zoom >= ALL_FEATURES_ZOOM, NEW seq, IsSeq(seq)
    PROVE  ShownAt(zoom, seq) = seq
<1> DEFINE n == Len(seq)
           S == ToSet(seq)
           shown == ShownAt(zoom, seq)
<1>1. n \in Nat /\ DOMAIN seq = 1 .. n /\ seq \in Seq(S) /\ \A k \in 1 .. n : seq[k] \in S
  BY LenProperties, ElementOfSeq DEF IsSeq
<1>2. Showing!OverSeq(zoom, <<>>, seq) = shown
  BY DEF ShownAt, Passing, FoldLeft, MapThenFoldSet, Max, Showing!OverSeq, Showing!FoldLeft,
         Showing!MapThenFoldSet, Showing!Max, ShowNext
<1>3. \A kept, f : ShowNext(zoom, kept, f) = Append(kept, f)
  BY DEF ShowNext, importance_filter
<1> HIDE DEF n, S, shown
<1>4. PICK acc : Showing!Through(zoom, <<>>, seq, n, acc)
  BY <1>1, Showing!FoldLeftSteps
<1>5. /\ acc[0] = <<>>
      /\ \A k \in 1 .. n : acc[k] = Append(acc[k - 1], seq[k])
      /\ acc[n] = shown
  BY <1>2, <1>3, <1>4 DEF Showing!Through
<1> DEFINE Upto(kept, k) == kept \in Seq(S) /\ Len(kept) = k /\ \A j \in 1 .. k : kept[j] = seq[j]
           T == {k \in Nat : k <= n => Upto(acc[k], k)}
<1>6. 0 \in T
  <2>1. <<>> \in Seq(S) /\ Len(<<>>) = 0
    BY EmptySeq
  <2>2. \A j \in 1 .. 0 : FALSE
    OBVIOUS
  <2>3. Upto(<<>>, 0)
    BY <2>1, <2>2
  <2> QED
    BY <1>5, <2>3
<1>7. ASSUME NEW k \in Nat, k \in T
      PROVE  k + 1 \in T
  <2> SUFFICES ASSUME k + 1 <= n
               PROVE  Upto(acc[k + 1], k + 1)
    OBVIOUS
  <2>1. Upto(acc[k], k)
    BY <1>1, <1>7
  <2>2. k + 1 \in 1 .. n /\ k + 1 - 1 = k /\ \A j \in 1 .. k + 1 : j \in 1 .. k \/ j = k + 1
    BY <1>1
  <2>3. acc[k + 1] = Append(acc[k], seq[k + 1]) /\ seq[k + 1] \in S
    BY <1>1, <1>5, <2>2
  <2>4. /\ Append(acc[k], seq[k + 1]) \in Seq(S)
        /\ Len(Append(acc[k], seq[k + 1])) = Len(acc[k]) + 1
        /\ \A j \in 1 .. Len(acc[k]) : Append(acc[k], seq[k + 1])[j] = acc[k][j]
        /\ Append(acc[k], seq[k + 1])[Len(acc[k]) + 1] = seq[k + 1]
    BY <2>1, <2>3, AppendProperties
  <2> QED
    BY <2>1, <2>2, <2>3, <2>4
<1>8. n \in T
  <2> HIDE DEF T
  <2> QED
    BY <1>1, <1>6, <1>7, Showing!NumbersFrom0
<1>9. shown \in Seq(S) /\ Len(shown) = n /\ \A j \in 1 .. n : shown[j] = seq[j]
  BY <1>1, <1>5, <1>8
<1>10. shown = seq
  BY <1>1, <1>9, SeqEqual DEF n
<1> QED
  BY <1>10 DEF shown

\* From zoom 4 on a tile shows the whole overview or all details.
LEMMA TilesShowAll ==
    ASSUME NEW map, NEW l, IsSeq(map.overview[l]), IsSeq(map.detail[l]), NEW zoom \in MAP_ZOOMS
    PROVE  Tiles(map, zoom, l) \in {map.overview[l], map.detail[l]}
<1> DEFINE shown == ShownAt(zoom, map.overview[l])
<1>1. \A seq : IsSeq(seq) => seq \o <<>> = seq /\ <<>> \o seq = seq
  BY ConcatEmptySeq DEF IsSeq
<1>2. zoom \in Int /\ zoom >= ALL_FEATURES_ZOOM /\ zoom >= 4 /\ zoom <= 16
  BY DEF MAP_ZOOMS, ALL_FEATURES_ZOOM, DETAIL_MAX_ZOOM
<1>3. shown = map.overview[l]
  BY <1>2, AllShown
<1>4. Tiles(map, zoom, l) = (IF zoom \in OverviewZooms THEN shown ELSE <<>>)
                            \o (IF zoom \in DetailZooms THEN map.detail[l] ELSE <<>>)
  BY DEF Tiles, ShownAt
<1>5. zoom \in OverviewZooms <=> zoom \notin DetailZooms
  BY <1>2 DEF OverviewZooms, DetailZooms, DETAIL_MIN_ZOOM, DETAIL_MAX_ZOOM
<1> HIDE DEF shown
<1> QED
  BY <1>1, <1>3, <1>4, <1>5

\* The layers show the rows of the file.
MapOf(map) ==
    \A layer \in LayerNames :
        /\ \A zoom \in MAP_ZOOMS : NoneMissing(Tiles(map, zoom, layer), layer)
        /\ FidsLeadToRows(map.detail[layer])

ShowsAll(seq, l, n) ==
    \A s, o : s # "" /\ LayerOfOsm(o) = l => NumMarks(seq, s, o) = NumLike(file.rows, n, s, o)

LEMMA NoneIsMissing ==
    ASSUME NEW n \in Nat, DOMAIN file.rows = 1 .. n, NEW l, NEW seq, ShowsAll(seq, l, n)
    PROVE  NoneMissing(seq, l)
<1> SUFFICES ASSUME NEW i \in Rows(LAMBDA row : LayerOf(row) = l)
             PROVE  LET row == file.rows[i].row IN
                    Cardinality({k \in DOMAIN seq : IsMark(seq[k]) /\ seq[k].spider = row.spider
                                                                  /\ seq[k].osm = row.osm})
                    = Cardinality(Rows(LAMBDA other : other.spider = row.spider /\ other.osm = row.osm))
  BY DEF NoneMissing, IsMark
<1> DEFINE row == file.rows[i].row
<1>1. row.spider # "" /\ LayerOfOsm(row.osm) = l
  BY DEF Rows, HasAtp, LayerOf, LayerOfOsm, HasOsm
<1>2. Rows(LAMBDA other : other.spider = row.spider /\ other.osm = row.osm)
      = LikeUpTo(file.rows, n, row.spider, row.osm)
  BY <1>1 DEF Rows, LikeUpTo, HasAtp
<1>3. {k \in DOMAIN seq : IsMark(seq[k]) /\ seq[k].spider = row.spider /\ seq[k].osm = row.osm}
      = Marking(seq, row.spider, row.osm)
  BY DEF Marking, Marked
<1> HIDE DEF row
<1>4. NumMarks(seq, row.spider, row.osm) = NumLike(file.rows, n, row.spider, row.osm)
  BY <1>1 DEF ShowsAll
<1> QED
  BY <1>2, <1>3, <1>4 DEF NumMarks, NumLike, row

LEMMA MapShowsFile ==
    ASSUME file.rows \in Seq(ToSet(file.rows))
    PROVE  MapOf(FoldLeft(extract_batch, NoLayers, BatchesOf(file.rows)))
<1> DEFINE map == FoldLeft(extract_batch, NoLayers, BatchesOf(file.rows))
           n == Len(file.rows)
<1>1. OnTheMap(map, file.rows, n)
  BY FileMapped
<1>2. n \in Nat /\ DOMAIN file.rows = 1 .. n
  BY LenProperties
<1> HIDE DEF map, n
<1> SUFFICES ASSUME NEW l \in LayerNames
             PROVE  /\ \A zoom \in MAP_ZOOMS : NoneMissing(Tiles(map, zoom, l), l)
                    /\ FidsLeadToRows(map.detail[l])
  BY DEF MapOf, map
<1> DEFINE over == map.overview[l]
           det == map.detail[l]
<1>3. InLayer(map, l, file.rows, n)
  BY <1>1 DEF OnTheMap
<1>4. /\ IsSeq(over) /\ IsSeq(det)
      /\ \A f \in ToSet(det) : \E i \in 1 .. n : f.fid + 1 = i /\ TellsRow(f, file.rows[i].row, f.fid)
  BY <1>3 DEF InLayer
<1>5. ShowsAll(over, l, n) /\ ShowsAll(det, l, n)
  BY <1>3 DEF InLayer, ShowsAll
<1>6. \A zoom \in MAP_ZOOMS : Tiles(map, zoom, l) \in {over, det}
  BY <1>4, TilesShowAll
<1> HIDE DEF over, det
<1>7. NoneMissing(over, l) /\ NoneMissing(det, l)
  BY <1>2, <1>5, NoneIsMissing
<1>8. FidsLeadToRows(det)
  <2> SUFFICES ASSUME NEW k \in DOMAIN det
               PROVE  /\ det[k].fid + 1 \in DOMAIN file.rows
                      /\ det[k].spider = file.rows[det[k].fid + 1].row.spider
                      /\ det[k].osm = file.rows[det[k].fid + 1].row.osm
    BY DEF FidsLeadToRows
  <2>1. det[k] \in ToSet(det)
    BY DEF ToSet
  <2>2. PICK i \in 1 .. n : det[k].fid + 1 = i /\ TellsRow(det[k], file.rows[i].row, det[k].fid)
    BY <1>4, <2>1
  <2> QED
    BY <1>2, <2>2 DEF TellsRow
<1> QED
  BY <1>6, <1>7, <1>8 DEF det

\* The file of which there is a map does not change.
LayersInv == layers # {} => writer = "published"

\* Both passes of the map show every place of the file in its layer, as often
\* as the file has it, at each zoom from 4 to 16; and a detail has the ordinal
\* of its row, whatever the size of the batches (conflated_tiles.rs, extract_rows;
\* tiles.rs, join_tiles).
THEOREM MapShowsEveryPlace == ProductsSpec => []MapOfTheFile
<1>1. ProductsInit => LayersInv /\ MapOfTheFile
  BY DEF ProductsInit, LayersInv, MapOfTheFile
<1>2. /\ ConflateInv /\ FromInput /\ SentInv /\ LayersInv /\ MapOfTheFile
      /\ [ProductsNext]_allVars
      => LayersInv' /\ MapOfTheFile'
  <2> SUFFICES ASSUME ConflateInv, FromInput, SentInv, LayersInv, MapOfTheFile, [ProductsNext]_allVars
               PROVE  LayersInv' /\ MapOfTheFile'
    OBVIOUS
  <2>1. MapOfTheFile <=> \A map \in layers : MapOf(map)
    BY DEF MapOfTheFile, MapOf, LayerNames
  <2>2. MapOfTheFile' <=> \A map \in layers' : MapOf(map)'
    BY DEF MapOfTheFile, MapOf, LayerNames
  <2>3. file' = file => \A map : MapOf(map)' <=> MapOf(map)
    BY DEF MapOf, NoneMissing, FidsLeadToRows, Rows
  <2>4. CASE extract_conflated_layers
    <3>1. /\ writer = "published"
          /\ layers' = {FoldLeft(extract_batch, NoLayers, BatchesOf(file.rows))}
      BY <2>4 DEF extract_conflated_layers
    <3>2. writer' = "published" /\ file' = file
      BY <3>1, FileStays
    <3>3. file.rows \in Seq(ToSet(file.rows))
      BY <3>1, FileOfRows
    <3>4. \A map \in layers' : MapOf(map)
      BY <3>1, <3>3, MapShowsFile
    <3> QED
      BY <2>2, <2>3, <3>2, <3>4 DEF LayersInv
  <2>5. CASE layers' = layers
    <3>1. CASE layers = {}
      BY <2>2, <2>5, <3>1 DEF LayersInv
    <3>2. CASE layers # {}
      <4>1. writer = "published"
        BY <3>2 DEF LayersInv
      <4>2. writer' = "published" /\ file' = file
        BY <4>1, FileStays
      <4> QED
        BY <2>1, <2>2, <2>3, <2>5, <4>2 DEF LayersInv
    <3> QED
      BY <3>1, <3>2
  <2> QED
    BY <2>4, <2>5 DEF ProductsNext, Products, suggest_edits, allVars, productVars
<1>3. Spec => [](ConflateInv /\ FromInput /\ SentInv)
  BY Invariance, AlwaysFromInput, AlwaysSent, PTL
<1> QED
  BY <1>1, <1>2, <1>3, ProductsConflate, PTL DEF ProductsSpec
=============================================================================
