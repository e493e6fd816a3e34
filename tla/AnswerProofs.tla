---------------------------- MODULE AnswerProofs ----------------------------
(***************************************************************************)
(* What the agent makes of an answer of the model (Extraction) and of two  *)
(* results (ResultCompare), for any pieces, values and results. The        *)
(* comparison is sound because sorting puts the rows of each side in a     *)
(* total order.                                                            *)
(***************************************************************************)
EXTENDS ResultCompare, Extraction, FiniteSetTheorems, SequenceTheorems, TLAPS

(* The comparison *)

\* The rows of one result have the same columns.
Grid(table) ==
    /\ table \in Seq(Seq(Value))
    /\ \A i, j \in DOMAIN table : Len(table[i]) = Len(table[j])

SameKey(row, other) ==
    \A c \in 1 .. Len(row) : Text[row[c]] = Text[other[c]]

\* A set of natural numbers has a least element.
LEMMA LeastElement ==
    ASSUME NEW S, S \subseteq Nat, S # {}
    PROVE  \E x \in S : \A y \in S : x <= y
  <1>1. PICK x \in S : \A y \in S : ~(<<y, x>> \in OpToRel(<, Nat))
    BY NatLessThanWellFounded, WFMin
  <1>2. \A y \in S : ~(y < x)
    BY <1>1 DEF OpToRel
  <1> QED  BY <1>2

\* The keys of rows of the same length are ordered, and two rows of which
\* neither comes first have the same key.
LEMMA KeysOrdered ==
    ASSUME NEW p \in Seq(Value), NEW q \in Seq(Value), NEW o \in Seq(Value),
           Len(p) = Len(q), Len(q) = Len(o)
    PROVE  /\ ~KeyLess(p, p)
           /\ KeyLess(p, q) /\ KeyLess(q, o) => KeyLess(p, o)
           /\ SameKey(p, q) \/ KeyLess(p, q) \/ KeyLess(q, p)
           /\ SameKey(p, q) => (KeyLess(p, o) <=> KeyLess(q, o))
           /\ SameKey(p, q) => (KeyLess(o, p) <=> KeyLess(o, q))
  <1> DEFINE W == Len(p)
  <1>1. /\ W \in Nat /\ Len(q) = W /\ Len(o) = W
        /\ \A c \in 1 .. W : Text[p[c]] \in Nat /\ Text[q[c]] \in Nat /\ Text[o[c]] \in Nat
    BY CompareAssumption
  <1> HIDE DEF W
  <1> USE DEF KeyLess, SameKey
  <1>2. ~KeyLess(p, p)
    BY <1>1 DEF W
  <1>3. ASSUME KeyLess(p, q), KeyLess(q, o) PROVE KeyLess(p, o)
    <2>1. PICK c \in 1 .. W :
            /\ \A d \in 1 .. c - 1 : Text[p[d]] = Text[q[d]]
            /\ Text[p[c]] < Text[q[c]]
      BY <1>3 DEF W
    <2>2. PICK e \in 1 .. W :
            /\ \A d \in 1 .. e - 1 : Text[q[d]] = Text[o[d]]
            /\ Text[q[e]] < Text[o[e]]
      BY <1>1, <1>3
    <2>3. CASE c <= e
      <3>1. \A d \in 1 .. c - 1 : Text[p[d]] = Text[o[d]]
        BY <1>1, <2>1, <2>2, <2>3
      <3>2. Text[p[c]] < Text[o[c]]
        BY <1>1, <2>1, <2>2, <2>3
      <3> QED  BY <3>1, <3>2 DEF W
    <2>4. CASE e < c
      <3>1. \A d \in 1 .. e - 1 : Text[p[d]] = Text[o[d]]
        BY <1>1, <2>1, <2>2, <2>4
      <3>2. Text[p[e]] < Text[o[e]]
        BY <1>1, <2>1, <2>2, <2>4
      <3> QED  BY <3>1, <3>2 DEF W
    <2> QED  BY <1>1, <2>3, <2>4
  <1>4. ASSUME ~SameKey(p, q) PROVE KeyLess(p, q) \/ KeyLess(q, p)
    <2> DEFINE differ == {c \in 1 .. W : Text[p[c]] # Text[q[c]]}
    <2>1. PICK c \in 1 .. W : Text[p[c]] # Text[q[c]]
      BY <1>4 DEF W
    <2>2. differ # {}
      BY <2>1
    <2>3. differ \subseteq 1 .. W /\ 1 .. W \subseteq Nat
      BY <1>1
    <2>4. PICK e \in differ : \A d \in differ : e <= d
      BY <2>2, <2>3, LeastElement
    <2>5. \A d \in 1 .. e - 1 : Text[p[d]] = Text[q[d]]
      BY <1>1, <2>4
    <2>6. Text[p[e]] < Text[q[e]] \/ Text[q[e]] < Text[p[e]]
      BY <1>1, <2>4
    <2> QED  BY <1>1, <2>4, <2>5, <2>6 DEF W
  <1>5. ASSUME SameKey(p, q)
        PROVE  /\ KeyLess(p, o) <=> KeyLess(q, o)
               /\ KeyLess(o, p) <=> KeyLess(o, q)
    <2>1. \A c \in 1 .. W : Text[p[c]] = Text[q[c]]
      BY <1>5 DEF W
    <2>2. \A c \in 1 .. W : \A d \in 1 .. c - 1 : Text[p[d]] = Text[q[d]]
      BY <1>1, <2>1
    <2>3. KeyLess(p, o) <=> KeyLess(q, o)
      BY <1>1, <2>1, <2>2 DEF W
    <2>4. KeyLess(o, p) <=> KeyLess(o, q)
      BY <1>1, <2>1, <2>2 DEF W
    <2> QED  BY <2>3, <2>4
  <1> QED  BY <1>2, <1>3, <1>4, <1>5

\* Precedes is a total order of the places of a result.
LEMMA PlacesOrdered ==
    ASSUME NEW table, Grid(table)
    PROVE  \A i, j, k \in 1 .. Len(table) :
              /\ ~Precedes(table, i, i)
              /\ i # j => Precedes(table, i, j) \/ Precedes(table, j, i)
              /\ Precedes(table, i, j) /\ Precedes(table, j, k) => Precedes(table, i, k)
  <1> SUFFICES ASSUME NEW i \in 1 .. Len(table), NEW j \in 1 .. Len(table),
                      NEW k \in 1 .. Len(table)
               PROVE  /\ ~Precedes(table, i, i)
                      /\ i # j => Precedes(table, i, j) \/ Precedes(table, j, i)
                      /\ Precedes(table, i, j) /\ Precedes(table, j, k)
                            => Precedes(table, i, k)
    OBVIOUS
  <1> DEFINE p == table[i]
             q == table[j]
             o == table[k]
  <1>1. /\ Len(table) \in Nat /\ i \in Nat /\ j \in Nat /\ k \in Nat
        /\ p \in Seq(Value) /\ q \in Seq(Value) /\ o \in Seq(Value)
        /\ Len(p) = Len(q) /\ Len(q) = Len(o)
    BY DEF Grid
  <1> HIDE DEF p, q, o
  <1>2. /\ ~KeyLess(p, p) /\ ~KeyLess(q, q)
        /\ KeyLess(p, q) /\ KeyLess(q, o) => KeyLess(p, o)
        /\ SameKey(p, q) \/ KeyLess(p, q) \/ KeyLess(q, p)
        /\ SameKey(p, q) => (KeyLess(p, o) <=> KeyLess(q, o))
        /\ SameKey(p, q) => (KeyLess(o, p) <=> KeyLess(o, q))
    BY <1>1, KeysOrdered
  <1>3. /\ KeyLess(p, q) /\ KeyLess(q, p) => KeyLess(p, p)
        /\ KeyLess(q, o) /\ KeyLess(o, q) => KeyLess(q, q)
        /\ KeyLess(o, p) /\ KeyLess(p, q) => KeyLess(o, q)
        /\ KeyLess(q, o) /\ KeyLess(o, p) => KeyLess(q, p)
        /\ SameKey(q, o) \/ KeyLess(q, o) \/ KeyLess(o, q)
        /\ SameKey(q, o) => (KeyLess(q, p) <=> KeyLess(o, p))
        /\ SameKey(q, o) => (KeyLess(p, q) <=> KeyLess(p, o))
    BY <1>1, KeysOrdered
  <1>4. /\ Precedes(table, i, i) <=> KeyLess(p, p) \/ (~KeyLess(p, p) /\ i < i)
        /\ Precedes(table, i, j) <=> KeyLess(p, q) \/ (~KeyLess(q, p) /\ i < j)
        /\ Precedes(table, j, i) <=> KeyLess(q, p) \/ (~KeyLess(p, q) /\ j < i)
        /\ Precedes(table, j, k) <=> KeyLess(q, o) \/ (~KeyLess(o, q) /\ j < k)
        /\ Precedes(table, i, k) <=> KeyLess(p, o) \/ (~KeyLess(o, p) /\ i < k)
    BY DEF Precedes, p, q, o
  <1> QED  BY <1>1, <1>2, <1>3, <1>4

\* In a total order of n places each number below n counts the places before
\* exactly one of them.
LEMMA PlacesCounted ==
    ASSUME NEW n \in Nat, NEW before \in [1 .. n -> SUBSET (1 .. n)],
           \A i \in 1 .. n : i \notin before[i],
           \A i, j \in 1 .. n : i # j => i \in before[j] \/ j \in before[i],
           \A i, j \in 1 .. n : i \in before[j] => before[i] \subseteq before[j]
    PROVE  /\ \A i \in 1 .. n : Cardinality(before[i]) \in 0 .. n - 1
           /\ \A i, j \in 1 .. n :
                Cardinality(before[i]) = Cardinality(before[j]) => i = j
           /\ \A k \in 1 .. n : \E i \in 1 .. n : Cardinality(before[i]) = k - 1
  <1>1. IsFiniteSet(1 .. n) /\ Cardinality(1 .. n) = n
    BY FS_Interval
  <1>2. ASSUME NEW i \in 1 .. n
        PROVE  /\ IsFiniteSet(before[i])
               /\ Cardinality(before[i]) \in 0 .. n - 1
    <2>1. /\ IsFiniteSet((1 .. n) \ {i})
          /\ Cardinality((1 .. n) \ {i}) = n - 1
      BY <1>1, FS_RemoveElement
    <2>2. before[i] \in SUBSET ((1 .. n) \ {i})
      OBVIOUS
    <2>3. IsFiniteSet(before[i]) /\ Cardinality(before[i]) <= n - 1
      BY <2>1, <2>2, FS_Subset
    <2>4. Cardinality(before[i]) \in Nat
      BY <2>3, FS_CardinalityType
    <2> QED  BY <2>3, <2>4
  <1>3. ASSUME NEW i \in 1 .. n, NEW j \in 1 .. n, i \in before[j]
        PROVE  Cardinality(before[i]) < Cardinality(before[j])
    <2>1. /\ IsFiniteSet(before[j] \ {i})
          /\ Cardinality(before[j] \ {i}) = Cardinality(before[j]) - 1
      BY <1>2, <1>3, FS_RemoveElement
    <2>2. before[i] \in SUBSET (before[j] \ {i})
      BY <1>3
    <2>3. Cardinality(before[i]) <= Cardinality(before[j] \ {i})
      BY <2>1, <2>2, FS_Subset
    <2> QED  BY <1>2, <2>1, <2>3
  <1>4. ASSUME NEW i \in 1 .. n, NEW j \in 1 .. n,
               Cardinality(before[i]) = Cardinality(before[j])
        PROVE  i = j
    BY <1>2, <1>3, <1>4
  <1>5. ASSUME NEW k \in 1 .. n
        PROVE  \E i \in 1 .. n : Cardinality(before[i]) = k - 1
    <2> DEFINE rank == [i \in 1 .. n |-> Cardinality(before[i]) + 1]
    <2>1. rank \in Injection(1 .. n, 1 .. n)
      BY <1>2, <1>4 DEF Injection, IsInjective
    <2>2. rank \in Surjection(1 .. n, 1 .. n)
      BY <1>1, <2>1, FS_Injection
    <2>3. PICK i \in 1 .. n : rank[i] = k
      BY <2>2 DEF Surjection
    <2> QED  BY <1>2, <2>3
  <1> QED  BY <1>2, <1>4, <1>5

\* The places before a place, and where its row is put.
Before(table) ==
    [i \in 1 .. Len(table) |-> {j \in 1 .. Len(table) : Precedes(table, j, i)}]

Rank(table) == [i \in 1 .. Len(table) |-> Cardinality(Before(table)[i]) + 1]

\* sorted() puts each row in a place of its own, and a row in every place.
LEMMA SortedIsPermutation ==
    ASSUME NEW table, Grid(table)
    PROVE  /\ Rank(table) \in [1 .. Len(table) -> 1 .. Len(table)]
           /\ \A i, j \in 1 .. Len(table) : Rank(table)[i] = Rank(table)[j] => i = j
           /\ \A k \in 1 .. Len(table) : \E i \in 1 .. Len(table) : Rank(table)[i] = k
           /\ \A i \in 1 .. Len(table) : Sorted(table)[Rank(table)[i]] = table[i]
  <1> DEFINE n == Len(table)
             before == Before(table)
  <1>1. n \in Nat
    BY DEF Grid
  <1>2. /\ before \in [1 .. n -> SUBSET (1 .. n)]
        /\ \A i, j \in 1 .. n : j \in before[i] <=> Precedes(table, j, i)
    BY DEF Before
  <1>3. /\ \A i \in 1 .. n : i \notin before[i]
        /\ \A i, j \in 1 .. n : i # j => i \in before[j] \/ j \in before[i]
        /\ \A i, j \in 1 .. n : i \in before[j] => before[i] \subseteq before[j]
    BY <1>2, PlacesOrdered
  <1> HIDE DEF before
  <1>4. /\ \A i \in 1 .. n : Cardinality(before[i]) \in 0 .. n - 1
        /\ \A i, j \in 1 .. n : Cardinality(before[i]) = Cardinality(before[j]) => i = j
        /\ \A k \in 1 .. n : \E i \in 1 .. n : Cardinality(before[i]) = k - 1
    <2> HIDE DEF n
    <2> QED  BY <1>1, <1>2, <1>3, PlacesCounted
  <1>5. /\ Rank(table) = [i \in 1 .. n |-> Cardinality(before[i]) + 1]
        /\ \A i \in 1 .. n : before[i] = {j \in 1 .. n : Precedes(table, j, i)}
    BY DEF Rank, Before, before
  <1>6. /\ Rank(table) \in [1 .. n -> 1 .. n]
        /\ \A i, j \in 1 .. n : Rank(table)[i] = Rank(table)[j] => i = j
        /\ \A k \in 1 .. n : \E i \in 1 .. n : Rank(table)[i] = k
    <2> HIDE DEF n
    <2>1. \A i \in 1 .. n : /\ Cardinality(before[i]) \in Int
                            /\ Rank(table)[i] = Cardinality(before[i]) + 1
      BY <1>1, <1>4, <1>5
    <2>2. \A i \in 1 .. n : Rank(table)[i] \in 1 .. n
      BY <1>1, <1>4, <2>1
    <2>3. Rank(table) \in [1 .. n -> 1 .. n]
      BY <1>5, <2>2
    <2>4. \A i, j \in 1 .. n : Rank(table)[i] = Rank(table)[j] => i = j
      <3> TAKE i, j \in 1 .. n
      <3>1. Rank(table)[i] = Rank(table)[j] => Cardinality(before[i]) = Cardinality(before[j])
        BY <2>1
      <3> QED  BY <1>4, <3>1
    <2>5. \A k \in 1 .. n : \E i \in 1 .. n : Rank(table)[i] = k
      <3> TAKE k \in 1 .. n
      <3>1. PICK i \in 1 .. n : Cardinality(before[i]) = k - 1
        BY <1>4
      <3>2. Rank(table)[i] = k
        BY <1>1, <2>1, <3>1
      <3> QED  BY <3>2
    <2> QED  BY <2>3, <2>4, <2>5
  <1>7. ASSUME NEW i \in 1 .. n
        PROVE  Sorted(table)[Rank(table)[i]] = table[i]
    <2> DEFINE k == Rank(table)[i]
               chosen == CHOOSE j \in 1 .. n :
                    Cardinality({o \in 1 .. n : Precedes(table, o, j)}) = k - 1
    <2>1. k \in 1 .. n /\ k - 1 = Cardinality(before[i])
      <3> HIDE DEF n
      <3>1. k = Cardinality(before[i]) + 1
        BY <1>5
      <3>2. Cardinality(before[i]) \in 0 .. n - 1
        BY <1>4
      <3> QED  BY <1>1, <3>1, <3>2
    <2>2. Cardinality({o \in 1 .. n : Precedes(table, o, i)}) = k - 1
      BY <1>5, <2>1
    <2>3. /\ chosen \in 1 .. n
          /\ Cardinality({o \in 1 .. n : Precedes(table, o, chosen)}) = k - 1
      <3> HIDE DEF k, n
      <3> QED  BY <1>7, <2>2
    <2>4. before[chosen] = {o \in 1 .. n : Precedes(table, o, chosen)}
      <3> HIDE DEF chosen, n
      <3> QED  BY <1>5, <2>3
    <2>5. chosen = i
      <3> HIDE DEF chosen, k, n
      <3> QED  BY <1>4, <1>7, <2>1, <2>3, <2>4
    <2>6. Sorted(table)[k] = table[chosen]
      <3> HIDE DEF k
      <3> QED  BY <2>1 DEF Sorted
    <2> QED  BY <2>5, <2>6
  <1> QED  BY <1>6, <1>7

\* compare() never accepts results that do not agree in the sense of their mode.
LEMMA ComparisonSound ==
    ASSUME NEW mine \in Result, NEW theirs \in Result, NEW mode,
           Compare(mine, theirs, mode)
    PROVE  Agree(mine, theirs, mode)
  <1>1. CASE mode \in {"skipped", "lenient"}
    BY <1>1 DEF Compare, Agree
  <1>2. CASE mode \notin {"skipped", "lenient"}
    <2> DEFINE n == Len(mine.rows)
               from == Rank(mine.rows)
               to == Rank(theirs.rows)
    <2>1. /\ Len(theirs.rows) = n
          /\ mine.columns = theirs.columns
          /\ \A k \in 1 .. n : EqualRows(Sorted(mine.rows)[k], Sorted(theirs.rows)[k])
      BY <1>2 DEF Compare
    <2>2. Grid(mine.rows) /\ Grid(theirs.rows)
      BY CompareAssumption DEF Grid
    <2>3. /\ from \in [1 .. n -> 1 .. n]
          /\ \A i, j \in 1 .. n : from[i] = from[j] => i = j
          /\ \A i \in 1 .. n : Sorted(mine.rows)[from[i]] = mine.rows[i]
      BY <2>2, SortedIsPermutation
    <2>4. /\ \A k \in 1 .. n : \E i \in 1 .. n : to[i] = k
          /\ \A i \in 1 .. n : Sorted(theirs.rows)[to[i]] = theirs.rows[i]
      <3> DEFINE m == Len(theirs.rows)
      <3>1. /\ \A k \in 1 .. m : \E i \in 1 .. m : to[i] = k
            /\ \A i \in 1 .. m : Sorted(theirs.rows)[to[i]] = theirs.rows[i]
        BY <2>2, SortedIsPermutation
      <3>2. m = n
        BY <2>1
      <3> HIDE DEF m, n, to
      <3> QED  BY <3>1, <3>2
    <2> HIDE DEF n, from, to
    <2> DEFINE p == [i \in 1 .. n |-> CHOOSE j \in 1 .. n : to[j] = from[i]]
    <2>5. \A i \in 1 .. n : p[i] \in 1 .. n /\ to[p[i]] = from[i]
      BY <2>3, <2>4
    <2>6. p \in [1 .. n -> 1 .. n] /\ DOMAIN p = 1 .. n
      BY <2>5
    <2> HIDE DEF p
    <2>7. \A i, j \in 1 .. n : p[i] = p[j] => i = j
      BY <2>3, <2>5
    <2>8. \A i \in 1 .. n : EqualRows(mine.rows[i], theirs.rows[p[i]])
      <3> TAKE i \in 1 .. n
      <3>1. EqualRows(Sorted(mine.rows)[from[i]], Sorted(theirs.rows)[from[i]])
        BY <2>1, <2>3
      <3>2. /\ Sorted(mine.rows)[from[i]] = mine.rows[i]
            /\ Sorted(theirs.rows)[from[i]] = theirs.rows[p[i]]
        BY <2>3, <2>4, <2>5
      <3> QED  BY <3>1, <3>2
    <2> QED  BY <1>2, <2>1, <2>6, <2>7, <2>8 DEF Agree, n
  <1> QED  BY <1>1, <1>2

\* If each row of one result has a row of the other with the same key, its own,
\* then no row is put where a greater one is in the other: there would be more
\* rows before it than places.
LEMMA NoneMisplaced ==
    ASSUME NEW X, Grid(X), NEW Y, Grid(Y), NEW n \in Nat, Len(X) = n, Len(Y) = n,
           NEW g \in [1 .. n -> 1 .. n],
           \A i, j \in 1 .. n : g[i] = g[j] => i = j,
           \A i \in 1 .. n : Len(X[i]) = Len(Y[g[i]]) /\ SameKey(X[i], Y[g[i]]),
           NEW i \in 1 .. n, NEW j \in 1 .. n, Rank(X)[i] = Rank(Y)[j]
    PROVE  ~KeyLess(X[i], Y[j])
  <1> SUFFICES ASSUME KeyLess(X[i], Y[j]) PROVE FALSE
    OBVIOUS
  <1> DEFINE ahead == Before(X)[i]
             A == ahead \union {i}
             B == Before(Y)[j]
             h == [a \in A |-> g[a]]
  <1>1. /\ \A a \in 1 .. n : X[a] \in Seq(Value) /\ Y[a] \in Seq(Value)
        /\ \A a, b \in 1 .. n : Len(X[a]) = Len(X[b]) /\ Len(Y[a]) = Len(Y[b])
    <2>1. DOMAIN X = 1 .. n /\ DOMAIN Y = 1 .. n
      BY LenProperties DEF Grid
    <2>2. \A a \in 1 .. n : X[a] \in Seq(Value)
      BY ElementOfSeq DEF Grid
    <2>3. \A a \in 1 .. n : Y[a] \in Seq(Value)
      BY ElementOfSeq DEF Grid
    <2> QED  BY <2>1, <2>2, <2>3 DEF Grid
  <1>2. \A a, b \in 1 .. n : Len(X[a]) = Len(Y[b])
    BY <1>1
  <1>3. /\ ahead = {a \in 1 .. n : Precedes(X, a, i)}
        /\ B = {b \in 1 .. n : Precedes(Y, b, j)}
        /\ Rank(X)[i] = Cardinality(ahead) + 1
        /\ Rank(Y)[j] = Cardinality(B) + 1
    BY DEF Before, Rank
  <1> HIDE DEF ahead, B
  <1>4. /\ IsFiniteSet(ahead) /\ IsFiniteSet(B)
        /\ Cardinality(ahead) \in Nat /\ Cardinality(B) \in Nat
    <2>1. IsFiniteSet(1 .. n)
      BY FS_Interval
    <2>2. ahead \in SUBSET (1 .. n) /\ B \in SUBSET (1 .. n)
      BY <1>3
    <2> QED  BY <2>1, <2>2, FS_Subset, FS_CardinalityType
  <1>5. i \notin ahead
    BY <1>3, PlacesOrdered
  <1>6. /\ IsFiniteSet(A)
        /\ Cardinality(A) = Cardinality(ahead) + 1
    BY <1>4, <1>5, FS_AddElement
  <1>7. Cardinality(B) < Cardinality(A)
    <2> HIDE DEF A
    <2>1. Cardinality(ahead) + 1 = Cardinality(B) + 1
      BY <1>3
    <2> QED  BY <1>4, <1>6, <2>1
  <1>8. ASSUME NEW a \in A PROVE a \in 1 .. n /\ g[a] \in B
    <2>1. a \in 1 .. n
      BY <1>3, <1>8
    <2>2. /\ X[a] \in Seq(Value) /\ X[i] \in Seq(Value)
          /\ Y[j] \in Seq(Value) /\ Y[g[a]] \in Seq(Value)
          /\ Len(X[a]) = Len(X[i]) /\ Len(X[i]) = Len(Y[j])
          /\ Len(X[a]) = Len(Y[g[a]]) /\ Len(Y[g[a]]) = Len(Y[j])
          /\ SameKey(X[a], Y[g[a]])
      BY <1>1, <1>2, <2>1
    <2>3. a = i \/ KeyLess(X[a], X[i]) \/ ~KeyLess(X[i], X[a])
      BY <1>3 DEF Precedes
    <2>4. KeyLess(X[a], Y[j])
      <3>1. CASE a = i
        BY <3>1
      <3>2. CASE KeyLess(X[a], X[i])
        BY <2>2, <3>2, KeysOrdered
      <3>3. CASE ~KeyLess(X[a], X[i]) /\ ~KeyLess(X[i], X[a])
        <4>1. SameKey(X[a], X[i])
          BY <2>2, <3>3, KeysOrdered
        <4> QED  BY <2>2, <4>1, KeysOrdered
      <3> QED  BY <2>3, <3>1, <3>2, <3>3
    <2>5. KeyLess(Y[g[a]], Y[j])
      <3> DEFINE p == X[a]
                 q == Y[g[a]]
                 o == Y[j]
      <3>1. /\ p \in Seq(Value) /\ q \in Seq(Value) /\ o \in Seq(Value)
            /\ Len(p) = Len(q) /\ Len(q) = Len(o) /\ SameKey(p, q)
        BY <2>2
      <3> HIDE DEF p, q, o
      <3>2. KeyLess(p, o) <=> KeyLess(q, o)
        BY <3>1, KeysOrdered
      <3> QED  BY <2>4, <3>2 DEF p, q, o
    <2> QED  BY <1>3, <2>1, <2>5 DEF Precedes
  <1>9. h \in Injection(A, B)
    BY <1>8 DEF Injection, IsInjective
  <1>10. Cardinality(A) <= Cardinality(B)
    <2> HIDE DEF A, h
    <2> QED  BY <1>4, <1>9, FS_Injection
  <1>11. Cardinality(A) \in Nat
    BY <1>6, FS_CardinalityType
  <1> HIDE DEF A
  <1> QED  BY <1>4, <1>7, <1>10, <1>11

\* What decides equality in compare.py and what decides the order there is the
\* same for these values: two of them are equal just if their texts are.
EqualByText == \A v, w \in Value : <<v, w>> \in Equal <=> Text[v] = Text[w]

\* If it is, the comparison of compare.py also accepts all results that agree
\* in the sense of their mode: that it refuses some is due to values that are
\* equal and print differently, or the other way round, and to nothing else.
THEOREM ComparisonComplete ==
    ASSUME EqualByText, NEW mine \in Result, NEW theirs \in Result, NEW mode,
           Agree(mine, theirs, mode)
    PROVE  Compare(mine, theirs, mode)
  <1>1. CASE mode \in {"skipped", "lenient"}
    BY <1>1 DEF Compare, Agree
  <1>2. CASE mode \notin {"skipped", "lenient"}
    <2> DEFINE X == mine.rows
               Y == theirs.rows
               n == Len(X)
    <2>1. /\ mine.columns = theirs.columns
          /\ Len(Y) = n
          /\ \E p \in [1 .. n -> 1 .. n] :
                /\ \A i, j \in 1 .. n : p[i] = p[j] => i = j
                /\ \A i \in 1 .. n : EqualRows(X[i], Y[p[i]])
      BY <1>2 DEF Agree
    <2>2. Grid(X) /\ Grid(Y)
      BY CompareAssumption DEF Grid
    <2>3. n \in Nat
      BY <2>2, LenProperties DEF Grid
    <2>4. ASSUME NEW k \in 1 .. n PROVE EqualRows(Sorted(X)[k], Sorted(Y)[k])
      <3> HIDE DEF X, Y
      <3>1. PICK p \in [1 .. n -> 1 .. n] :
                /\ \A i, j \in 1 .. n : p[i] = p[j] => i = j
                /\ \A i \in 1 .. n : EqualRows(X[i], Y[p[i]])
        BY <2>1
      <3> DEFINE q == [j \in 1 .. n |-> CHOOSE i \in 1 .. n : p[i] = j]
      <3>2. q \in [1 .. n -> 1 .. n] /\ \A j \in 1 .. n : p[q[j]] = j
        <4>1. IsFiniteSet(1 .. n)
          BY <2>3, FS_Interval
        <4>2. p \in Injection(1 .. n, 1 .. n)
          BY <3>1 DEF Injection, IsInjective
        <4>3. p \in Surjection(1 .. n, 1 .. n)
          BY <4>1, <4>2, FS_Injection
        <4>4. \A j \in 1 .. n : \E i \in 1 .. n : p[i] = j
          BY <4>3 DEF Surjection
        <4> QED  BY <4>4
      <3> HIDE DEF q
      <3>3. \A i, j \in 1 .. n : q[i] = q[j] => i = j
        BY <3>2
      <3>4. \A i, j \in 1 .. n :
                /\ X[i] \in Seq(Value) /\ Y[j] \in Seq(Value)
                /\ Len(X[i]) = Len(Y[j])
        <4>1. /\ \A i \in 1 .. n : X[i] \in Seq(Value) /\ Len(X[i]) = Len(Y[p[i]])
              /\ \A j \in 1 .. n : Y[j] \in Seq(Value)
          BY <2>1, <2>2, <3>1, ElementOfSeq DEF Grid, EqualRows
        <4>2. \A i, j \in 1 .. n : Len(Y[i]) = Len(Y[j])
          BY <2>1, <2>2, LenProperties DEF Grid
        <4> QED  BY <3>1, <4>1, <4>2
      <3>5. \A i \in 1 .. n : SameKey(X[i], Y[p[i]])
        <4> SUFFICES ASSUME NEW i \in 1 .. n, NEW c \in 1 .. Len(X[i])
                     PROVE  Text[X[i][c]] = Text[Y[p[i]][c]]
          BY DEF SameKey
        <4>1. <<X[i][c], Y[p[i]][c]>> \in Equal
          BY <3>1 DEF EqualRows, Eq
        <4>2. X[i][c] \in Value /\ Y[p[i]][c] \in Value
          BY <4>1, CompareAssumption
        <4> QED  BY <4>1, <4>2 DEF EqualByText
      <3>6. \A j \in 1 .. n : SameKey(Y[j], X[q[j]])
        <4> SUFFICES ASSUME NEW j \in 1 .. n PROVE SameKey(Y[j], X[q[j]])
          OBVIOUS
        <4>1. q[j] \in 1 .. n /\ p[q[j]] = j
          BY <3>2
        <4>2. SameKey(X[q[j]], Y[j])
          BY <3>5, <4>1
        <4>3. Len(X[q[j]]) = Len(Y[j])
          BY <3>4, <4>1
        <4> QED  BY <4>2, <4>3 DEF SameKey
      <3>7. PICK i \in 1 .. n : Rank(X)[i] = k /\ Sorted(X)[k] = X[i]
        <4>1. /\ \E i \in 1 .. n : Rank(X)[i] = k
              /\ \A i \in 1 .. n : Sorted(X)[Rank(X)[i]] = X[i]
          BY <2>2, SortedIsPermutation
        <4> QED  BY <4>1
      <3>8. PICK j \in 1 .. n : Rank(Y)[j] = k /\ Sorted(Y)[k] = Y[j]
        <4> DEFINE m == Len(Y)
        <4>1. /\ k \in 1 .. m => \E j \in 1 .. m : Rank(Y)[j] = k
              /\ \A j \in 1 .. m : Sorted(Y)[Rank(Y)[j]] = Y[j]
          BY <2>2, SortedIsPermutation
        <4>2. m = n
          BY <2>1
        <4> HIDE DEF m, n
        <4> QED  BY <4>1, <4>2
      <3>9. Len(X) = n /\ Len(Y) = n /\ Rank(X)[i] = Rank(Y)[j]
        BY <2>1, <3>7, <3>8
      <3>10. /\ \A a \in 1 .. n : Len(X[a]) = Len(Y[p[a]]) /\ SameKey(X[a], Y[p[a]])
             /\ \A a \in 1 .. n : Len(Y[a]) = Len(X[q[a]]) /\ SameKey(Y[a], X[q[a]])
        BY <3>1, <3>2, <3>4, <3>5, <3>6
      <3> HIDE DEF n
      <3>11. ~KeyLess(X[i], Y[j])
        BY <2>2, <2>3, <3>1, <3>9, <3>10, NoneMisplaced
      <3>12. ~KeyLess(Y[j], X[i])
        BY <2>2, <2>3, <3>2, <3>3, <3>9, <3>10, NoneMisplaced
      <3>13. SameKey(X[i], Y[j])
        BY <3>4, <3>11, <3>12, KeysOrdered
      <3>14. \A c \in 1 .. Len(X[i]) : Eq(X[i][c], Y[j][c])
        <4> TAKE c \in 1 .. Len(X[i])
        <4>1. Text[X[i][c]] = Text[Y[j][c]]
          BY <3>13 DEF SameKey
        <4>2. X[i][c] \in Value /\ Y[j][c] \in Value
          BY <3>4, ElementOfSeq
        <4> QED  BY <4>1, <4>2 DEF EqualByText, Eq
      <3> QED  BY <3>4, <3>7, <3>8, <3>14 DEF EqualRows
    <2> QED  BY <1>2, <2>1, <2>4 DEF Compare
  <1> QED  BY <1>1, <1>2

-----------------------------------------------------------------------------
(* The extraction *)

\* The first and the last piece of a kind are found where they are.
LEMMA FirstFound ==
    ASSUME NEW x \in Seq(Pieces), NEW S, NEW i \in 1 .. Len(x),
           x[i] \in S, \A j \in 1 .. i - 1 : x[j] \notin S
    PROVE  FirstOf(x, S) = i /\ Within(x, S)
  <1>1. DOMAIN x = 1 .. Len(x) /\ Len(x) \in Nat
    BY LenProperties
  <1>2. ASSUME NEW k \in DOMAIN x, x[k] \in S, \A j \in 1 .. k - 1 : x[j] \notin S
        PROVE  k = i
    BY <1>1, <1>2
  <1> QED  BY <1>1, <1>2 DEF FirstOf, Within

LEMMA LastFound ==
    ASSUME NEW x \in Seq(Pieces), NEW S, NEW i \in 1 .. Len(x),
           x[i] \in S, \A j \in i + 1 .. Len(x) : x[j] \notin S
    PROVE  LastOf(x, S) = i /\ Within(x, S)
  <1>1. DOMAIN x = 1 .. Len(x) /\ Len(x) \in Nat
    BY LenProperties
  <1>2. ASSUME NEW k \in DOMAIN x, x[k] \in S, \A j \in k + 1 .. Len(x) : x[j] \notin S
        PROVE  k = i
    BY <1>1, <1>2
  <1> QED  BY <1>1, <1>2 DEF LastOf, Within

\* The pieces of a part of a text.
LEMMA PartProperties ==
    ASSUME NEW x \in Seq(Pieces), NEW m \in 1 .. Len(x) + 1, NEW n \in m - 1 .. Len(x)
    PROVE  /\ SubSeq(x, m, n) \in Seq(Pieces)
           /\ Len(SubSeq(x, m, n)) = n - m + 1
           /\ \A i \in 1 .. n - m + 1 : SubSeq(x, m, n)[i] = x[m + i - 1]
  <1>1. Len(x) \in Nat /\ m \in Int /\ n \in Int /\ m .. n \subseteq 1 .. Len(x)
    BY LenProperties
  <1>2. \A i \in m .. n : x[i] \in Pieces
    BY <1>1, ElementOfSeq
  <1> QED  BY <1>1, <1>2, SubSeqProperties

\* What follows words without a keyword is the statement, if nothing but
\* semicolons come after it.
LEMMA StatementFound ==
    ASSUME NEW x \in Seq(Pieces), NEW i \in 1 .. Len(x), x[i] \in SQLStatement,
           \A j \in 1 .. i - 1 : x[j] \notin SQLStatement,
           \A j \in i + 1 .. Len(x) : x[j] = Semicolon
    PROVE  WithoutSemicolons(FromKeyword(x)) = <<x[i]>>
  <1> DEFINE y == SubSeq(x, i, Len(x))
             words == Pieces \ {Semicolon}
  <1>1. Len(x) \in Nat
    BY LenProperties
  <1>2. FromKeyword(x) = y
    BY FirstFound DEF FromKeyword
  <1>3. /\ y \in Seq(Pieces)
        /\ Len(y) = Len(x) - i + 1
        /\ \A j \in 1 .. Len(x) - i + 1 : y[j] = x[i + j - 1]
    BY <1>1, PartProperties
  <1> HIDE DEF y
  <1>4. 1 \in 1 .. Len(y) /\ y[1] = x[i]
    BY <1>1, <1>3
  <1>5. \A j \in 1 + 1 .. Len(y) : y[j] \notin words
    BY <1>1, <1>3
  <1>6. y[1] \in words
    BY <1>4, ExtractionAssumption DEF Pieces
  <1>7. LastOf(y, words) = 1 /\ Within(y, words)
    BY <1>3, <1>4, <1>5, <1>6, LastFound
  <1>8. /\ SubSeq(y, 1, 1) \in Seq(Pieces)
        /\ Len(SubSeq(y, 1, 1)) = 1
        /\ SubSeq(y, 1, 1)[1] = x[i]
    BY <1>3, <1>4, PartProperties
  <1>9. SubSeq(y, 1, 1) = <<x[i]>>
    <2>1. x[i] \in Pieces
      BY ElementOfSeq
    <2> DEFINE one == <<x[i]>>
    <2>2. one \in Seq(Pieces) /\ Len(one) = 1 /\ one[1] = x[i]
      BY <2>1
    <2> HIDE DEF one
    <2>3. SubSeq(y, 1, 1) = one
      BY <1>8, <2>2, SeqEqual
    <2> QED  BY <2>3 DEF one
  <1> QED  BY <1>2, <1>7, <1>9 DEF WithoutSemicolons

\* A statement s after the remarks b, followed by the semicolons c and the
\* remarks a, with the fences f (one, or none) around it and its semicolons.
Presentation(b, f, s, c, a) == b \o f \o <<s>> \o c \o f \o a

\* The places of the pieces of a presentation with n remarks, m semicolons, k
\* fences on either side, and l remarks.
Placed(x, s, n, k, m, l) ==
    /\ Len(x) = n + k + 1 + m + k + l
    /\ \A i \in 1 .. n : x[i] = Remark
    /\ \A i \in 1 .. k : x[n + i] = Fence
    /\ x[n + k + 1] = s
    /\ \A i \in 1 .. m : x[n + k + 1 + i] = Semicolon
    /\ \A i \in 1 .. k : x[n + k + 1 + m + i] = Fence
    /\ \A i \in 1 .. l : x[n + k + 1 + m + k + i] = Remark

\* Text x is the texts b, f, w, c, e, a put together.
Parts(x, b, f, w, c, e, a) ==
    /\ x \in Seq(Pieces)
    /\ Len(x) = Len(b) + Len(f) + Len(w) + Len(c) + Len(e) + Len(a)
    /\ \A i \in 1 .. Len(b) : x[i] = b[i]
    /\ \A i \in 1 .. Len(f) : x[Len(b) + i] = f[i]
    /\ \A i \in 1 .. Len(w) : x[Len(b) + Len(f) + i] = w[i]
    /\ \A i \in 1 .. Len(c) : x[Len(b) + Len(f) + Len(w) + i] = c[i]
    /\ \A i \in 1 .. Len(e) : x[Len(b) + Len(f) + Len(w) + Len(c) + i] = e[i]
    /\ \A i \in 1 .. Len(a) :
            x[Len(b) + Len(f) + Len(w) + Len(c) + Len(e) + i] = a[i]

LEMMA Joined ==
    ASSUME NEW b \in Seq(Pieces), NEW f \in Seq(Pieces), NEW w \in Seq(Pieces),
           NEW c \in Seq(Pieces), NEW e \in Seq(Pieces), NEW a \in Seq(Pieces)
    PROVE  Parts(b \o f \o w \o c \o e \o a, b, f, w, c, e, a)
  <1> DEFINE x == b \o f \o w \o c \o e \o a
  <1>1. /\ Len(b) \in Nat /\ Len(f) \in Nat /\ Len(w) \in Nat
        /\ Len(c) \in Nat /\ Len(e) \in Nat /\ Len(a) \in Nat
    BY LenProperties
  <1>2. /\ x \in Seq(Pieces)
        /\ Len(x) = Len(b) + Len(f) + Len(w) + Len(c) + Len(e) + Len(a)
    BY <1>1, ConcatProperties
  <1>3. \A i \in 1 .. Len(b) : x[i] = b[i]
    BY <1>1, ConcatProperties
  <1>4. \A i \in 1 .. Len(f) : x[Len(b) + i] = f[i]
    BY <1>1, ConcatProperties
  <1>5. \A i \in 1 .. Len(w) : x[Len(b) + Len(f) + i] = w[i]
    BY <1>1, ConcatProperties
  <1>6. \A i \in 1 .. Len(c) : x[Len(b) + Len(f) + Len(w) + i] = c[i]
    BY <1>1, ConcatProperties
  <1>7. \A i \in 1 .. Len(e) : x[Len(b) + Len(f) + Len(w) + Len(c) + i] = e[i]
    BY <1>1, ConcatProperties
  <1>8. \A i \in 1 .. Len(a) :
            x[Len(b) + Len(f) + Len(w) + Len(c) + Len(e) + i] = a[i]
    BY <1>1, ConcatProperties
  <1> QED  BY <1>2, <1>3, <1>4, <1>5, <1>6, <1>7, <1>8 DEF Parts

LEMMA PresentationPlaced ==
    ASSUME NEW s \in SQLStatement, NEW b \in Seq({Remark}), NEW a \in Seq({Remark}),
           NEW c \in Seq({Semicolon}), NEW f \in {<<>>, <<Fence>>}
    PROVE  LET x == Presentation(b, f, s, c, a)
           IN  /\ x \in Seq(Pieces)
               /\ Len(b) \in Nat /\ Len(c) \in Nat /\ Len(a) \in Nat /\ Len(f) \in {0, 1}
               /\ Placed(x, s, Len(b), Len(f), Len(c), Len(a))
  <1> DEFINE w == <<s>>
             x == b \o f \o w \o c \o f \o a
  <1>1. {Remark} \subseteq Pieces /\ {Semicolon} \subseteq Pieces
    BY DEF Pieces
  <1>2. b \in Seq(Pieces) /\ a \in Seq(Pieces) /\ c \in Seq(Pieces)
    BY <1>1, SeqMonotonic
  <1>3. /\ \A i \in 1 .. Len(b) : b[i] \in {Remark}
        /\ \A i \in 1 .. Len(a) : a[i] \in {Remark}
        /\ \A i \in 1 .. Len(c) : c[i] \in {Semicolon}
    BY ElementOfSeq
  <1>4. w \in Seq(Pieces) /\ Len(w) = 1 /\ w[1] = s
    BY DEF Pieces
  <1>5. f \in Seq(Pieces) /\ Len(f) \in {0, 1} /\ \A i \in 1 .. Len(f) : f[i] = Fence
    <2>1. CASE f = <<>>
      BY <2>1
    <2>2. CASE f = <<Fence>>
      BY <2>2 DEF Pieces
    <2> QED  BY <2>1, <2>2
  <1> HIDE DEF w
  <1>6. Parts(x, b, f, w, c, f, a)
    <2>1. f \in Seq(Pieces) /\ w \in Seq(Pieces)
      BY <1>4, <1>5
    <2> QED  BY <1>2, <2>1, Joined
  <1>7. x = Presentation(b, f, s, c, a)
    BY DEF Presentation, w
  <1> HIDE DEF x
  <1>8. Len(b) \in Nat /\ Len(c) \in Nat /\ Len(a) \in Nat
    BY LenProperties
  <1>9. Placed(x, s, Len(b), Len(f), Len(c), Len(a))
    <2>1. x[Len(b) + Len(f) + 1] = s
      BY <1>4, <1>6 DEF Parts
    <2>2. /\ \A i \in 1 .. Len(c) : x[Len(b) + Len(f) + 1 + i] = c[i]
          /\ \A i \in 1 .. Len(f) : x[Len(b) + Len(f) + 1 + Len(c) + i] = f[i]
          /\ \A i \in 1 .. Len(a) :
                x[Len(b) + Len(f) + 1 + Len(c) + Len(f) + i] = a[i]
          /\ Len(x) = Len(b) + Len(f) + 1 + Len(c) + Len(f) + Len(a)
      BY <1>4, <1>6 DEF Parts
    <2>3. /\ \A i \in 1 .. Len(b) : x[i] = Remark
          /\ \A i \in 1 .. Len(f) : x[Len(b) + i] = Fence
      BY <1>3, <1>5, <1>6 DEF Parts
    <2>4. \A i \in 1 .. Len(c) : x[Len(b) + Len(f) + 1 + i] = Semicolon
      BY <1>3, <2>2
    <2>5. \A i \in 1 .. Len(f) : x[Len(b) + Len(f) + 1 + Len(c) + i] = Fence
      BY <1>5, <2>2
    <2>6. \A i \in 1 .. Len(a) :
                x[Len(b) + Len(f) + 1 + Len(c) + Len(f) + i] = Remark
      BY <1>3, <2>2
    <2> QED  BY <2>1, <2>2, <2>3, <2>4, <2>5, <2>6 DEF Placed
  <1> QED  BY <1>5, <1>6, <1>7, <1>8, <1>9 DEF Parts

\* Kinds of pieces.
LEMMA Kinds ==
    ASSUME NEW s \in SQLStatement
    PROVE  /\ s \notin {Fence, Remark, Untranslatable, Semicolon}
           /\ Fence \notin {Remark, Untranslatable, Semicolon}
           /\ Remark \notin {Untranslatable, Semicolon, Fence}
           /\ Semicolon # Untranslatable
           /\ Fence \notin SQLStatement /\ Remark \notin SQLStatement
BY ExtractionAssumption

\* The statement is extracted from what is left of a text without its fences.
LEMMA RestExtracted ==
    ASSUME NEW x, NEW y \in Seq(Pieces), strip_code_fence(x) = y,
           ~Begins(y, Untranslatable),
           NEW z \in Seq(Pieces), FirstBlock(y) = z,
           NEW i \in 1 .. Len(z), z[i] \in SQLStatement,
           \A j \in 1 .. i - 1 : z[j] \notin SQLStatement,
           \A j \in i + 1 .. Len(z) : z[j] = Semicolon
    PROVE  extract_sql(x) = <<z[i]>>
BY StatementFound DEF extract_sql

\* An unfenced presentation.
LEMMA UnfencedExtracted ==
    ASSUME NEW x \in Seq(Pieces), NEW s \in SQLStatement, NEW n \in Nat, NEW m \in Nat,
           Placed(x, s, n, 0, m, 0)
    PROVE  extract_sql(x) = <<s>>
  <1>1. /\ Len(x) = n + 1 + m
        /\ \A i \in 1 .. n : x[i] = Remark
        /\ x[n + 1] = s
        /\ \A i \in 1 .. m : x[n + 1 + i] = Semicolon
    BY DEF Placed
  <1>2. \A j \in n + 2 .. n + 1 + m : x[j] = Semicolon
    <2> TAKE j \in n + 2 .. n + 1 + m
    <2>1. j - (n + 1) \in 1 .. m /\ n + 1 + (j - (n + 1)) = j
      OBVIOUS
    <2> QED  BY <1>1, <2>1
  <1>3. \A j \in 1 .. Len(x) : x[j] \in {Remark, s, Semicolon}
    BY <1>1, <1>2
  <1>4. x # <<>> /\ 1 \in 1 .. Len(x) /\ Len(x) \in 1 .. Len(x) /\ DOMAIN x = 1 .. Len(x)
    BY <1>1, LenProperties, EmptySeq
  <1>5. ~Begins(x, Fence) /\ ~Ends(x, Fence) /\ ~Begins(x, Untranslatable)
    BY <1>3, <1>4, Kinds DEF Begins, Ends
  <1>6. ~Within(x, {Fence})
    BY <1>3, <1>4, Kinds DEF Within
  <1>7. strip_code_fence(x) = x /\ FirstBlock(x) = x
    BY <1>5, <1>6 DEF strip_code_fence, FirstBlock
  <1> DEFINE i == n + 1
  <1>8. i \in 1 .. Len(x) /\ x[i] = s
    BY <1>1
  <1>9. \A j \in 1 .. i - 1 : x[j] \notin SQLStatement
    BY <1>1, Kinds
  <1>10. \A j \in i + 1 .. Len(x) : x[j] = Semicolon
    BY <1>1, <1>2
  <1> HIDE DEF i
  <1>11. extract_sql(x) = <<x[i]>>
    BY <1>5, <1>7, <1>8, <1>9, <1>10, RestExtracted
  <1> QED  BY <1>8, <1>11

\* A presentation that begins with a fence.
LEMMA FencedExtracted ==
    ASSUME NEW x \in Seq(Pieces), NEW s \in SQLStatement, NEW m \in Nat,
           Placed(x, s, 0, 1, m, 0)
    PROVE  extract_sql(x) = <<s>>
  <1> DEFINE rest == Tail(x)
             y == SubSeq(rest, 1, Len(rest) - 1)
  <1>1. /\ Len(x) = m + 3
        /\ x[1] = Fence
        /\ x[2] = s
        /\ \A i \in 1 .. m : x[2 + i] = Semicolon
        /\ x[m + 3] = Fence
    BY DEF Placed
  <1>2. x # <<>>
    BY <1>1, EmptySeq
  <1>3. /\ rest \in Seq(Pieces) /\ Len(rest) = m + 2
        /\ \A i \in 1 .. m + 2 : rest[i] = x[i + 1]
    BY <1>1, <1>2, HeadTailProperties
  <1> HIDE DEF rest
  <1>4. rest # <<>> /\ rest[Len(rest)] = Fence
    BY <1>1, <1>3, EmptySeq
  <1>5. strip_code_fence(x) = y
    BY <1>1, <1>2, <1>4 DEF strip_code_fence, Begins, Ends, rest
  <1>6. /\ y \in Seq(Pieces) /\ Len(y) = m + 1
        /\ \A i \in 1 .. m + 1 : y[i] = rest[i]
    <2>1. Len(rest) - 1 = m + 1 /\ 1 \in 1 .. Len(rest) + 1 /\ m + 1 \in 1 - 1 .. Len(rest)
      BY <1>3
    <2>2. /\ SubSeq(rest, 1, m + 1) \in Seq(Pieces)
          /\ Len(SubSeq(rest, 1, m + 1)) = m + 1 - 1 + 1
          /\ \A i \in 1 .. m + 1 - 1 + 1 : SubSeq(rest, 1, m + 1)[i] = rest[1 + i - 1]
      BY <1>3, <2>1, PartProperties
    <2> QED  BY <1>3, <2>1, <2>2
  <1> HIDE DEF y
  <1>7. y[1] = s /\ \A j \in 2 .. m + 1 : y[j] = Semicolon
    <2>1. y[1] = s
      BY <1>1, <1>3, <1>6
    <2>2. ASSUME NEW j \in 2 .. m + 1 PROVE y[j] = Semicolon
      <3>1. y[j] = x[j + 1] /\ j - 1 \in 1 .. m /\ 2 + (j - 1) = j + 1
        BY <1>3, <1>6
      <3> QED  BY <1>1, <3>1
    <2> QED  BY <2>1, <2>2
  <1>8. \A j \in 1 .. Len(y) : y[j] \in {s, Semicolon}
    BY <1>6, <1>7
  <1>9. DOMAIN y = 1 .. Len(y)
    BY <1>6, LenProperties
  <1>10. ~Begins(y, Untranslatable) /\ ~Within(y, {Fence})
    BY <1>7, <1>8, <1>9, Kinds DEF Begins, Within
  <1>11. FirstBlock(y) = y
    BY <1>10 DEF FirstBlock
  <1>12. 1 \in 1 .. Len(y) /\ \A j \in 1 + 1 .. Len(y) : y[j] = Semicolon
    BY <1>6, <1>7
  <1>13. extract_sql(x) = <<y[1]>>
    BY <1>5, <1>6, <1>7, <1>10, <1>11, <1>12, RestExtracted
  <1> QED  BY <1>7, <1>13

\* A presentation in which remarks stand before a fence.
LEMMA FenceAfterRemarksExtracted ==
    ASSUME NEW x \in Seq(Pieces), NEW s \in SQLStatement,
           NEW n \in Nat \ {0}, NEW m \in Nat, Placed(x, s, n, 1, m, 0)
    PROVE  extract_sql(x) = <<s>>
  <1> DEFINE y == SubSeq(x, 1, Len(x) - 1)
             i == n + 2
  <1>1. /\ Len(x) = n + m + 3
        /\ \A j \in 1 .. n : x[j] = Remark
        /\ x[n + 1] = Fence
        /\ x[i] = s
        /\ \A j \in 1 .. m : x[n + 2 + j] = Semicolon
        /\ x[n + m + 3] = Fence
    <2>1. /\ Len(x) = n + 1 + 1 + m + 1 + 0
          /\ \A j \in 1 .. n : x[j] = Remark
          /\ \A j \in 1 .. 1 : x[n + j] = Fence
          /\ x[n + 1 + 1] = s
          /\ \A j \in 1 .. m : x[n + 1 + 1 + j] = Semicolon
          /\ \A j \in 1 .. 1 : x[n + 1 + 1 + m + j] = Fence
      BY DEF Placed
    <2>2. n + 1 + 1 = n + 2 /\ n + 1 + 1 + m + 1 = n + m + 3
      OBVIOUS
    <2> QED  BY <2>1, <2>2
  <1>2. x # <<>> /\ x[1] = Remark /\ x[Len(x)] = Fence
    BY <1>1, EmptySeq
  <1>3. strip_code_fence(x) = y
    BY <1>2, Kinds DEF strip_code_fence, Begins, Ends
  <1>4. /\ y \in Seq(Pieces) /\ Len(y) = n + m + 2
        /\ \A j \in 1 .. n + m + 2 : y[j] = x[j]
    <2> DEFINE h == n + m + 2
    <2>1. h = Len(x) - 1 /\ 1 \in 1 .. Len(x) + 1 /\ h \in 1 - 1 .. Len(x) /\ h \in Nat
      BY <1>1
    <2> HIDE DEF h
    <2>2. /\ SubSeq(x, 1, h) \in Seq(Pieces)
          /\ Len(SubSeq(x, 1, h)) = h - 1 + 1
          /\ \A j \in 1 .. h - 1 + 1 : SubSeq(x, 1, h)[j] = x[1 + j - 1]
      BY <2>1, PartProperties
    <2>3. Len(y) = h /\ \A j \in 1 .. h : y[j] = x[j]
      BY <2>1, <2>2
    <2> QED  BY <2>1, <2>2, <2>3 DEF h
  <1> HIDE DEF y
  <1>5. \A j \in i + 1 .. n + m + 2 : y[j] = Semicolon
    <2> TAKE j \in i + 1 .. n + m + 2
    <2>1. j - (n + 2) \in 1 .. m /\ n + 2 + (j - (n + 2)) = j
      OBVIOUS
    <2>2. x[j] = Semicolon
      BY <1>1, <2>1
    <2> QED  BY <1>4, <2>2
  <1>6. /\ y[n + 1] = Fence /\ y[i] = s
        /\ \A j \in 1 .. n : y[j] = Remark
    BY <1>1, <1>4
  <1>7. y # <<>> /\ ~Begins(y, Untranslatable)
    BY <1>4, <1>6, Kinds, EmptySeq DEF Begins
  <1>8. FirstOf(y, {Fence}) = n + 1
    <2> DEFINE g == n + 1
    <2>1. g \in 1 .. Len(y) /\ y[g] \in {Fence}
      BY <1>4, <1>6
    <2>2. \A j \in 1 .. g - 1 : y[j] \notin {Fence}
      BY <1>6, Kinds
    <2> HIDE DEF g
    <2>3. FirstOf(y, {Fence}) = g
      BY <1>4, <2>1, <2>2, FirstFound
    <2> QED  BY <2>3 DEF g
  <1> DEFINE after == SubSeq(y, n + 2, Len(y))
  <1>9. /\ after \in Seq(Pieces) /\ Len(after) = m + 1
        /\ \A j \in 1 .. m + 1 : after[j] = y[n + 1 + j]
    <2>1. n + 2 \in 1 .. Len(y) + 1 /\ Len(y) \in n + 2 - 1 .. Len(y)
      BY <1>4
    <2>2. /\ after \in Seq(Pieces)
          /\ Len(after) = Len(y) - (n + 2) + 1
          /\ \A j \in 1 .. Len(y) - (n + 2) + 1 : after[j] = y[n + 2 + j - 1]
      BY <1>4, <2>1, PartProperties
    <2> HIDE DEF after
    <2> QED  BY <1>4, <2>2
  <1> HIDE DEF after
  <1>10. \A j \in 1 .. m + 1 : after[j] \in {s, Semicolon}
    BY <1>4, <1>5, <1>6, <1>9
  <1>11. ~Within(after, {Fence})
    <2>1. DOMAIN after = 1 .. m + 1
      BY <1>9, LenProperties
    <2> QED  BY <1>10, <2>1, Kinds DEF Within
  <1>12. FirstBlock(y) = y
    BY <1>8, <1>11 DEF FirstBlock, after
  <1>13. /\ i \in 1 .. Len(y)
         /\ \A j \in 1 .. i - 1 : y[j] \notin SQLStatement
         /\ \A j \in i + 1 .. Len(y) : y[j] = Semicolon
    BY <1>4, <1>5, <1>6, Kinds
  <1> HIDE DEF i
  <1>14. extract_sql(x) = <<y[i]>>
    BY <1>3, <1>4, <1>6, <1>7, <1>12, <1>13, RestExtracted
  <1> QED  BY <1>6, <1>14

\* A presentation with remarks on both sides of its fences.
LEMMA FenceAmongRemarksExtracted ==
    ASSUME NEW x \in Seq(Pieces), NEW s \in SQLStatement,
           NEW n \in Nat \ {0}, NEW m \in Nat, NEW l \in Nat \ {0},
           Placed(x, s, n, 1, m, l)
    PROVE  extract_sql(x) = <<s>>
  <1> DEFINE after == SubSeq(x, n + 2, Len(x))
             z == SubSeq(after, 1, m + 1)
  <1>1. /\ Len(x) = n + m + 3 + l
        /\ \A j \in 1 .. n : x[j] = Remark
        /\ x[n + 1] = Fence
        /\ x[n + 2] = s
        /\ \A j \in 1 .. m : x[n + 2 + j] = Semicolon
        /\ x[n + m + 3] = Fence
        /\ x[n + m + 3 + l] = Remark
    <2>1. /\ Len(x) = n + 1 + 1 + m + 1 + l
          /\ \A j \in 1 .. n : x[j] = Remark
          /\ \A j \in 1 .. 1 : x[n + j] = Fence
          /\ x[n + 1 + 1] = s
          /\ \A j \in 1 .. m : x[n + 1 + 1 + j] = Semicolon
          /\ \A j \in 1 .. 1 : x[n + 1 + 1 + m + j] = Fence
          /\ \A j \in 1 .. l : x[n + 1 + 1 + m + 1 + j] = Remark
      BY DEF Placed
    <2>2. n + 1 + 1 = n + 2 /\ n + 1 + 1 + m + 1 = n + m + 3 /\ l \in 1 .. l
      OBVIOUS
    <2>3. x[n + 1 + 1 + m + 1] = Fence
      BY <2>1
    <2>4. x[n + 1 + 1 + m + 1 + l] = Remark
      BY <2>1, <2>2
    <2>5. x[n + 1] = Fence
      BY <2>1
    <2> QED  BY <2>1, <2>2, <2>3, <2>4, <2>5
  <1>2. x # <<>> /\ x[1] = Remark /\ x[Len(x)] = Remark
    BY <1>1, EmptySeq
  <1>3. strip_code_fence(x) = x /\ ~Begins(x, Untranslatable)
    BY <1>2, Kinds DEF strip_code_fence, Begins, Ends
  <1>4. FirstOf(x, {Fence}) = n + 1 /\ Within(x, {Fence})
    <2> DEFINE g == n + 1
    <2>1. g \in 1 .. Len(x) /\ x[g] \in {Fence}
      BY <1>1
    <2>2. \A j \in 1 .. g - 1 : x[j] \notin {Fence}
      BY <1>1, Kinds
    <2> HIDE DEF g
    <2>3. FirstOf(x, {Fence}) = g /\ Within(x, {Fence})
      BY <2>1, <2>2, FirstFound
    <2> QED  BY <2>3 DEF g
  <1>5. /\ after \in Seq(Pieces) /\ Len(after) = m + 2 + l
        /\ \A j \in 1 .. m + 2 + l : after[j] = x[n + 1 + j]
    <2>1. n + 2 \in 1 .. Len(x) + 1 /\ Len(x) \in n + 2 - 1 .. Len(x)
      BY <1>1
    <2>2. /\ after \in Seq(Pieces)
          /\ Len(after) = Len(x) - (n + 2) + 1
          /\ \A j \in 1 .. Len(x) - (n + 2) + 1 : after[j] = x[n + 2 + j - 1]
      BY <2>1, PartProperties
    <2> HIDE DEF after
    <2> QED  BY <1>1, <2>2
  <1> HIDE DEF after
  <1>6. /\ after[1] = s
        /\ \A j \in 2 .. m + 1 : after[j] = Semicolon
        /\ after[m + 2] = Fence
    <2>1. after[1] = s /\ after[m + 2] = Fence
      BY <1>1, <1>5
    <2>2. ASSUME NEW j \in 2 .. m + 1 PROVE after[j] = Semicolon
      <3>1. after[j] = x[n + 1 + j] /\ j - 1 \in 1 .. m /\ n + 2 + (j - 1) = n + 1 + j
        BY <1>5
      <3> QED  BY <1>1, <3>1
    <2> QED  BY <2>1, <2>2
  <1>7. FirstOf(after, {Fence}) = m + 2 /\ Within(after, {Fence})
    <2> DEFINE g == m + 2
    <2>1. g \in 1 .. Len(after) /\ after[g] \in {Fence}
      BY <1>5, <1>6
    <2>2. \A j \in 1 .. g - 1 : after[j] \in {s, Semicolon}
      BY <1>6
    <2>3. \A j \in 1 .. g - 1 : after[j] \notin {Fence}
      BY <2>2, Kinds
    <2> HIDE DEF g
    <2>4. FirstOf(after, {Fence}) = g /\ Within(after, {Fence})
      BY <1>5, <2>1, <2>3, FirstFound
    <2> QED  BY <2>4 DEF g
  <1>8. FirstBlock(x) = z
    <2>1. SubSeq(x, FirstOf(x, {Fence}) + 1, Len(x)) = after
      <3>1. n + 1 + 1 = n + 2
        OBVIOUS
      <3> QED  BY <1>4, <3>1 DEF after
    <2>2. FirstOf(after, {Fence}) - 1 = m + 1
      BY <1>7
    <2>3. FirstBlock(x) = SubSeq(after, 1, FirstOf(after, {Fence}) - 1)
      BY <1>4, <1>7, <2>1 DEF FirstBlock
    <2> QED  BY <2>2, <2>3
  <1>9. /\ z \in Seq(Pieces) /\ Len(z) = m + 1
        /\ \A j \in 1 .. m + 1 : z[j] = after[j]
    <2>1. 1 \in 1 .. Len(after) + 1 /\ m + 1 \in 1 - 1 .. Len(after)
      BY <1>5
    <2>2. /\ z \in Seq(Pieces)
          /\ Len(z) = m + 1 - 1 + 1
          /\ \A j \in 1 .. m + 1 - 1 + 1 : z[j] = after[1 + j - 1]
      BY <1>5, <2>1, PartProperties
    <2> HIDE DEF z
    <2>3. m + 1 - 1 + 1 = m + 1 /\ \A j \in 1 .. m + 1 : 1 + j - 1 = j
      OBVIOUS
    <2> QED  BY <2>2, <2>3
  <1> HIDE DEF z
  <1>10. z[1] = s /\ \A j \in 1 + 1 .. Len(z) : z[j] = Semicolon
    BY <1>6, <1>9
  <1>11. 1 \in 1 .. Len(z)
    BY <1>9
  <1>12. extract_sql(x) = <<z[1]>>
    BY <1>3, <1>8, <1>9, <1>10, <1>11, RestExtracted
  <1> QED  BY <1>10, <1>12

\* Of a statement presented with any number of remarks before it and of
\* semicolons after it, in fences or not, nothing but the statement is left;
\* nor of one with remarks after it, if they follow a fence and others stand
\* before it.
THEOREM StatementExtracted ==
    ASSUME NEW s \in SQLStatement, NEW b \in Seq({Remark}), NEW a \in Seq({Remark}),
           NEW c \in Seq({Semicolon}), NEW f \in {<<>>, <<Fence>>},
           a # <<>> => f # <<>> /\ b # <<>>
    PROVE  extract_sql(Presentation(b, f, s, c, a)) = <<s>>
  <1> DEFINE x == Presentation(b, f, s, c, a)
  <1>1. /\ x \in Seq(Pieces)
        /\ Len(b) \in Nat /\ Len(c) \in Nat /\ Len(a) \in Nat /\ Len(f) \in {0, 1}
        /\ Placed(x, s, Len(b), Len(f), Len(c), Len(a))
    BY PresentationPlaced
  <1>2. /\ Len(a) # 0 => Len(f) # 0 /\ Len(b) # 0
        /\ Len(a) = 0 => a = <<>>
    <2>1. a # <<>> <=> Len(a) # 0
      BY EmptySeq
    <2>2. b # <<>> <=> Len(b) # 0
      BY EmptySeq
    <2>3. f # <<>> => Len(f) # 0
      OBVIOUS
    <2> QED  BY <2>1, <2>2, <2>3
  <1> HIDE DEF x
  <1>3. CASE Len(f) = 0
    <2>1. Len(a) = 0
      BY <1>1, <1>2, <1>3
    <2> QED  BY <1>1, <1>3, <2>1, UnfencedExtracted DEF x
  <1>4. CASE Len(f) = 1 /\ Len(b) = 0
    <2>1. Len(a) = 0
      BY <1>1, <1>2, <1>4
    <2> QED  BY <1>1, <1>4, <2>1, FencedExtracted DEF x
  <1>5. CASE Len(f) = 1 /\ Len(b) # 0 /\ Len(a) = 0
    BY <1>1, <1>5, FenceAfterRemarksExtracted DEF x
  <1>6. CASE Len(f) = 1 /\ Len(b) # 0 /\ Len(a) # 0
    BY <1>1, <1>6, FenceAmongRemarksExtracted DEF x
  <1> QED  BY <1>1, <1>3, <1>4, <1>5, <1>6

\* The presentations the extraction is made for are such.
LEMMA ExpectedExtracted ==
    ASSUME NEW x \in Expected PROVE \E s \in SQLStatement : extract_sql(x) = <<s>>
  <1> DEFINE piece(p, there) == IF there THEN <<p>> ELSE <<>>
  <1>1. PICK s \in SQLStatement, form \in Form : x = Presented(s, form)
    BY DEF Expected
  <1> DEFINE b == piece(Remark, form.before)
             f == piece(Fence, form.fenced)
             c == piece(Semicolon, form.semicolon)
             a == piece(Remark, form.after)
  <1>2. x = Presentation(b, f, s, c, a)
    <2>1. x = piece(Remark, form.before) \o piece(Fence, form.fenced) \o <<s>>
              \o piece(Semicolon, form.semicolon) \o piece(Fence, form.fenced)
              \o piece(Remark, form.after)
      BY <1>1 DEF Presented
    <2> HIDE DEF piece
    <2> QED  BY <2>1 DEF Presentation
  <1>3. b \in Seq({Remark}) /\ a \in Seq({Remark}) /\ c \in Seq({Semicolon})
    <2>1. ASSUME NEW p, NEW there PROVE piece(p, there) \in Seq({p})
      <3>1. <<>> \in Seq({p}) /\ <<p>> \in Seq({p})
        OBVIOUS
      <3> QED  BY <3>1
    <2> HIDE DEF piece
    <2> QED  BY <2>1
  <1>4. f \in {<<>>, <<Fence>>}
    OBVIOUS
  <1>5. a # <<>> => f # <<>> /\ b # <<>>
    BY DEF Form
  <1> HIDE DEF b, f, c, a
  <1> QED  BY <1>2, <1>3, <1>4, <1>5, StatementExtracted
=============================================================================
