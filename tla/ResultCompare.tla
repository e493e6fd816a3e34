---------------------------- MODULE ResultCompare ----------------------------
(***************************************************************************)
(* The comparison of the two results of an import (agent/tools/compare.py).*)
(* A value is told apart by the text it is sorted by and by the values     *)
(* _eq takes it to be equal to; these need not agree: 1 and TRUE are equal *)
(* and print differently, so do two floats within the epsilon.             *)
(***************************************************************************)
EXTENDS Integers, Sequences, FiniteSets

CONSTANTS Value,    \* what a field of a result can be
          Text,     \* value -> rank of str(_normalize(value)) among the texts
          Equal,    \* the pairs of values _eq accepts
          Result    \* results of a statement: [columns, rows]

ASSUME CompareAssumption ==
    /\ Text \in [Value -> Nat]
    /\ Equal \subseteq Value \X Value
    /\ \A v, w \in Value : <<v, w>> \in Equal <=> <<w, v>> \in Equal
    /\ \A v \in Value : <<v, v>> \in Equal
    /\ \A s \in Result :
        /\ s.rows \in Seq(Seq(Value))
        /\ \A i, j \in DOMAIN s.rows : Len(s.rows[i]) = Len(s.rows[j])

\* Tuples of texts are compared from the left.
KeyLess(row, other) ==
    \E c \in 1 .. Len(row) :
        /\ \A d \in 1 .. c - 1 : Text[row[d]] = Text[other[d]]
        /\ Text[row[c]] < Text[other[c]]

\* Row j comes before row i: Python's sort is stable.
Precedes(rows, j, i) ==
    \/ KeyLess(rows[j], rows[i])
    \/ ~KeyLess(rows[i], rows[j]) /\ j < i

\* sorted(rows, key=key)
Sorted(rows) ==
    [k \in 1 .. Len(rows) |->
        rows[CHOOSE i \in 1 .. Len(rows) :
                Cardinality({j \in 1 .. Len(rows) : Precedes(rows, j, i)}) = k - 1]]

\* _eq of the two values, normalised
Eq(v, w) == <<v, w>> \in Equal

EqualRows(row, other) ==
    /\ Len(row) = Len(other)
    /\ \A c \in 1 .. Len(row) : Eq(row[c], other[c])

\* Wrong on purpose: zip stops at the shorter side and nothing else looks.
CompareShort(my, rs, mode) ==
    \/ mode \in {"skipped", "lenient"}
    \/ /\ my.columns = rs.columns
       /\ \A i \in 1 .. Len(my.rows) :
            i <= Len(rs.rows) => EqualRows(Sorted(my.rows)[i], Sorted(rs.rows)[i])

\* Wrong on purpose: the rows are compared in the order they come in.
CompareUnsorted(my, rs, mode) ==
    \/ mode = "skipped"
    \/ /\ Len(my.rows) = Len(rs.rows)
       /\ \/ mode = "lenient"
          \/ /\ my.columns = rs.columns
             /\ \A i \in 1 .. Len(my.rows) : EqualRows(my.rows[i], rs.rows[i])

\* compare(...)["ok"]
Compare(my, rs, mode) ==
    \/ mode = "skipped"
    \/ /\ Len(my.rows) = Len(rs.rows)
       /\ \/ mode = "lenient"
          \/ /\ my.columns = rs.columns
             /\ \A i \in 1 .. Len(my.rows) :
                    EqualRows(Sorted(my.rows)[i], Sorted(rs.rows)[i])

\* What the modes mean (the comment at the head of compare.py): in strict
\* mode the rows of one side are the rows of the other in some order.
Agree(my, rs, mode) ==
    CASE mode = "skipped" -> TRUE
      [] mode = "lenient" -> Len(my.rows) = Len(rs.rows)
      [] OTHER ->
            /\ my.columns = rs.columns
            /\ Len(my.rows) = Len(rs.rows)
            /\ \E p \in [1 .. Len(my.rows) -> 1 .. Len(rs.rows)] :
                /\ \A i, j \in DOMAIN p : p[i] = p[j] => i = j
                /\ \A i \in DOMAIN p : EqualRows(my.rows[i], rs.rows[p[i]])
=============================================================================
