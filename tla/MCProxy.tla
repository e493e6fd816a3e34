------------------------------ MODULE MCProxy -------------------------------
(***************************************************************************)
(* Small instances of Proxy for TLC.                                       *)
(***************************************************************************)
EXTENDS Proxy, TLC

CONSTANTS m1, m2, m3, m4,   \* statements up to literals
          good, bad,        \* a version Redshift executes and one it refuses
          patched, worse    \* two more, of each kind

CONSTANTS orders, staging       \* tables

\* Statement m1 reads a whitelisted table; m2 joins it with one that is not;
\* m3 names no table.
MCTablesOf == [x \in Shape |-> CASE x = m1 -> {orders}
                                 [] x = m2 -> {orders, staging}
                                 [] OTHER -> {}]

MCAccepted == {t \in SQL : t.ver \in {good, patched}}

MCNoLongSQL == {}
MCLongGood == {t \in SQL : t.ver = good}

Symmetry == Permutations(Session)
=============================================================================
