-------------------------- MODULE MCKnowledgeBase ---------------------------
(***************************************************************************)
(* Small instances of KnowledgeBase for TLC.                               *)
(***************************************************************************)
EXTENDS KnowledgeBase, TLC

CONSTANTS a, b,         \* statements, at a distance of 1
          t, u          \* translations

MCDistance ==
    [p \in Query |-> [q \in Query |->
        IF p = q THEN 0 ELSE 1]]

MCOffer(m, sql, src, mode) ==
    [mysql |-> m, redshift |-> sql, source |-> src, mode |-> mode]

\* The proxy never compares; an import is either verified or forced.
MCRuntime == {MCOffer(q, t, "runtime", "skipped") : q \in Query}
MCExample == MCRuntime \union {MCOffer(a, u, "import", "strict"),
                               MCOffer(a, t, "import", "override")}

Symmetry == Permutations(Request)
=============================================================================
