---------------------------- MODULE ExampleStore ----------------------------
(***************************************************************************)
(* What the knowledge base promises its clients, without ids, hit counts,  *)
(* embeddings and concurrent requests: for each statement at most one      *)
(* example, which is put there as a whole, replaces the one before it, and *)
(* stays until it is replaced or dropped.                                  *)
(***************************************************************************)

CONSTANT Example        \* records with a field mysql

VARIABLE known          \* the stored examples

Init == known = {}

Put(e) == known' = {x \in known : x.mysql # e.mysql} \union {e}

Drop(e) ==
    /\ e \in known
    /\ known' = known \ {e}

Next == \E e \in Example : Put(e) \/ Drop(e)

Spec == Init /\ [][Next]_known
=============================================================================
