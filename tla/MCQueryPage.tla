---------------------------- MODULE MCQueryPage -----------------------------
(***************************************************************************)
(* Small instances of QueryPage for TLC.                                   *)
(***************************************************************************)
EXTENDS MCProxy, QueryPage

\* Queries and explanations through the proxy, and one of MySQL's and of
\* Redshift's own.
MCRequests ==
    LET first == [shape |-> m1, lit |-> 1]
    IN  [api : {"query"}, source : {"proxy"}, query : Query]
        \union {[api |-> "explain", source |-> "proxy", query |-> first],
                [api |-> "query", source |-> "mysql", query |-> first],
                [api |-> "explain", source |-> "redshift", query |-> first]}
=============================================================================
