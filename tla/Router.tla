------------------------------- MODULE Router -------------------------------
(***************************************************************************)
(* The routing decision of proxy/internal/router: a whitelist of tables    *)
(* decides whether a statement runs on MySQL or on Redshift.               *)
(***************************************************************************)

CONSTANTS Table,        \* table names, lower-cased and without their schema
          Whitelist     \* the tables served from Redshift (TABLE_WHITELIST)

ASSUME WhitelistAssumption == Whitelist \subseteq Table

Destination == {"redshift", "mysql"}

\* Router.Route on what ExtractTables found: whether the statement parses and
\* which tables it names. No whitelist, a statement that does not parse and a
\* statement without tables all stay on Redshift.
Route(parses, tables) ==
    IF /\ Whitelist # {}
       /\ parses
       /\ ~(tables \subseteq Whitelist)
    THEN "mysql"
    ELSE "redshift"
=============================================================================
