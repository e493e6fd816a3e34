----------------------------- MODULE MCSeeding ------------------------------
(***************************************************************************)
(* Small instances of Seeding for TLC.                                     *)
(***************************************************************************)
EXTENDS MCKnowledgeBase, Seeding

\* The seed script's sample of a.
MCSeeds == <<MCOffer(a, u, "seed", "skipped")>>
MCSeeded == {MCOffer(a, t, "runtime", "skipped"), MCOffer(b, t, "runtime", "skipped"),
             MCOffer(a, u, "import", "strict"), MCSeeds[1]}
=============================================================================
