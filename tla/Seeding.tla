------------------------------ MODULE Seeding -------------------------------
(***************************************************************************)
(* scripts/seed_knowledge.py next to the other clients of the knowledge    *)
(* base: it posts one seed after the other to /save_example, believes what *)
(* the answer says and gives up on an answer after 30 s, while the agent   *)
(* goes on with the save.                                                  *)
(***************************************************************************)
EXTENDS KnowledgeBase, Sequences

CONSTANTS SEEDS,        \* the seeds, as examples
          NoRequest     \* the script waits for no answer

ASSUME SeedingAssumption ==
    /\ SEEDS \in Seq({e \in Example : e.source = "seed"})
    /\ NoRequest \notin Request

VARIABLES at,       \* the seed the script has come to, or 0 if it does not run
          ok,       \* seeds it counts as saved
          fail,     \* seeds it counts as failed
          post,     \* the request that serves its post, or NoRequest
          written   \* seeds that have been in the table since it started (history)

script == <<at, ok, fail, post>>
seedVars == <<vars, script, written>>

SeedInit ==
    /\ Init
    /\ at = 0
    /\ ok = 0
    /\ fail = 0
    /\ post = NoRequest
    /\ written = {}

\* The script is started, for the first time or again.
SeedStart ==
    /\ at = 0
    /\ at' = 1
    /\ UNCHANGED <<vars, ok, fail, post, written>>

\* Every step of the agent records the seeds the table holds.
Recorded ==
    written' = IF at = 0 THEN {}
               ELSE written \union
                    {n \in DOMAIN SEEDS : \E i \in DOMAIN rows' :
                        rows'[i].example = SEEDS[n]}

\* The post arrives at the agent.
SeedPost ==
    /\ at \in DOMAIN SEEDS
    /\ post = NoRequest
    /\ \E r \in Request : Offer(r, SEEDS[at]) /\ post' = r
    /\ Recorded
    /\ UNCHANGED <<at, ok, fail>>

\* The answer: save_example_endpoint says ok if there is an id.
SeedAnswered ==
    /\ post # NoRequest
    /\ pc[post] = "saved"
    /\ Return(post)
    /\ IF result[post] # NoId
       THEN ok' = ok + 1 /\ UNCHANGED fail
       ELSE fail' = fail + 1 /\ UNCHANGED ok
    /\ at' = at + 1
    /\ post' = NoRequest
    /\ Recorded

\* The post does not get through, or its answer does not come in time.
SeedFails ==
    /\ at \in DOMAIN SEEDS
    /\ fail' = fail + 1
    /\ at' = at + 1
    /\ post' = NoRequest
    /\ UNCHANGED <<vars, ok, written>>

\* The totals are printed and the process ends.
SeedEnd ==
    /\ at = Len(SEEDS) + 1
    /\ at' = 0
    /\ ok' = 0
    /\ fail' = 0
    /\ written' = {}
    /\ UNCHANGED <<vars, post>>

\* The agent's own steps, and those of other clients.
Agent ==
    /\ Next
    /\ post # NoRequest => pc'[post] # "idle"
    /\ Recorded
    /\ UNCHANGED script

SeedNext ==
    \/ SeedStart \/ SeedPost \/ SeedAnswered \/ SeedFails \/ SeedEnd
    \/ Agent

SeedSpec == SeedInit /\ [][SeedNext]_seedVars

-----------------------------------------------------------------------------
(* What the script reports *)

\* The script's tally is right: it accounts for every seed it has been
\* through, and there are at least as many seeds written as it counts. A save
\* that an answer calls successful has put that very translation into the
\* table, whatever near duplicates other clients have saved meanwhile and
\* whoever has replaced or deleted the row since.
SeededIsStored ==
    /\ at > 0 => ok + fail = at - 1
    /\ ok <= Cardinality(written)
=============================================================================
