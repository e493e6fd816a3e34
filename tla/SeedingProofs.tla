---------------------------- MODULE SeedingProofs ----------------------------
(***************************************************************************)
(* Theorems about Seeding. The script changes the knowledge base by its    *)
(* own operations only, so that what KnowledgeProofs shows holds with the  *)
(* script as one more client. Its tally needs a stronger invariant: how    *)
(* far the save of the current seed has come, and that the seeds counted   *)
(* as saved are distinct ones that have been in the table.                 *)
(***************************************************************************)
EXTENDS Seeding, KnowledgeProofs

\* The seeds before the current one that have been in the table.
Counts == {n \in written : n < at}

\* The save that serves the current post: it passes the filters by, and if it
\* is going to return an id, its seed has been in the table.
Served ==
    post # NoRequest =>
        /\ post \in Request
        /\ at \in DOMAIN SEEDS
        /\ \/ pc[post] = "insert" /\ job[post] = SEEDS[at]
           \/ pc[post] = "saved" /\ (result[post] # NoId => at \in written)

Tally ==
    /\ at \in 0 .. Len(SEEDS) + 1
    /\ ok \in Nat
    /\ fail \in Nat
    /\ IF at = 0 THEN ok = 0 /\ fail = 0 ELSE ok + fail = at - 1
    /\ written \subseteq DOMAIN SEEDS
    /\ ok <= Cardinality(Counts)

-----------------------------------------------------------------------------
(* The script is a client of the knowledge base *)

LEMMA SeedsAreExamples == ASSUME NEW n \in DOMAIN SEEDS
                          PROVE  /\ SEEDS[n] \in Example
                                 /\ SEEDS[n].source = "seed"
                                 /\ SEEDS[n] # NoExample
  BY SeedingAssumption, KnowledgeAssumption

LEMMA SeedSteps == ASSUME [SeedNext]_seedVars, Served PROVE [Next]_vars
  <1>1. CASE SeedPost
    BY <1>1, SeedsAreExamples DEF SeedPost, Next
  <1>2. CASE SeedAnswered
    BY <1>2 DEF SeedAnswered, Served, Next
  <1>3. CASE SeedStart \/ SeedFails \/ SeedEnd \/ UNCHANGED seedVars
    BY <1>3 DEF SeedStart, SeedFails, SeedEnd, seedVars
  <1>4. CASE Agent
    BY <1>4 DEF Agent
  <1> QED  BY <1>1, <1>2, <1>3, <1>4 DEF SeedNext

-----------------------------------------------------------------------------
(* The save of the current seed *)

\* A step of another request leaves the one that serves the post alone.
LEMMA OthersStep ==
    ASSUME TypeOK, NEW r \in Request, RequestStep(r), NEW o \in Request \ {r}
    PROVE  pc'[o] = pc[o] /\ job'[o] = job[o] /\ result'[o] = result[o]
  <1> USE DEF TypeOK, Go, Saved
  <1>1. ASSUME NEW e \in Example, Offer(r, e)
        PROVE  pc'[o] = pc[o] /\ job'[o] = job[o] /\ result'[o] = result[o]
    BY <1>1 DEF Offer
  <1>2. ASSUME NEW q \in Query, Recall(r, q)
        PROVE  pc'[o] = pc[o] /\ job'[o] = job[o] /\ result'[o] = result[o]
    BY <1>2 DEF Recall
  <1>3. ASSUME Nearest(r) \/ SaveFails(r) \/ Return(r)
        PROVE  pc'[o] = pc[o] /\ job'[o] = job[o] /\ result'[o] = result[o]
    BY <1>3 DEF Nearest, SaveFails, Return
  <1>4. ASSUME CountHits(r) \/ RecallFails(r)
        PROVE  pc'[o] = pc[o] /\ job'[o] = job[o] /\ result'[o] = result[o]
    BY <1>4 DEF CountHits, RecallFails
  <1>5. ASSUME Bump(r)
        PROVE  pc'[o] = pc[o] /\ job'[o] = job[o] /\ result'[o] = result[o]
    BY <1>5 DEF Bump
  <1>6. ASSUME Insert(r)
        PROVE  pc'[o] = pc[o] /\ job'[o] = job[o] /\ result'[o] = result[o]
    BY <1>6 DEF Insert
  <1> QED  BY <1>1, <1>2, <1>3, <1>4, <1>5, <1>6 DEF RequestStep

\* The insertion of a seed puts it into the table if it returns an id.
LEMMA SeedInserted ==
    ASSUME TypeOK, Tally, at \in DOMAIN SEEDS, post \in Request,
           job[post] = SEEDS[at], Insert(post), Recorded
    PROVE  pc'[post] = "saved" /\ (result'[post] # NoId => at \in written')
  <1>1. pc'[post] = "saved"
    BY DEF Insert, Saved, Go, TypeOK
  <1>2. Table /\ SEEDS[at] \in Example
    BY SeedsAreExamples DEF TypeOK, Table
  <1>3. nextId \notin DOMAIN rows
    BY KnowledgeAssumption DEF TypeOK, Id, Insert
  <1>4. ASSUME NEW i \in DOMAIN rows', rows'[i].example.mysql = SEEDS[at].mysql
        PROVE  rows'[i].example = SEEDS[at]
    <2>1. rows' = Upsert(SEEDS[at])
      BY DEF Insert
    <2> QED  BY <1>2, <1>3, <1>4, <2>1, UpsertProperties
  <1>5. at # 0
    BY SeedingAssumption
  <1>6. written' = written \union {n \in DOMAIN SEEDS :
                        \E i \in DOMAIN rows' : rows'[i].example = SEEDS[n]}
    BY <1>5 DEF Recorded
  <1>7. CASE Saved(post, NoId)
    BY <1>1, <1>7 DEF Saved, TypeOK
  <1>8. CASE \E i \in DOMAIN rows' : rows'[i].example.mysql = job[post].mysql
    BY <1>1, <1>4, <1>6, <1>8
  <1> QED  BY <1>7, <1>8 DEF Insert

\* A step of the agent keeps the serving request on its way.
LEMMA AgentServes ==
    ASSUME TypeOK, Tally, Served, Agent
    PROVE  Served'
  <1> SUFFICES ASSUME post # NoRequest
               PROVE  Served'
    BY DEF Agent, script, Served
  <1>1. /\ post \in Request /\ at \in DOMAIN SEEDS
        /\ UNCHANGED <<at, post>> /\ pc'[post] # "idle"
        /\ Recorded
        /\ \/ pc[post] = "insert" /\ job[post] = SEEDS[at]
           \/ pc[post] = "saved" /\ (result[post] # NoId => at \in written)
    BY DEF Agent, script, Served
  <1>2. written \subseteq written'
    BY <1>1, SeedingAssumption DEF Recorded
  <1>3. ASSUME NEW id \in Id, Delete(id) PROVE Served'
    BY <1>1, <1>2, <1>3 DEF Delete, Served
  <1>4. ASSUME NEW r \in Request, RequestStep(r), r # post PROVE Served'
    BY <1>1, <1>2, <1>4, OthersStep DEF Served
  <1>5. ASSUME RequestStep(post) PROVE Served'
    <2>1. CASE Insert(post)
      <3>1. job[post] = SEEDS[at]
        BY <1>1, <2>1 DEF Insert
      <3> QED  BY <1>1, <2>1, <3>1, SeedInserted DEF Served
    <2>2. CASE SaveFails(post)
      BY <1>1, <2>2 DEF SaveFails, Saved, Go, Served, TypeOK
    <2>3. CASE Return(post)
      BY <1>1, <2>3 DEF Return, Go, TypeOK
    <2> QED
      BY <1>1, <1>5, <2>1, <2>2, <2>3
      DEF RequestStep, Offer, Nearest, Bump, Recall, CountHits, RecallFails
  <1> QED  BY <1>3, <1>4, <1>5 DEF Agent, Next, RequestStep

-----------------------------------------------------------------------------
(* The tally *)

\* Sets of seeds are finite, and a larger one has no fewer members.
LEMMA SeedSets ==
    ASSUME NEW S, NEW T, S \subseteq T, T \subseteq DOMAIN SEEDS
    PROVE  /\ IsFiniteSet(S)
           /\ Cardinality(S) \in Nat
           /\ Cardinality(S) <= Cardinality(T)
  <1>1. IsFiniteSet(DOMAIN SEEDS)
    <2>1. Len(SEEDS) \in Nat /\ DOMAIN SEEDS = 1 .. Len(SEEDS)
      BY SeedingAssumption
    <2> QED  BY <2>1, FS_Interval
  <1>2. IsFiniteSet(T)
    BY <1>1, FS_Subset
  <1> QED  BY <1>2, FS_Subset, FS_CardinalityType

\* While the position and the tally stay, more seeds may be written.
LEMMA TallyKept ==
    ASSUME Tally, UNCHANGED <<at, ok, fail>>, Recorded
    PROVE  Tally'
  <1>1. written' \subseteq DOMAIN SEEDS
    BY DEF Recorded, Tally
  <1>2. ok <= Cardinality(Counts')
    <2>1. CASE at = 0
      <3>1. Cardinality(Counts') \in Nat
        BY <1>1, SeedSets DEF Counts
      <3> QED  BY <2>1, <3>1 DEF Tally
    <2>2. CASE at # 0
      <3>1. Counts \subseteq Counts'
        BY <2>2 DEF Counts, Recorded
      <3>2. /\ Cardinality(Counts) <= Cardinality(Counts')
            /\ Cardinality(Counts) \in Nat /\ Cardinality(Counts') \in Nat
        <4>1. Counts' \subseteq DOMAIN SEEDS
          BY <1>1 DEF Counts
        <4> QED  BY <3>1, <4>1, SeedSets
      <3> QED  BY <3>2 DEF Tally
    <2> QED  BY <2>1, <2>2
  <1> QED  BY <1>1, <1>2 DEF Tally

\* A seed that an answer calls saved is one more that has been in the table.
LEMMA TallyAnswered ==
    ASSUME Tally, Served, SeedAnswered
    PROVE  Tally'
  <1>1. /\ at \in DOMAIN SEEDS /\ at' = at + 1
        /\ result[post] # NoId => at \in written
        /\ Recorded
    BY DEF SeedAnswered, Served
  <1>2. /\ at \in Nat /\ at # 0 /\ at <= Len(SEEDS) /\ Len(SEEDS) \in Nat
    BY <1>1, SeedingAssumption
  <1>3. written \subseteq written' /\ written' \subseteq DOMAIN SEEDS
    BY <1>1, <1>2 DEF Recorded, Tally
  <1>4. DOMAIN SEEDS \subseteq Nat
    BY SeedingAssumption
  <1>5. Counts \subseteq Counts'
    BY <1>1, <1>2, <1>3, <1>4 DEF Counts
  <1>6. /\ Cardinality(Counts) <= Cardinality(Counts')
        /\ Cardinality(Counts) \in Nat /\ Cardinality(Counts') \in Nat
        /\ IsFiniteSet(Counts)
    <2>1. Counts' \subseteq DOMAIN SEEDS
      BY <1>3 DEF Counts
    <2> QED  BY <1>5, <2>1, SeedSets
  <1>7. CASE result[post] # NoId
    <2>1. at \notin Counts
      BY <1>2 DEF Counts
    <2>2. Counts \union {at} \subseteq Counts' /\ Counts' \subseteq DOMAIN SEEDS
      BY <1>1, <1>2, <1>3, <1>5, <1>7 DEF Counts
    <2>3. Cardinality(Counts \union {at}) = Cardinality(Counts) + 1
      BY <1>6, <2>1, FS_AddElement
    <2>4. Cardinality(Counts) + 1 <= Cardinality(Counts')
      BY <2>2, <2>3, SeedSets
    <2>5. ok' = ok + 1 /\ fail' = fail
      BY <1>7 DEF SeedAnswered
    <2>6. ok' <= Cardinality(Counts')
      BY <1>6, <2>4, <2>5 DEF Tally
    <2> QED  BY <1>1, <1>2, <1>3, <2>5, <2>6 DEF Tally
  <1>8. CASE result[post] = NoId
    <2>1. fail' = fail + 1 /\ ok' = ok
      BY <1>8 DEF SeedAnswered
    <2>2. ok' <= Cardinality(Counts')
      BY <1>6, <2>1 DEF Tally
    <2> QED  BY <1>1, <1>2, <1>3, <2>1, <2>2 DEF Tally
  <1> QED  BY <1>7, <1>8

\* A post that fails counts as failed, whatever becomes of its save.
LEMMA TallyFails ==
    ASSUME Tally, SeedFails
    PROVE  Tally'
  <1>1. /\ at \in Nat /\ at # 0 /\ at <= Len(SEEDS) /\ Len(SEEDS) \in Nat
        /\ DOMAIN SEEDS \subseteq Nat
    BY SeedingAssumption DEF SeedFails
  <1>2. Counts \subseteq Counts' /\ Counts' \subseteq DOMAIN SEEDS
    BY <1>1 DEF Counts, SeedFails, Tally
  <1>3. /\ Cardinality(Counts) <= Cardinality(Counts')
        /\ Cardinality(Counts) \in Nat /\ Cardinality(Counts') \in Nat
    BY <1>2, SeedSets
  <1>4. ok <= Cardinality(Counts')
    BY <1>3 DEF Tally
  <1> QED  BY <1>1, <1>4 DEF Tally, SeedFails

LEMMA SeedInvariance == SeedSpec => [](TypeOK /\ Tally /\ Served)
  <1>1. SeedInit => TypeOK /\ Tally /\ Served
    <2> SUFFICES ASSUME SeedInit PROVE TypeOK /\ Tally /\ Served
      OBVIOUS
    <2>1. TypeOK
      BY KnowledgeAssumption DEF SeedInit, Init, TypeOK, Id
    <2>2. Counts = {}
      BY DEF SeedInit, Counts
    <2>3. Len(SEEDS) \in Nat /\ Cardinality({}) = 0
      BY SeedingAssumption, FS_EmptySet
    <2> QED  BY <2>1, <2>2, <2>3 DEF SeedInit, Tally, Served
  <1>2. TypeOK /\ Tally /\ Served /\ [SeedNext]_seedVars => (TypeOK /\ Tally /\ Served)'
    <2> SUFFICES ASSUME TypeOK, Tally, Served, [SeedNext]_seedVars
                 PROVE  TypeOK' /\ Tally' /\ Served'
      OBVIOUS
    <2>1. TypeOK'
      BY SeedSteps, TableTyped
    <2>2. CASE UNCHANGED seedVars
      BY <2>1, <2>2 DEF seedVars, script, vars, Tally, Served, Counts
    <2>3. CASE SeedStart
      <3>1. Len(SEEDS) \in Nat /\ DOMAIN SEEDS \subseteq Nat
        BY SeedingAssumption
      <3>2. Cardinality(Counts') \in Nat
        BY <2>3, SeedSets DEF SeedStart, Counts, Tally
      <3>3. Tally'
        BY <2>3, <3>1, <3>2 DEF SeedStart, Tally
      <3>4. post = NoRequest
        BY <2>3, <3>1, SeedingAssumption DEF SeedStart, Served
      <3> QED  BY <2>1, <2>3, <3>3, <3>4 DEF SeedStart, Served
    <2>4. CASE SeedPost
      <3>1. Tally'
        BY <2>4, TallyKept DEF SeedPost
      <3>2. Served'
        <4>1. PICK r \in Request : Offer(r, SEEDS[at]) /\ post' = r
          BY <2>4 DEF SeedPost
        <4>2. at \in DOMAIN SEEDS /\ at' = at /\ SEEDS[at].source \in Curated
          BY <2>4, SeedsAreExamples DEF SeedPost, Curated
        <4>3. pc'[r] = "insert" /\ job'[r] = SEEDS[at]
          BY <4>1, <4>2 DEF Offer, Go, TypeOK
        <4> QED  BY <4>1, <4>2, <4>3 DEF Served
      <3> QED  BY <2>1, <3>1, <3>2
    <2>5. CASE SeedAnswered
      BY <2>1, <2>5, TallyAnswered DEF SeedAnswered, Served
    <2>6. CASE SeedFails
      BY <2>1, <2>6, TallyFails DEF SeedFails, Served
    <2>7. CASE SeedEnd
      <3>1. Len(SEEDS) \in Nat /\ Cardinality({}) = 0
        BY SeedingAssumption, FS_EmptySet
      <3>2. Counts' = {}
        BY <2>7 DEF SeedEnd, Counts
      <3>3. at \notin DOMAIN SEEDS
        BY <2>7, <3>1, SeedingAssumption DEF SeedEnd
      <3> QED  BY <2>1, <2>7, <3>1, <3>2, <3>3 DEF SeedEnd, Tally, Served
    <2>8. CASE Agent
      BY <2>1, <2>8, AgentServes, TallyKept DEF Agent, script
    <2> QED  BY <2>2, <2>3, <2>4, <2>5, <2>6, <2>7, <2>8 DEF SeedNext
  <1> QED  BY <1>1, <1>2, PTL DEF SeedSpec

\* Whatever the script does and whenever it gives up, it changes the knowledge
\* base as any client does.
THEOREM SeedingIsKnowledgeBase == SeedSpec => Spec
  <1>1. SeedInit => Init
    BY DEF SeedInit
  <1>2. Served /\ [SeedNext]_seedVars => [Next]_vars
    BY SeedSteps
  <1> QED  BY <1>1, <1>2, SeedInvariance, PTL DEF SeedSpec, Spec

\* Seeding gives no statement two rows and no row another statement, however
\* often the script is run and whoever saves meanwhile: running it again
\* replaces what it wrote before.
THEOREM SeedingKeepsRows == SeedSpec => []OneRowPerQuery /\ RowKeepsIdentity
  BY SeedingIsKnowledgeBase, OneRowCorrect, IdentityCorrect, PTL

\* What the script does to the table its clients see as puts and drops of whole
\* examples.
THEOREM SeedingUsesStore == SeedSpec => ImplementsStore
  BY SeedingIsKnowledgeBase, ImplementsStoreProved, PTL

\* For any seeds and any number of concurrent requests of other clients, the
\* script's tally never claims more seeds than have been in the table.
THEOREM SeedingCorrect == SeedSpec => []SeededIsStored
  <1>1. Tally => SeededIsStored
    <2> SUFFICES ASSUME Tally PROVE SeededIsStored
      OBVIOUS
    <2>1. Counts \subseteq written
      BY DEF Counts
    <2>2. /\ Cardinality(Counts) <= Cardinality(written)
          /\ Cardinality(Counts) \in Nat /\ Cardinality(written) \in Nat
      BY <2>1, SeedSets DEF Tally
    <2>3. ok <= Cardinality(written)
      BY <2>2 DEF Tally
    <2> QED  BY <2>3 DEF Tally, SeededIsStored
  <1> QED  BY <1>1, SeedInvariance, PTL
=============================================================================
