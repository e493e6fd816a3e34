--------------------------- MODULE KnowledgeProofs ---------------------------
(***************************************************************************)
(* Theorems about KnowledgeBase. TypeOK, whose last conjuncts tie a        *)
(* request's place to what it holds, is inductive; OneRowPerQuery is       *)
(* inductive relative to it, because the upsert is the only statement that *)
(* adds a row or changes a text. What each table operation does to a row   *)
(* and to the set of stored examples is a lemma of its own.                *)
(***************************************************************************)
EXTENDS KnowledgeBase, FiniteSetTheorems, TLAPS

Table == /\ DOMAIN rows \subseteq Id
         /\ \A i \in DOMAIN rows : rows[i] \in [example : Example, hits : 0 .. MaxHits]

RequestStep(r) ==
    \/ \E e \in Example : Offer(r, e)
    \/ Nearest(r) \/ Bump(r) \/ Insert(r) \/ SaveFails(r) \/ Return(r)
    \/ \E q \in Query : Recall(r, q)
    \/ CountHits(r) \/ RecallFails(r)

-----------------------------------------------------------------------------
(* The table *)

\* Counting hits keeps every row, its text and its type.
LEMMA CountedProperties ==
    ASSUME Table, NEW ids
    PROVE  /\ DOMAIN Counted(ids) = DOMAIN rows
           /\ \A i \in DOMAIN rows :
                /\ Counted(ids)[i] \in [example : Example, hits : 0 .. MaxHits]
                /\ Counted(ids)[i].example = rows[i].example
                /\ Counted(ids)[i].hits >= rows[i].hits
  <1> SUFFICES ASSUME NEW i \in DOMAIN rows
               PROVE  /\ Counted(ids)[i] \in [example : Example, hits : 0 .. MaxHits]
                      /\ Counted(ids)[i].example = rows[i].example
                      /\ Counted(ids)[i].hits >= rows[i].hits
    BY DEF Counted
  <1>1. /\ rows[i] \in [example : Example, hits : 0 .. MaxHits]
        /\ MaxHits \in Nat
    BY KnowledgeAssumption DEF Table
  <1>2. CASE i \in ids /\ rows[i].hits < MaxHits
    <2>1. Counted(ids)[i] = [rows[i] EXCEPT !.hits = @ + 1]
      BY <1>2 DEF Counted
    <2> QED  BY <1>1, <1>2, <2>1
  <1>3. CASE ~(i \in ids /\ rows[i].hits < MaxHits)
    BY <1>1, <1>3 DEF Counted
  <1> QED  BY <1>2, <1>3

\* What the upsert leaves at each id.
LEMMA UpsertProperties ==
    ASSUME Table, nextId \notin DOMAIN rows, NEW e \in Example
    PROVE  /\ DOMAIN rows \subseteq DOMAIN Upsert(e)
           /\ DOMAIN Upsert(e) \subseteq DOMAIN rows \union {nextId}
           /\ \A i \in DOMAIN Upsert(e) :
                /\ Upsert(e)[i] \in [example : Example, hits : 0 .. MaxHits]
                /\ i \notin DOMAIN rows =>
                     /\ Upsert(e)[i].example = e
                     /\ \A j \in DOMAIN rows : rows[j].example.mysql # e.mysql
                /\ i \in DOMAIN rows =>
                     /\ Upsert(e)[i].hits = rows[i].hits
                     /\ rows[i].example.mysql = e.mysql => Upsert(e)[i].example = e
                     /\ rows[i].example.mysql # e.mysql =>
                            Upsert(e)[i].example = rows[i].example
           /\ \E i \in DOMAIN Upsert(e) : Upsert(e)[i].example = e
  <1>1. /\ DOMAIN rows \subseteq DOMAIN Upsert(e)
        /\ DOMAIN Upsert(e) \subseteq DOMAIN rows \union {nextId}
    BY DEF Upsert
  <1>2. ASSUME NEW i \in DOMAIN Upsert(e)
        PROVE  /\ Upsert(e)[i] \in [example : Example, hits : 0 .. MaxHits]
               /\ i \notin DOMAIN rows =>
                     /\ Upsert(e)[i].example = e
                     /\ \A j \in DOMAIN rows : rows[j].example.mysql # e.mysql
               /\ i \in DOMAIN rows =>
                     /\ Upsert(e)[i].hits = rows[i].hits
                     /\ rows[i].example.mysql = e.mysql => Upsert(e)[i].example = e
                     /\ rows[i].example.mysql # e.mysql =>
                            Upsert(e)[i].example = rows[i].example
    <2>1. CASE i \notin DOMAIN rows
      <3>1. /\ Upsert(e)[i] = [example |-> e, hits |-> 0]
            /\ \A j \in DOMAIN rows : rows[j].example.mysql # e.mysql
        BY <2>1 DEF Upsert
      <3>2. 0 \in 0 .. MaxHits
        BY KnowledgeAssumption
      <3> QED  BY <2>1, <3>1, <3>2
    <2>2. CASE i \in DOMAIN rows
      <3>1. rows[i] \in [example : Example, hits : 0 .. MaxHits]
        BY <2>2 DEF Table
      <3>2. Upsert(e)[i] = IF rows[i].example.mysql = e.mysql
                           THEN [rows[i] EXCEPT !.example = e] ELSE rows[i]
        BY <2>2 DEF Upsert
      <3> QED  BY <2>2, <3>1, <3>2
    <2> QED  BY <2>1, <2>2
  <1>3. \E i \in DOMAIN Upsert(e) : Upsert(e)[i].example = e
    <2>1. CASE \E j \in DOMAIN rows : rows[j].example.mysql = e.mysql
      BY <1>1, <1>2, <2>1
    <2>2. CASE \A j \in DOMAIN rows : rows[j].example.mysql # e.mysql
      <3>1. nextId \in DOMAIN Upsert(e)
        BY <2>2 DEF Upsert
      <3> QED  BY <1>2, <2>2, <3>1
    <2> QED  BY <2>1, <2>2
  <1> QED  BY <1>1, <1>2, <1>3

\* Rows found by a search are rows.
LEMMA ClosestAreRows ==
    ASSUME NEW q, NEW k, NEW near \in Closest(q, k)
    PROVE  near \subseteq DOMAIN rows
  BY DEF Closest

-----------------------------------------------------------------------------
(* The invariant *)

\* The steps of a request keep the types.
LEMMA RequestTyped ==
    ASSUME TypeOK, NEW r \in Request, RequestStep(r)
    PROVE  TypeOK'
  <1> USE DEF TypeOK, Saved, Go
  <1>1. Table
    BY DEF Table
  <1>2. ASSUME NEW e \in Example, Offer(r, e)
        PROVE  TypeOK'
    <2>1. e # NoExample
      BY KnowledgeAssumption
    <2> QED  BY <1>2, <2>1 DEF Offer
  <1>3. ASSUME Nearest(r)
        PROVE  TypeOK'
    <2>1. PICK near \in Closest(job[r].mysql, 1) :
              IF \E i \in near : FarFrom(job[r].mysql, i) <= DedupDistance
              THEN Go(r, "bump") /\ found' = [found EXCEPT ![r] = near]
              ELSE Go(r, "insert") /\ UNCHANGED found
      BY <1>3 DEF Nearest
    <2>2. near \subseteq Id
      BY <2>1, ClosestAreRows
    <2>3. /\ pc[r] = "nearest"
          /\ UNCHANGED <<rows, nextId, job, result, recalled>>
      BY <1>3 DEF Nearest
    <2>4. CASE \E i \in near : FarFrom(job[r].mysql, i) <= DedupDistance
      BY <2>1, <2>2, <2>3, <2>4
    <2>5. CASE ~\E i \in near : FarFrom(job[r].mysql, i) <= DedupDistance
      BY <2>1, <2>3, <2>5
    <2> QED  BY <2>4, <2>5
  <1>4. ASSUME Bump(r)
        PROVE  TypeOK'
    <2>1. /\ DOMAIN rows' = DOMAIN rows
          /\ \A i \in DOMAIN rows' :
                rows'[i] \in [example : Example, hits : 0 .. MaxHits]
      BY <1>1, <1>4, CountedProperties DEF Bump
    <2> QED  BY <1>4, <2>1 DEF Bump
  <1>5. ASSUME Insert(r)
        PROVE  TypeOK'
    <2>1. /\ job[r] \in Example
          /\ nextId \in Id
      BY <1>5, KnowledgeAssumption DEF Insert, Id
    <2>2. nextId \notin DOMAIN rows
      BY <2>1 DEF Id
    <2>3. /\ DOMAIN rows' \subseteq DOMAIN rows \union {nextId}
          /\ \A i \in DOMAIN rows' :
                rows'[i] \in [example : Example, hits : 0 .. MaxHits]
      BY <1>1, <1>5, <2>1, <2>2, UpsertProperties DEF Insert
    <2>4. /\ nextId' = nextId + 1
          /\ nextId' \in 1 .. MaxId + 1
          /\ DOMAIN rows' \subseteq Id
          /\ \A i \in DOMAIN rows' : i < nextId'
      <3>1. nextId' = nextId + 1
        BY <1>5 DEF Insert
      <3>2. \A i \in DOMAIN rows : i < nextId
        OBVIOUS
      <3> HIDE DEF TypeOK, Saved
      <3> QED  BY <2>1, <2>3, <3>1, <3>2, <1>1, KnowledgeAssumption DEF Id, Table
    <2>5. PICK i \in Id \union {NoId} : Saved(r, i)
      BY <1>5, <2>4 DEF Insert
    <2>6. pc[r] = "insert"
      BY <1>5 DEF Insert
    <2> QED  BY <2>3, <2>4, <2>5, <2>6
  <1>6. ASSUME SaveFails(r)
        PROVE  TypeOK'
    BY <1>6 DEF SaveFails
  <1>7. ASSUME NEW q \in Query, Recall(r, q)
        PROVE  TypeOK'
    <2>1. PICK near \in Closest(q, TopK) :
            LET hits == {i \in near : FarFrom(q, i) <= RecallDistance}
            IN  /\ found' = [found EXCEPT ![r] = hits]
                /\ recalled' = [recalled EXCEPT ![r] = {rows[i].example : i \in hits}]
                /\ Go(r, IF hits = {} THEN "idle" ELSE "count")
      BY <1>7 DEF Recall
    <2> DEFINE hits == {i \in near : FarFrom(q, i) <= RecallDistance}
    <2>2. hits \subseteq DOMAIN rows
      BY <2>1, ClosestAreRows
    <2>3. {rows[i].example : i \in hits} \subseteq Example
      BY <2>2
    <2>4. /\ pc[r] = "idle"
          /\ UNCHANGED <<rows, nextId, job, result>>
      BY <1>7 DEF Recall
    <2>5. /\ found' = [found EXCEPT ![r] = hits]
          /\ recalled' = [recalled EXCEPT ![r] = {rows[i].example : i \in hits}]
          /\ pc' = [pc EXCEPT ![r] = IF hits = {} THEN "idle" ELSE "count"]
      BY <2>1
    <2> HIDE DEF hits
    <2>6. recalled' \in [Request -> SUBSET Example]
      BY <2>3, <2>5
    <2>7. found' \in [Request -> SUBSET Id]
      BY <2>2, <2>5
    <2>8. CASE hits = {}
      BY <2>4, <2>5, <2>6, <2>7, <2>8
    <2>9. CASE hits # {}
      BY <2>4, <2>5, <2>6, <2>7, <2>9
    <2> QED  BY <2>8, <2>9
  <1>8. ASSUME CountHits(r)
        PROVE  TypeOK'
    <2>1. /\ DOMAIN rows' = DOMAIN rows
          /\ \A i \in DOMAIN rows' :
                rows'[i] \in [example : Example, hits : 0 .. MaxHits]
      BY <1>1, <1>8, CountedProperties DEF CountHits
    <2> QED  BY <1>8, <2>1 DEF CountHits
  <1>9. ASSUME RecallFails(r)
        PROVE  TypeOK'
    BY <1>9 DEF RecallFails
  <1>10. ASSUME Return(r)
         PROVE  TypeOK'
    BY <1>10 DEF Return
  <1> QED  BY <1>2, <1>3, <1>4, <1>5, <1>6, <1>7, <1>8, <1>9, <1>10 DEF RequestStep

\* What a step does to the table: nothing, hits, an upsert or a deletion.
LEMMA TableSteps ==
    ASSUME TypeOK, [Next]_vars
    PROVE  \/ UNCHANGED <<rows, nextId>>
           \/ UNCHANGED nextId /\ \E ids : rows' = Counted(ids)
           \/ \E e \in Example :
                nextId \notin DOMAIN rows /\ rows' = Upsert(e) /\ nextId' = nextId + 1
           \/ \E id \in DOMAIN rows :
                UNCHANGED nextId /\ rows' = [i \in DOMAIN rows \ {id} |-> rows[i]]
  <1>1. CASE UNCHANGED vars
    BY <1>1 DEF vars
  <1>2. CASE \E id \in Id : Delete(id)
    BY <1>2 DEF Delete
  <1>3. ASSUME NEW r \in Request, Insert(r)
        PROVE  \E e \in Example :
                nextId \notin DOMAIN rows /\ rows' = Upsert(e) /\ nextId' = nextId + 1
    <2>1. job[r] \in Example /\ nextId \in Nat
      BY <1>3, KnowledgeAssumption DEF Insert, TypeOK
    <2>2. nextId \notin DOMAIN rows
      BY <2>1 DEF TypeOK, Id
    <2> QED  BY <1>3, <2>1, <2>2 DEF Insert
  <1>4. ASSUME NEW r \in Request,
               \/ \E e \in Example : Offer(r, e)
               \/ \E q \in Query : Recall(r, q)
               \/ Nearest(r) \/ SaveFails(r) \/ Return(r) \/ RecallFails(r)
        PROVE  UNCHANGED <<rows, nextId>>
    BY <1>4 DEF Offer, Recall, Nearest, SaveFails, Return, RecallFails
  <1>5. ASSUME NEW r \in Request, Bump(r) \/ CountHits(r)
        PROVE  UNCHANGED nextId /\ \E ids : rows' = Counted(ids)
    BY <1>5 DEF Bump, CountHits
  <1> QED  BY <1>1, <1>2, <1>3, <1>4, <1>5 DEF Next

\* Every step keeps the types.
LEMMA TableTyped == TypeOK /\ [Next]_vars => TypeOK'
  <1> SUFFICES ASSUME TypeOK, [Next]_vars PROVE TypeOK'
    OBVIOUS
  <1>1. CASE UNCHANGED vars
    BY <1>1 DEF vars, TypeOK
  <1>2. ASSUME NEW id \in Id, Delete(id) PROVE TypeOK'
    BY <1>2 DEF Delete, TypeOK
  <1>3. ASSUME NEW r \in Request, RequestStep(r) PROVE TypeOK'
    BY <1>3, RequestTyped
  <1> QED  BY <1>1, <1>2, <1>3 DEF Next, RequestStep

\* For any number of concurrent requests and any table, every reachable state
\* is well typed: ids come from the sequence, and a request holds exactly what
\* its next statement needs.
THEOREM TypeCorrect == Spec => []TypeOK
  <1>1. Init => TypeOK
    BY KnowledgeAssumption DEF Init, TypeOK, Id
  <1>2. TypeOK /\ [Next]_vars => TypeOK'
    BY TableTyped
  <1> QED  BY <1>1, <1>2, PTL DEF Spec

\* No interleaving of saves, recalls and deletions gives a statement two rows.
THEOREM OneRowCorrect == Spec => []OneRowPerQuery
  <1>1. Init => OneRowPerQuery
    BY DEF Init, OneRowPerQuery
  <1>2. TypeOK /\ OneRowPerQuery /\ [Next]_vars => OneRowPerQuery'
    <2> SUFFICES ASSUME TypeOK, OneRowPerQuery, [Next]_vars
                 PROVE  OneRowPerQuery'
      OBVIOUS
    <2>1. Table
      BY DEF TypeOK, Table
    <2>2. CASE UNCHANGED <<rows, nextId>>
      BY <2>2 DEF OneRowPerQuery
    <2>3. ASSUME NEW ids, rows' = Counted(ids) PROVE OneRowPerQuery'
      BY <2>1, <2>3, CountedProperties DEF OneRowPerQuery
    <2>4. ASSUME NEW e \in Example, nextId \notin DOMAIN rows, rows' = Upsert(e)
          PROVE  OneRowPerQuery'
      <3> SUFFICES ASSUME NEW i \in DOMAIN rows', NEW j \in DOMAIN rows',
                          rows'[i].example.mysql = rows'[j].example.mysql
                   PROVE  i = j
        BY DEF OneRowPerQuery
      <3>1. /\ DOMAIN rows' \subseteq DOMAIN rows \union {nextId}
            /\ \A k \in DOMAIN rows' :
                  /\ k \notin DOMAIN rows =>
                       /\ rows'[k].example = e
                       /\ \A l \in DOMAIN rows : rows[l].example.mysql # e.mysql
                  /\ k \in DOMAIN rows =>
                       rows'[k].example.mysql = rows[k].example.mysql
        BY <2>1, <2>4, UpsertProperties
      <3>2. CASE i \in DOMAIN rows /\ j \in DOMAIN rows
        BY <3>1, <3>2 DEF OneRowPerQuery
      <3>3. CASE i \notin DOMAIN rows /\ j \notin DOMAIN rows
        BY <3>1, <3>3
      <3>4. CASE ~(i \in DOMAIN rows <=> j \in DOMAIN rows)
        BY <3>1, <3>4
      <3> QED  BY <3>2, <3>3, <3>4
    <2>5. ASSUME NEW id \in DOMAIN rows,
                 rows' = [i \in DOMAIN rows \ {id} |-> rows[i]]
          PROVE  OneRowPerQuery'
      BY <2>5 DEF OneRowPerQuery
    <2> QED  BY <2>2, <2>3, <2>4, <2>5, TableSteps
  <1> QED  BY <1>1, <1>2, TypeCorrect, PTL DEF Spec

\* Every step keeps what an id stands for, and gives new rows new ids.
THEOREM IdentityCorrect == Spec => RowKeepsIdentity
  <1> DEFINE Kept ==
        /\ \A i \in DOMAIN rows \intersect DOMAIN rows' :
            /\ rows'[i].example.mysql = rows[i].example.mysql
            /\ rows'[i].hits >= rows[i].hits
        /\ \A i \in DOMAIN rows' \ DOMAIN rows : i >= nextId
  <1>1. TypeOK /\ [Next]_vars => Kept
    <2> SUFFICES ASSUME TypeOK, [Next]_vars PROVE Kept
      OBVIOUS
    <2>1. Table
      BY DEF TypeOK, Table
    <2>2. /\ nextId \in Nat
          /\ \A i \in DOMAIN rows : rows[i].hits >= rows[i].hits
      BY <2>1, KnowledgeAssumption DEF TypeOK, Table
    <2>3. CASE UNCHANGED <<rows, nextId>>
      BY <2>2, <2>3
    <2>4. ASSUME NEW ids, rows' = Counted(ids) PROVE Kept
      BY <2>1, <2>4, CountedProperties
    <2>5. ASSUME NEW e \in Example, nextId \notin DOMAIN rows, rows' = Upsert(e) PROVE Kept
      <3>1. /\ DOMAIN rows' \subseteq DOMAIN rows \union {nextId}
            /\ \A k \in DOMAIN rows \intersect DOMAIN rows' :
                  /\ rows'[k].hits = rows[k].hits
                  /\ rows'[k].example.mysql = rows[k].example.mysql
        BY <2>1, <2>5, UpsertProperties
      <3> QED  BY <2>2, <3>1
    <2>6. ASSUME NEW id \in DOMAIN rows,
                 rows' = [i \in DOMAIN rows \ {id} |-> rows[i]]
          PROVE  Kept
      BY <2>2, <2>6
    <2> QED  BY <2>3, <2>4, <2>5, <2>6, TableSteps
  <1>2. TypeOK /\ [Next]_vars => [Kept]_vars
    BY <1>1
  <1> QED  BY <1>2, TypeCorrect, PTL DEF Spec, RowKeepsIdentity

-----------------------------------------------------------------------------
(* The near-duplicate filter *)

\* What a runtime save about to insert has found out.
Checked ==
    \A r \in Request :
        pc[r] = "insert" /\ job[r].source = "runtime" =>
            \A i \in DOMAIN rows : FarFrom(job[r].mysql, i) > DedupDistance

\* The one closest row of a table that has rows.
LEMMA ClosestExists ==
    ASSUME Table, NEW q, NEW near \in Closest(q, 1), DOMAIN rows # {}
    PROVE  near # {}
  <1> DEFINE n == Cardinality(DOMAIN rows)
  <1>1. IsFiniteSet(DOMAIN rows)
    <2>1. IsFiniteSet(1 .. MaxId)
      BY FS_Interval, KnowledgeAssumption
    <2> QED  BY <2>1, FS_Subset DEF Table, Id
  <1>2. n \in Nat /\ n # 0
    BY <1>1, FS_CardinalityType, FS_EmptySet
  <1>3. Cardinality(near) = Min({1, n})
    BY DEF Closest
  <1> HIDE DEF n
  <1>4. Min({1, n}) = 1
    <2>1. \A x \in {1, n} : 1 <= x
      BY <1>2
    <2>2. \A x \in {1, n} : (\A y \in {1, n} : x <= y) => x = 1
      BY <1>2
    <2> QED  BY <2>1, <2>2 DEF Min
  <1> QED  BY <1>3, <1>4, FS_EmptySet

\* A search that finds nothing near leaves no near row at all.
LEMMA NothingNear ==
    ASSUME Table, NEW q \in Query, NEW near \in Closest(q, 1),
           \A i \in near : ~(FarFrom(q, i) <= DedupDistance)
    PROVE  \A i \in DOMAIN rows : FarFrom(q, i) > DedupDistance
  <1> SUFFICES ASSUME NEW i \in DOMAIN rows
               PROVE  FarFrom(q, i) > DedupDistance
    OBVIOUS
  <1>1. \A j \in DOMAIN rows : FarFrom(q, j) \in Nat
    BY KnowledgeAssumption DEF FarFrom, Table
  <1>2. PICK j \in near : TRUE
    BY ClosestExists
  <1>3. j \in DOMAIN rows /\ FarFrom(q, j) > DedupDistance
    BY <1>1, <1>2, ClosestAreRows, KnowledgeAssumption
  <1>4. i \in near \/ FarFrom(q, j) <= FarFrom(q, i)
    BY <1>2 DEF Closest
  <1> QED  BY <1>1, <1>2, <1>3, <1>4, KnowledgeAssumption

\* With one request at a time, what it found out stays true until it inserts.
LEMMA CheckedSteps ==
    ASSUME TypeOK, Checked, [Next]_vars,
           \A r, o \in Request : r = o
    PROVE  Checked'
  <1>1. Table
    BY DEF TypeOK, Table
  <1>2. CASE UNCHANGED vars
    BY <1>2 DEF vars, Checked, FarFrom
  <1>3. ASSUME NEW id \in Id, Delete(id) PROVE Checked'
    BY <1>3 DEF Delete, Checked, FarFrom
  <1>4. ASSUME NEW r \in Request, RequestStep(r) PROVE Checked'
    <2> SUFFICES ASSUME pc'[r] = "insert", job'[r].source = "runtime"
                 PROVE  \A i \in DOMAIN rows' :
                            Distance[job'[r].mysql][rows'[i].example.mysql]
                                > DedupDistance
      BY DEF Checked, FarFrom
    <2> USE DEF TypeOK
    <2>1. ASSUME NEW e \in Example, Offer(r, e) PROVE FALSE
      BY <2>1 DEF Offer, Saved, Go, Curated
    <2>2. ASSUME \/ Bump(r) \/ Insert(r) \/ SaveFails(r) \/ Return(r)
                 \/ CountHits(r) \/ RecallFails(r)
          PROVE  FALSE
      BY <2>2 DEF Bump, Insert, SaveFails, Return, CountHits, RecallFails, Saved, Go
    <2>3. ASSUME NEW q \in Query, Recall(r, q) PROVE FALSE
      BY <2>3 DEF Recall, Go
    <2>4. ASSUME Nearest(r)
          PROVE  \A i \in DOMAIN rows' :
                    Distance[job'[r].mysql][rows'[i].example.mysql] > DedupDistance
      <3>1. PICK near \in Closest(job[r].mysql, 1) :
              IF \E i \in near : FarFrom(job[r].mysql, i) <= DedupDistance
              THEN Go(r, "bump") /\ found' = [found EXCEPT ![r] = near]
              ELSE Go(r, "insert") /\ UNCHANGED found
        BY <2>4 DEF Nearest
      <3>2. \A i \in near : ~(FarFrom(job[r].mysql, i) <= DedupDistance)
        BY <3>1 DEF Go
      <3>3. job[r].mysql \in Query
        BY <2>4, KnowledgeAssumption DEF Nearest
      <3>4. \A i \in DOMAIN rows : FarFrom(job[r].mysql, i) > DedupDistance
        BY <1>1, <3>2, <3>3, NothingNear
      <3> QED  BY <2>4, <3>4 DEF Nearest, FarFrom
    <2> QED  BY <1>4, <2>1, <2>2, <2>3, <2>4 DEF RequestStep
  <1> QED  BY <1>2, <1>3, <1>4 DEF Next, RequestStep

\* If requests are served one at a time, save_example keeps its word about
\* near duplicates for every table, distance and threshold: it is concurrency
\* alone that breaks it.
THEOREM SerialFilter ==
    ASSUME \A r, o \in Request : r = o
    PROVE  Spec => NearDuplicateOnlyCounted
  <1> DEFINE Kept ==
        \A i \in DOMAIN rows' :
          /\ i \in DOMAIN rows => rows'[i].example # rows[i].example
          /\ rows'[i].example.source = "runtime"
          => \A j \in DOMAIN rows :
                Distance[rows'[i].example.mysql][rows[j].example.mysql]
                    > DedupDistance
  <1>1. Init => Checked
    BY DEF Init, Checked
  <1>2. TypeOK /\ Checked /\ [Next]_vars => Checked'
    BY CheckedSteps
  <1>3. TypeOK /\ Checked /\ [Next]_vars => [Kept]_rows
    <2> SUFFICES ASSUME TypeOK, Checked, [Next]_vars, rows' # rows
                 PROVE  Kept
      OBVIOUS
    <2>1. Table
      BY DEF TypeOK, Table
    <2>2. ASSUME NEW id \in Id, Delete(id) PROVE Kept
      BY <2>2 DEF Delete
    <2>3. ASSUME NEW r \in Request, Insert(r) PROVE Kept
      <3>1. job[r] \in Example /\ nextId \in Nat
        BY <2>3, KnowledgeAssumption DEF Insert, TypeOK
      <3>2. nextId \notin DOMAIN rows
        BY <3>1 DEF TypeOK, Id
      <3>3. \A i \in DOMAIN rows' :
              /\ i \notin DOMAIN rows => rows'[i].example = job[r]
              /\ i \in DOMAIN rows =>
                    rows'[i].example = job[r] \/ rows'[i].example = rows[i].example
        BY <2>1, <2>3, <3>1, <3>2, UpsertProperties DEF Insert
      <3> SUFFICES ASSUME NEW i \in DOMAIN rows',
                          i \in DOMAIN rows => rows'[i].example # rows[i].example,
                          rows'[i].example.source = "runtime",
                          NEW j \in DOMAIN rows
                   PROVE  Distance[rows'[i].example.mysql][rows[j].example.mysql]
                              > DedupDistance
        OBVIOUS
      <3>4. rows'[i].example = job[r]
        BY <3>3
      <3> QED  BY <2>3, <3>4 DEF Insert, Checked, FarFrom
    <2>4. ASSUME NEW ids, rows' = Counted(ids) PROVE Kept
      BY <2>1, <2>4, CountedProperties
    <2>5. ASSUME NEW r \in Request, RequestStep(r) PROVE Kept
      <3>1. CASE Bump(r)
        BY <2>4, <3>1 DEF Bump
      <3>2. CASE CountHits(r)
        BY <2>4, <3>2 DEF CountHits
      <3>3. CASE \/ \E e \in Example : Offer(r, e)
                 \/ \E q \in Query : Recall(r, q)
                 \/ Nearest(r) \/ SaveFails(r) \/ Return(r) \/ RecallFails(r)
        BY <3>3 DEF Offer, Recall, Nearest, SaveFails, Return, RecallFails
      <3> QED  BY <2>3, <2>5, <3>1, <3>2, <3>3 DEF RequestStep
    <2> QED  BY <2>2, <2>5 DEF Next, RequestStep, vars
  <1> QED  BY <1>1, <1>2, <1>3, TypeCorrect, PTL DEF Spec, NearDuplicateOnlyCounted

-----------------------------------------------------------------------------
(* The refinement *)

\* The table implements the abstract store: it starts empty, and each step
\* puts one whole example, drops one, or is invisible to the store's clients.
THEOREM ImplementsStoreProved == Spec => ImplementsStore
  <1> DEFINE known == {rows[i].example : i \in DOMAIN rows}
  <1>1. Init => Store!Init
    BY DEF Init, Store!Init
  <1>2. TypeOK /\ OneRowPerQuery /\ [Next]_vars => [Store!Next]_known
    <2> SUFFICES ASSUME TypeOK, OneRowPerQuery, [Next]_vars
                 PROVE  Store!Next \/ UNCHANGED known
      OBVIOUS
    <2>1. Table
      BY DEF TypeOK, Table
    <2>2. CASE UNCHANGED <<rows, nextId>>
      BY <2>2
    <2>3. ASSUME NEW ids, rows' = Counted(ids) PROVE UNCHANGED known
      <3>1. /\ DOMAIN rows' = DOMAIN rows
            /\ \A i \in DOMAIN rows : rows'[i].example = rows[i].example
        BY <2>1, <2>3, CountedProperties
      <3> QED  BY <3>1
    <2>4. ASSUME NEW e \in Example, nextId \notin DOMAIN rows, rows' = Upsert(e)
          PROVE  Store!Put(e)
      <3>1. /\ DOMAIN rows \subseteq DOMAIN rows'
            /\ \A k \in DOMAIN rows' :
                  /\ k \notin DOMAIN rows => rows'[k].example = e
                  /\ k \in DOMAIN rows =>
                       /\ rows[k].example.mysql = e.mysql => rows'[k].example = e
                       /\ rows[k].example.mysql # e.mysql =>
                            rows'[k].example = rows[k].example
            /\ \E k \in DOMAIN rows' : rows'[k].example = e
        BY <2>1, <2>4, UpsertProperties
      <3>2. known' \subseteq {x \in known : x.mysql # e.mysql} \union {e}
        <4> SUFFICES ASSUME NEW k \in DOMAIN rows', rows'[k].example # e
                     PROVE  /\ k \in DOMAIN rows
                            /\ rows'[k].example = rows[k].example
                            /\ rows[k].example.mysql # e.mysql
          OBVIOUS
        <4> QED  BY <3>1
      <3>3. {x \in known : x.mysql # e.mysql} \union {e} \subseteq known'
        <4>1. ASSUME NEW k \in DOMAIN rows, rows[k].example.mysql # e.mysql
              PROVE  k \in DOMAIN rows' /\ rows'[k].example = rows[k].example
          BY <3>1, <4>1
        <4>2. e \in known'
          BY <3>1
        <4> QED  BY <4>1, <4>2
      <3> QED  BY <3>2, <3>3 DEF Store!Put
    <2>5. ASSUME NEW id \in DOMAIN rows, NEW e, e = rows[id].example,
                 rows' = [i \in DOMAIN rows \ {id} |-> rows[i]]
          PROVE  Store!Drop(e)
      <3>1. \A i \in DOMAIN rows \ {id} : rows[i].example # rows[id].example
        BY DEF OneRowPerQuery
      <3>2. known' = known \ {e}
        BY <2>5, <3>1
      <3> QED  BY <2>5, <3>2 DEF Store!Drop
    <2>6. \A id \in DOMAIN rows : rows[id].example \in Example
      BY <2>1 DEF Table
    <2>7. (\E ids : rows' = Counted(ids)) => UNCHANGED known
      BY <2>3
    <2>8. (\E e \in Example : nextId \notin DOMAIN rows /\ rows' = Upsert(e))
              => \E e \in Example : Store!Put(e)
      BY <2>4
    <2>9. (\E id \in DOMAIN rows : rows' = [i \in DOMAIN rows \ {id} |-> rows[i]])
              => \E e \in Example : Store!Drop(e)
      <3> SUFFICES ASSUME NEW id \in DOMAIN rows,
                          rows' = [i \in DOMAIN rows \ {id} |-> rows[i]]
                   PROVE  \E e \in Example : Store!Drop(e)
        OBVIOUS
      <3>1. PICK e \in Example : e = rows[id].example
        BY <2>6
      <3>2. Store!Drop(e)
        BY <2>5, <3>1
      <3> QED  BY <3>2
    <2> HIDE DEF known
    <2> QED  BY <2>2, <2>7, <2>8, <2>9, TableSteps DEF Store!Next
  <1> QED  BY <1>1, <1>2, TypeCorrect, OneRowCorrect, PTL
           DEF Spec, ImplementsStore, Store!Spec
=============================================================================
