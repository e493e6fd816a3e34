---------------------------- MODULE KnowledgeBase ----------------------------
(***************************************************************************)
(* The agent's knowledge base (agent/tools/sql_knowledge.py over the table *)
(* of scripts/schema_pgvector.sql): proven translations, saved by the      *)
(* proxy at runtime, by imports and by the seed script, and recalled as    *)
(* examples for the next translation.                                      *)
(*                                                                         *)
(* Requests run concurrently in the agent's thread pool. Every database    *)
(* statement of a request has its own connection and transaction, so a     *)
(* request is cut into steps at each statement. The embedding of a         *)
(* statement is abstracted to its distance from the other ones; the vector *)
(* index is taken to find the rows that are really closest.                *)
(***************************************************************************)
EXTENDS Integers, FiniteSets, FiniteSetsExt

CONSTANTS Request,        \* requests served at the same time
          Query,          \* MySQL statements
          Example,        \* what clients offer: [mysql, redshift, mode, source]
          LowValue,       \* examples _is_low_value refuses
          Distance,       \* query -> query -> distance of the embeddings
          DedupDistance,  \* 1 - KNOWLEDGE_DEDUP_THRESHOLD
          RecallDistance, \* 1 - KNOWLEDGE_THRESHOLD
          TopK,           \* KNOWLEDGE_TOP_K
          MaxId,          \* bound: values of the id sequence that are used
          MaxHits,        \* bound: hit counts are counted up to here
          NoId, NoExample

Curated == {"seed", "import"}       \* sources that bypass the filters

ASSUME KnowledgeAssumption ==
    /\ \A e \in Example : e.mysql \in Query /\ e.source \in Curated \union {"runtime"}
    /\ LowValue \subseteq Example
    /\ NoExample \notin Example
    /\ Distance \in [Query -> [Query -> Nat]]
    /\ DedupDistance \in Nat
    /\ RecallDistance \in Nat
    /\ TopK \in Nat
    /\ MaxId \in Nat
    /\ MaxHits \in Nat
    /\ NoId \notin Nat

\* A statement is a near duplicate of itself.
ASSUME SelfAssumption == \A q \in Query : Distance[q][q] <= DedupDistance

VARIABLES rows,     \* id -> [example, hits]: the table
          nextId,   \* its BIGSERIAL sequence
          pc,       \* request -> the statement it executes next
          job,      \* request -> the example it saves
          found,    \* request -> the ids its last SELECT returned
          result,   \* request -> what its save_example returns
          recalled  \* request -> what its last retrieve_similar returned

vars == <<rows, nextId, pc, job, found, result, recalled>>

Id == 1 .. MaxId

Init ==
    /\ rows = [i \in {} |-> NoExample]
    /\ nextId = 1
    /\ pc = [r \in Request |-> "idle"]
    /\ job = [r \in Request |-> NoExample]
    /\ found = [r \in Request |-> {}]
    /\ result = [r \in Request |-> NoId]
    /\ recalled = [r \in Request |-> {}]

-----------------------------------------------------------------------------
(* The table *)

\* The distance of a row from a query.
FarFrom(q, i) == Distance[q][rows[i].example.mysql]

\* The k rows closest to q: ORDER BY embedding <=> q LIMIT k, ties in any
\* order.
Closest(q, k) ==
    {near \in SUBSET (DOMAIN rows) :
        /\ Cardinality(near) = Min({k, Cardinality(DOMAIN rows)})
        /\ \A i \in near, j \in DOMAIN rows \ near : FarFrom(q, i) <= FarFrom(q, j)}

\* UPDATE ... SET hit_count = hit_count + 1 WHERE id = ANY(ids): ids that are
\* gone match no row.
Counted(ids) ==
    [i \in DOMAIN rows |->
        IF i \in ids /\ rows[i].hits < MaxHits
        THEN [rows[i] EXCEPT !.hits = @ + 1] ELSE rows[i]]

\* Wrong on purpose: an upsert that forgets a column.
UpsertPart(e) ==
    [i \in DOMAIN rows \union
           {n \in {nextId} : \A j \in DOMAIN rows : rows[j].example.mysql # e.mysql} |->
        IF i \notin DOMAIN rows THEN [example |-> e, hits |-> 0]
        ELSE IF rows[i].example.mysql = e.mysql
             THEN [rows[i] EXCEPT !.example = [e EXCEPT !.mode = rows[i].example.mode]]
             ELSE rows[i]]

\* Wrong on purpose: an upsert that starts the hit count again.
UpsertResets(e) ==
    [i \in DOMAIN rows \union
           {n \in {nextId} : \A j \in DOMAIN rows : rows[j].example.mysql # e.mysql} |->
        IF i \notin DOMAIN rows \/ rows[i].example.mysql = e.mysql
        THEN [example |-> e, hits |-> 0] ELSE rows[i]]

\* Wrong on purpose: an INSERT without ON CONFLICT.
InsertAlways(e) ==
    [i \in DOMAIN rows \union {nextId} |->
        IF i \in DOMAIN rows THEN rows[i] ELSE [example |-> e, hits |-> 0]]

\* INSERT ... ON CONFLICT (md5(mysql_sql)) DO UPDATE: the row of the same
\* statement is overwritten and keeps its id and hit count.
Upsert(e) ==
    [i \in DOMAIN rows \union
           {n \in {nextId} : \A j \in DOMAIN rows : rows[j].example.mysql # e.mysql} |->
        IF i \notin DOMAIN rows THEN [example |-> e, hits |-> 0]
        ELSE IF rows[i].example.mysql = e.mysql THEN [rows[i] EXCEPT !.example = e]
        ELSE rows[i]]

-----------------------------------------------------------------------------
(* save_example *)

\* No rows, SQL that is too short, a management command
is_low_value(e) == e \in LowValue

Go(r, step) == pc' = [pc EXCEPT ![r] = step]

\* Wrong on purpose: a request keeps what its last search found.
SavedKeepsFound(r, id) ==
    /\ Go(r, "saved")
    /\ result' = [result EXCEPT ![r] = id]
    /\ job' = [job EXCEPT ![r] = NoExample]
    /\ UNCHANGED <<found, recalled>>

\* A save is about to return an id, or NoId for None.
Saved(r, id) ==
    /\ Go(r, "saved")
    /\ result' = [result EXCEPT ![r] = id]
    /\ job' = [job EXCEPT ![r] = NoExample]
    /\ found' = [found EXCEPT ![r] = {}]
    /\ UNCHANGED recalled

\* Wrong on purpose: only imports go straight to the insertion.
OfferFiltered(r, e) ==
    /\ pc[r] = "idle"
    /\ Go(r, IF e.source = "import" THEN "insert" ELSE "nearest")
    /\ job' = [job EXCEPT ![r] = e]
    /\ UNCHANGED <<rows, nextId, found, result, recalled>>

\* A runtime example of low value is dropped at once; the others look for
\* near duplicates first. Seeds and imports go straight to the insertion.
Offer(r, e) ==
    /\ pc[r] = "idle"
    /\ IF e.source \notin Curated /\ is_low_value(e)
       THEN Saved(r, NoId)
       ELSE /\ Go(r, IF e.source \in Curated THEN "insert" ELSE "nearest")
            /\ job' = [job EXCEPT ![r] = e]
            /\ UNCHANGED <<found, result, recalled>>
    /\ UNCHANGED <<rows, nextId>>

\* Wrong on purpose: the threshold is not applied.
NearestIgnored(r) ==
    /\ pc[r] = "nearest"
    /\ Go(r, "insert")
    /\ UNCHANGED <<rows, nextId, job, found, result, recalled>>

\* The closest row decides: near enough, and the save only counts a hit on it.
Nearest(r) ==
    /\ pc[r] = "nearest"
    /\ \E near \in Closest(job[r].mysql, 1) :
        IF \E i \in near : FarFrom(job[r].mysql, i) <= DedupDistance
        THEN Go(r, "bump") /\ found' = [found EXCEPT ![r] = near]
        ELSE Go(r, "insert") /\ UNCHANGED found
    /\ UNCHANGED <<rows, nextId, job, result, recalled>>

\* The id is returned even if its row has been deleted since. If the
\* connection breaks during the commit, the hit is counted but the save
\* reports None.
Bump(r) ==
    /\ pc[r] = "bump"
    /\ rows' = Counted(found[r])
    /\ \E i \in found[r] \union {NoId} : Saved(r, i)
    /\ UNCHANGED nextId

\* The upsert draws an id from the sequence whether it needs it or not. That
\* it does so a moment before it commits is left out: nobody reads the sequence
\* in between, and the order of ids means nothing to the code. Here too the
\* acknowledgement of the commit may be lost.
Insert(r) ==
    /\ pc[r] = "insert"
    /\ nextId <= MaxId
    /\ rows' = Upsert(job[r])
    /\ nextId' = nextId + 1
    /\ \/ \E i \in DOMAIN rows' :
            rows'[i].example.mysql = job[r].mysql /\ Saved(r, i)
       \/ Saved(r, NoId)

\* Embedding, connection or statement failed: save_example logs and returns
\* None.
SaveFails(r) ==
    /\ pc[r] \in {"nearest", "bump", "insert"}
    /\ Saved(r, NoId)
    /\ UNCHANGED <<rows, nextId>>

Return(r) ==
    /\ pc[r] = "saved"
    /\ Go(r, "idle")
    /\ result' = [result EXCEPT ![r] = NoId]
    /\ UNCHANGED <<rows, nextId, job, found, recalled>>

-----------------------------------------------------------------------------
(* retrieve_similar, delete_entry *)

\* The TOP_K closest rows, those within the threshold.
Recall(r, q) ==
    /\ pc[r] = "idle"
    /\ \E near \in Closest(q, TopK) :
        LET hits == {i \in near : FarFrom(q, i) <= RecallDistance}
        IN  /\ found' = [found EXCEPT ![r] = hits]
            /\ recalled' = [recalled EXCEPT ![r] = {rows[i].example : i \in hits}]
            /\ Go(r, IF hits = {} THEN "idle" ELSE "count")
    /\ UNCHANGED <<rows, nextId, job, result>>

\* The hits are counted before the examples are returned. If only the
\* acknowledgement of the commit is lost, the examples are dropped all the
\* same.
CountHits(r) ==
    /\ pc[r] = "count"
    /\ rows' = Counted(found[r])
    /\ found' = [found EXCEPT ![r] = {}]
    /\ \E kept \in {recalled[r], {}} : recalled' = [recalled EXCEPT ![r] = kept]
    /\ Go(r, "idle")
    /\ UNCHANGED <<nextId, job, result>>

\* If the search or the counting fails there are no examples.
RecallFails(r) ==
    /\ pc[r] \in {"idle", "count"}
    /\ found' = [found EXCEPT ![r] = {}]
    /\ recalled' = [recalled EXCEPT ![r] = {}]
    /\ Go(r, "idle")
    /\ UNCHANGED <<rows, nextId, job, result>>

\* Somebody deletes a row on the knowledge page.
Delete(id) ==
    /\ id \in DOMAIN rows
    /\ rows' = [i \in DOMAIN rows \ {id} |-> rows[i]]
    /\ UNCHANGED <<nextId, pc, job, found, result, recalled>>

Next ==
    \/ \E r \in Request :
        \/ \E e \in Example : Offer(r, e)
        \/ Nearest(r) \/ Bump(r) \/ Insert(r) \/ SaveFails(r) \/ Return(r)
        \/ \E q \in Query : Recall(r, q)
        \/ CountHits(r) \/ RecallFails(r)
    \/ \E id \in Id : Delete(id)

Spec == Init /\ [][Next]_vars

-----------------------------------------------------------------------------
(* What the knowledge base promises *)

\* The value of every variable has its type, ids come from the sequence, and
\* a request holds just what its next statement needs.
TypeOK ==
    /\ DOMAIN rows \subseteq Id
    /\ \A i \in DOMAIN rows : rows[i] \in [example : Example, hits : 0 .. MaxHits]
    /\ nextId \in 1 .. MaxId + 1
    /\ \A i \in DOMAIN rows : i < nextId
    /\ pc \in [Request -> {"idle", "nearest", "bump", "insert", "saved", "count"}]
    /\ job \in [Request -> Example \union {NoExample}]
    /\ found \in [Request -> SUBSET Id]
    /\ result \in [Request -> Id \union {NoId}]
    /\ recalled \in [Request -> SUBSET Example]
    /\ \A r \in Request :
        /\ pc[r] \in {"nearest", "bump", "insert"} <=> job[r] # NoExample
        /\ pc[r] \in {"bump", "count"} <=> found[r] # {}
        /\ result[r] # NoId => pc[r] = "saved"

\* One row per statement, however many requests save it at the same time.
OneRowPerQuery ==
    \A i, j \in DOMAIN rows :
        rows[i].example.mysql = rows[j].example.mysql => i = j

\* As long as a row exists its id stands for the same statement and its hits
\* are not lost, whatever else of it an upsert replaces; the id of a deleted
\* row never comes back for another one.
RowKeepsIdentity ==
    [][/\ \A i \in DOMAIN rows \intersect DOMAIN rows' :
            /\ rows'[i].example.mysql = rows[i].example.mysql
            /\ rows'[i].hits >= rows[i].hits
       /\ \A i \in DOMAIN rows' \ DOMAIN rows : i >= nextId]_vars

\* save_example: a runtime example with a near duplicate in the table adds no
\* row and changes none, it only counts a hit. So a row that is new or whose
\* text changes, and whose source is runtime, had no near duplicate.
NearDuplicateOnlyCounted ==
    [][\A i \in DOMAIN rows' :
          /\ i \in DOMAIN rows => rows'[i].example # rows[i].example
          /\ rows'[i].example.source = "runtime"
          => \A j \in DOMAIN rows :
                Distance[rows'[i].example.mysql][rows[j].example.mysql]
                    > DedupDistance]_rows

\* The table implements a store that maps a statement to one whole example.
Store == INSTANCE ExampleStore WITH
             known <- {rows[i].example : i \in DOMAIN rows}

ImplementsStore == Store!Spec
=============================================================================
