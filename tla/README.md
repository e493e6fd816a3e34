# A TLA+ model of the MySQL-to-Redshift proxy, its agent and its knowledge base

Clients speak the MySQL protocol to a Go proxy. The proxy has each statement
translated by a Python agent (a language model with dialect rules, a schema
tool and a knowledge base of proven translations), executes it on Redshift, and
gives the rows back as a MySQL result. A web console lets people query, browse
the knowledge base and import statements into it.

Everything here is written from the code under `src/`. What the code gets wrong
stays wrong in the model; the runs named in "Findings" show it.

## 1. The system

| component | state | operations | talks to |
|---|---|---|---|
| proxy sessions, `proxy/internal/server` | one goroutine per connection; the locals of `HandleQuery` and `execWithRetry` | a query: management command, routing, pass-through to MySQL, cache, translation, attempts and fixes, cache update, example, reply | router, cache, agent (HTTP, 60 s), MySQL and Redshift (60 s), knowledge client |
| router, `proxy/internal/router` | the whitelist, one TiDB parser | `Route`, `ExtractTables` | called by all sessions at the same time |
| translation cache, `proxy/internal/cache` | LRU list, key to SQL | `Get`, `Set`, `Key` | shared by all sessions |
| knowledge client, `proxy/internal/knowledge` | bounded channel, one worker | `SaveAsync`, worker, `save` | agent `/save_example` (10 s) |
| process, `proxy/cmd/proxy` | runs or does not | start, exit on a signal | all of the above |
| agent: translation, `agent/app.py`, `agent/tools` | one lazily built `Agent`, cached schemas | `/translate`, `extract_sql` | language model, Redshift, knowledge base |
| agent: knowledge base, `agent/tools/sql_knowledge.py` | the table `sql_knowledge` in PostgreSQL | `save_example`, `retrieve_similar`, `delete_entry`, list, count | called by a thread pool; one connection and transaction per statement |
| agent: import test, `agent/app.py`, `compare.py`, `executors.py` | the locals of a handler | `/api/knowledge/import_test`: translate, run on both sides, compare, save | translation, both databases, knowledge base |
| web console, `webui/app.py`, `webui/static` | a query page: one handler per request; the import page: its loop and its entries | query, explain, browse, delete, import, forced save | proxy (90 s), databases, agent (60 s, 180 s) |
| seed script, `scripts/seed_knowledge.py` | two counters | one `/save_example` per seed (30 s) | agent |
| bulk migration, `scripts/migrate_simple.py`, `infra/06_planb_export.sh` | a file, objects in S3, the tables on Redshift | dump, upload, truncate, copy; snapshot, export, polling | Aurora, S3, Redshift |

What is hard in it:

- **Concurrency.** Sessions share the cache in three separate critical sections
  per query, the parser without any, and the channel. Requests of the agent
  share the table; "look for a near duplicate" and "insert" are two
  transactions. On the page a loop and any number of forced saves write into
  the same entries.
- **Failure and time.** Every call can fail or time out, and the caller of a
  call that timed out does not know what became of it: the console and the
  proxy give up while the agent goes on and saves. A commit can succeed without
  its acknowledgement. The proxy's process may exit at any point.
- **Ordering.** The cache is written before the translation was executed and
  again after it was repaired; which of several writers is the last one matters.
- **Crashes and reruns.** The migration is started by hand, may stop at any
  statement, and leaves files, objects and empty tables behind for the next run.
- **Bounds.** Cache and channel at capacity, the last attempt of the loop.

What makes each component correct:

- *sessions*: every query ends with one answer that belongs to its statement; the
  agent is called once for the translation, unless the cache has it, and once for
  each fix, of which there are fewer than `MAX_ATTEMPTS`; a fix is cached, and an
  example saved, only after Redshift has executed it.
- *cache*: bounded, one entry per key, SQL of different statements never mixed,
  what was not used for longest forgotten first.
- *knowledge client*: never holds up a session; what it queued gets its turn.
- *knowledge base*: a map from statements to whole examples whatever runs at the
  same time; ids never change their meaning; near duplicates are only counted.
- *import*: what is saved was verified by the handler that saves it, or a person
  has insisted; the page's loop ends and stays in step with its entries.
- *extraction*: of an answer in one of the expected forms, only the bare statement
  is executed.
- *query page*: shows rows of its own statement only and never hangs on the proxy.
- *seed script*: what it counts as saved has been saved.
- *migration*: a run that nobody overlaps leaves complete tables of one moment, and
  never empties a table it could not reload.

## 2. The modules

    Router  LruCache  KnowledgeClient       ResultCompare   Extraction
        \      |      /                              \        /
          +--Proxy--+ ..implements.. QueryService    ImportFlow -- MCImport
           /       \                                     |
      MCProxy   QueryPage      ExampleStore ..is implemented by.. KnowledgeBase
           \      /                                   /       \
         MCQueryPage                        MCKnowledgeBase   Seeding
                                                      \       /
      Migration -- MCMigration                        MCSeeding

| module | models | code |
|---|---|---|
| `Router` | the routing decision | `router.go` |
| `LruCache` | the LRU list as a sequence, most recent first | `cache.go` over `golang-lru` (external) |
| `KnowledgeClient` | channel and worker | `knowledge/client.go`, `main.go` |
| `Proxy` | sessions, and the three above composed with process exit and restart | `server.go`, `main.go`, client and executors as steps that succeed, fail or time out |
| `QueryService` | abstract: each query is answered once or lost with the server | |
| `KnowledgeBase` | table, sequence, and requests cut at every database statement | `sql_knowledge.py`, `schema_pgvector.sql` |
| `ExampleStore` | abstract: a map from statements to whole examples | |
| `ResultCompare` | `compare` as an operator, next to what its comments promise (`Agree`) | `compare.py` |
| `ImportFlow` | page, console and `/import_test` handlers; a handler *is* a request of `KnowledgeBase` and takes its actions | `knowledge.html`, `webui/app.py`, `app.py`, `executors.py` |
| `Extraction` | `strip_code_fence` and `extract_sql` as operators on pieces of text | `app.py` |
| `Seeding` | the seed script as a client of `KnowledgeBase` | `seed_knowledge.py` |
| `QueryPage` | handlers of `/api/query` and `/api/explain` as clients of `Proxy` | `webui/app.py` |
| `Migration` | the migration script, run several times | `migrate_simple.py` |
| `MC*` | the values TLC uses | |
| `ProxyProofs` | proofs about the cache and the proxy | |
| `SharingProofs` | proofs about what sessions do to each other, on top of it | |
| `ServiceProofs` | proofs of the refinement of `QueryService` and about the query page | |
| `KnowledgeProofs`, `SeedingProofs`, `MigrationProofs` | proofs about the module of that name | |
| `AnswerProofs` | proofs about the operators of `ResultCompare` and `Extraction` | |
| `ImportProofs` | proofs about `ImportFlow` | |

Definitions marked "wrong on purpose" are plausible bugs. Nothing uses them; put
in the place of the definition that follows, each one breaks a property, which
shows that the property depends on the code.

### How state and steps correspond

`Proxy`. A session's `pc` is the next access to shared state or the next outside
call in `HandleQuery`. `rs`, `cur`, `attempt`, `rows` are `rsQuery`, `curSQL`,
`attempt`, "the result has rows". `asked`, `calls`, `reply` are history. A query
is a *shape* (what `cache.Key` keeps) and a *literal* (everything it drops); a
translation is a record of the query it was written for and a version, and
`Accepted` says which ones Redshift executes. The arrival of the agent's answer
touches nothing shared, so arrival and `Set` are one step (`Translated`). The
60 s that the attempts share are a possible reason of `ExecFails`. Two parses
that overlap are a data race: `raced` remembers them, and the destination of
such a parse is arbitrary; a panic it causes is a `Shutdown`.

`KnowledgeBase`. Each SQL statement of a request is a step. An embedding is
reduced to distances between statements; the approximate index is taken to find
the really closest rows, ties in any order. `SaveFails` and `RecallFails` are the
`except` branches, and the acknowledgement of a commit may be lost. `Return` is
the return of `save_example` to its caller. Hit counts are counted up to `MaxHits`
and the id sequence up to `MaxId`.

`ImportFlow`. `loop`, `sqls`, `done`, `results` are the page's `importing` and
`_cancel`, the local `sqls`, `progressDone`, `importResults`; `waiting` is the
`await` the loop sits in. `stage[r]` and `call[r]` are where a handler is and its
locals. `call[r].heard` is TRUE until the console gives up; the handler does not
notice. The user can change the mode in the select at any time, so each call
carries any mode. The two executions and the comparison touch only locals of the
handler and are one step (`Runs`), which chooses the results freely. `agreed` and
`reviewed` are read by properties only. An entry keeps its text and SQL only where
there is a button that uses them.

`Extraction`. A text of the language model is a sequence of pieces: a code fence on
its own line, a remark without SQL keywords, the marker `-- UNTRANSLATABLE`, a
statement, a semicolon. The regular expressions become operations on the first or
last piece of a kind. `ImportFlow` applies `extract_sql` to every answer
(`Translates`); what is left is executed only if it is one bare statement.

`QueryPage`. `stage[w]` is what the handler of tab `w` waits for: the agent, the
proxy's greeting, the answer, MySQL or Redshift. A handler connects (`Connect`), which
asks the query in a free session of `Proxy`; when `read_timeout` is over it closes
the connection and the session goes on alone. A session that has answered and whose
connection is closed stands for the next connection of anybody. `Fetched` has the
code's arithmetic of shown and counted rows.

`Seeding`. `at`, `ok`, `fail` are `i`, `ok`, `fail`; `post` is the request that serves
the post the script waits for. `SeedFails` is a timeout or a refusal: the request, if
there is one, goes on. `written` is history: the seeds that have been in the table.

`Migration`. `pc`, `idx`, `view`, `key` are a run's statement, its `t`, the snapshot
of its transaction on Aurora (started by its first SELECT and never ended), the
second in its object's name. Rows are the version of Aurora they were read in; a
table is the sequence of loads since its last TRUNCATE. `Fail` is an exception or a
kill at any statement; a COPY whose answer is lost is `Copy` followed by `Fail`.
`mixed` are runs whose open file somebody else has opened; what is left of it is
torn or not. `crossed` (history) are the runs another one has overlapped.

`ResultCompare`. A value is a member of a set with a rank for the text it is
sorted by (`Text`) and the pairs `_eq` accepts (`Equal`).

## 3. What is checked

Every run finishes within two minutes with two workers. Deadlock is checked in all
of them but `MigrationCore`, where every invocation ends and nothing remains to be
done.

| run | instance | properties | result |
|---|---|---|---|
| `ProxyCore` | 2 sessions, a whitelist, a statement for Redshift, one for MySQL, a management command, versions good/bad/patched/worse, cache of 2, channel of 1, 2 attempts | `TypeOK`, `CacheWellFormed`, `ShapesNeverMix`, `RepairsProven`, `ExamplesProven`, `AgentCallsBounded`, `QueriesGetOn`, `EvictsLeastRecent` | hold |
| `PageQuery` | 1 tab and other clients, 1 session, 3 shapes in a cache of 1, a whitelist, channel of 2, 2 attempts | `CacheWellFormed`, `PageTypeOK`, `RowsAreOfThisQuery`, `ReplyCached`, `ProvenNotOverwritten`, `EveryQueryAnswered`, `ImplementsService`, `PageAnswers`, `ExamplesGetTheirTurn` | hold |
| `ProxyStale` | 1 session, 2 literals | `AnswersOwnQuery` | violated |
| `ProxyLostRepair` | 2 sessions, 1 shape | `SuccessIsCached` | violated |
| `ProxyRace` | 2 sessions, a whitelist | `RoutedByWhitelist` | violated |
| `KnowledgeCore` | 2 requests, 2 statements, runtime and verified examples, the seed script with 1 seed, 3 ids | `TypeOK`, `OneRowPerQuery`, `SeededIsStored`, `RowKeepsIdentity`, `ImplementsStore` | hold |
| `KnowledgeRace` | 2 requests, 2 near-duplicate statements | `NearDuplicateOnlyCounted` | violated |
| `ImportCore` | 2 handlers, strict and lenient, results equal, reordered, different, empty; answers good, refused, not executable | `ImportTypeOK`, `LoopInStep`, `ImportedVerified`, `MismatchIsReal` | hold |
| `ImportSingle` | 1 handler, a batch of two near duplicates, all forms of an answer, a runtime example of low value, fairness | `LoopInStep`, `BareStatementRuns`, `NearDuplicateOnlyCounted`, `ImportEnds` | hold |
| `ImportForced` | 1 handler, 2 translations | `ForcedSaveStoresReviewed` | violated |
| `ImportOrder` | 1 handler, a flag that can be NULL | `MismatchIsReal` | violated |
| `MigrationCore` | 2 runs side by side, 4 starts, the one table of `TABLES`, 3 versions of Aurora, 3 seconds | `TypeOK`, `LoneRunOverwrites`, `EmptiedIsBackedUp` | hold |

What the passing ones show:

- `ProxyCore`: two sessions are enough for every race on the cache, since each
  critical section touches one key; two shapes in a cache of two, because what
  mixes must be different (the second one gets to Redshift when two parses race); a channel of one is full after one example. With two
  attempts there is a first attempt, a fix and a last attempt. `QueriesGetOn` says that each
  step of the server brings a query nearer to its answer (`StepsLeft`). `EvictsLeastRecent`
  is about the order of the entries: a lookup counts as a use, and a repeated `Set`
  displaces nothing. Its two keys fill the cache and do not overflow it; evictions happen
  in the cache of one of `PageQuery`, where there is no choice, and which entry a larger
  cache gives up is proved, for every size (`EvictsLeastRecentCorrect`).
- `PageQuery`: with one session, a tab that gives up and the next client use the same
  session, which is where a late answer could go wrong; a second tab would only wait
  for the session. Two translatable shapes in a cache of one make evictions happen,
  the third goes to MySQL. Liveness and the refinement are checked here: a query, and
  a page, end although channel and worker stand still; one answer per query, one that
  query may get; an exit loses all pending queries together. The safety half of the
  refinement is proved for any number of sessions. A lone session always leaves the
  SQL of its answer in the cache and never overwrites proven SQL; `ProxyLostRepair`
  shows that a second session breaks this.
- `KnowledgeCore`: upserts, deletions and counts of two requests between any two
  statements; at distance 1 with a threshold of 0 two rows coexist.
  `ImplementsStore`: every change of the table stores one whole example or drops
  one. `SeededIsStored`: the script's count is right although it stops waiting, other
  clients replace and delete its rows, and it is started again.
- `ImportCore`: one statement suffices for all interleavings of the loop, forced
  saves, late answers, cancelled and repeated batches (a second batch is the same
  statement again); entries of other indexes are only touched by calls with their
  index. `ImportedVerified` compares each row that appears with the handler that
  writes it and with the reference `Agree`, not with `Compare` itself. So does
  `MismatchIsReal`; as long as a column has no NULL among its flags, sorting puts 0 before 1
  and FALSE before TRUE, and it holds.
- `ImportSingle`: two statements, so that the loop has a step in between; with one
  handler at a time, the filter of `save_example` is sound: the violation in
  `KnowledgeRace` comes from concurrency alone. `BareStatementRuns` is checked for a
  statement with and without fence, semicolon, a remark before it and (fenced) after it.
- `MigrationCore`: a third run starts after two that failed or overlapped, so that it
  meets every state they leave, and a fourth may overlap it. `TABLES` has one entry
  (`migrate_simple.py:39`), so the instance has one table; the loop over tables is in the
  module, and the theorems hold for any number. Three versions and three seconds: the
  same, a later, the last one.

### Fairness

`Spec` of `Proxy` and `PageSpec` assume weak fairness of each session's `Serve`: every
call it waits for has a timeout in the code (60 s for the agent, for MySQL, and for all
attempts on Redshift), and a goroutine that can run does run. `PageSpec` adds each
tab's `Handle`, whose waits end after 10, 60 or 90 s; `RunRedshift` is not among them,
because nothing limits the console's own queries on Redshift, and `PageAnswers` leaves
that stage out. Nothing is assumed of clients, of the operator, or of the worker;
`ExamplesGetTheirTurn` is the one property that needs the worker and names that
assumption itself (its posts end after 10 s). `KnowledgeBase`, `Seeding` and
`ImportSpec` have no fairness: psycopg sets no statement timeout, and the model has
none either, so a request may hang. `FairImportSpec` assumes only the page's own loop
and the console's 180 s; the handlers may still stand still for ever, and `ImportEnds`
holds nevertheless. `Migration` has none: a run may stop anywhere.

## 4. Findings

1. `ProxyStale`: a cache hit executes the literals of the query that filled the
   entry (`server.go:147`); `cache.go:4` and `DESIGN.md:93` rely on a layer that
   substitutes parameters and does not exist.
2. `ProxyLostRepair`: the first `Set` of a slower session overwrites what a faster
   one has repaired and proven (`server.go:160`, against the comment at 167).
3. `ProxyRace`: all sessions use one parser without a lock (`router.go:80`); a
   whitelisted statement may be sent to MySQL.
4. `KnowledgeRace`: the near-duplicate test and the insertion are two transactions
   (`sql_knowledge.py:149-195`): a runtime save replaces a verified import.
5. `ImportForced`: "save anyway" translates again and stores SQL nobody has seen
   (`knowledge.html:333`).
6. `ImportOrder`: results are sorted by text and compared by value
   (`compare.py:74`), so that equal results are reported as different.
7. `MAX_ATTEMPTS` is the number of times a failed execution is fed back to the agent in
   the documents (`README.md:416`, also 51-52, `REPORT.md:29`, `DESIGN.md:106-111` and
   161) and the number of executions in the loop, which ends before the last fix
   (`server.go:201`): two fixes for the default of 3, none for 1. The documents' bound is
   not exceeded but never reached, so no state violates it: what shows the divergence is
   that `AgentCallsBounded`, which says "fewer fixes than `MAX_ATTEMPTS`", *holds* in
   `ProxyCore`, and for every value (`AgentCallsCorrect`).

Five of these promises are proved where their cause is absent (section 5), which shows
that nothing else breaks them: 1 where the key tells literals apart (`OwnIfKeysTell`),
2 where no two sessions serve one key (`SuccessCachedApart`), 3 where no two parses
overlap (`RoutedIfParsedAlone`), 4 where requests are served one at a time
(`SerialFilter`, `SerialImportsFilter`), 6 where values are equal just if they print the
same (`MismatchesAreReal`).

Two documented promises fail in a way that needs no run: `DESIGN.md:114` (only
successful SQL is cached; `server.go:160` caches before executing) and
`config.go:23` (without `MYSQL_DSN` everything goes to Redshift; with a whitelist
`server.go:133` answers with an error). Both are in the model. `MAX_ATTEMPTS` of
zero is accepted by `config.go:53` and leaves no attempt at all;
`MaxAttemptsAssumption` excludes it here.

The sequence diagram in the repository's README (69-98) saves the example after the
client has its result; `server.go:172-182` puts it in the channel first, and the model
follows the code. Nothing depends on the order, since `SaveAsync` never waits.

Seen while modelling, without a claim in the code to check against: a fenced
statement at the start of an answer keeps its closing fence if a remark follows
(`app.py:97-122`; modelled, the execution fails); `row_count` of a truncated result is
one short (`webui/app.py:105`; `Fetched`), although the comment at line 100 says "true
count"; two migrations side by side can double a table's rows (`migrate_simple.py:87`;
two TRUNCATEs, then two COPYs), which is why `LoneRunOverwrites` speaks of runs
without overlap.

## 5. What is proved

TLAPS proves the following for all values of the constants that satisfy the
named assumptions, so for any number of sessions, requests, statements, entries.

| theorem | statement |
|---|---|
| `ProxyProofs!TypeCorrect`, `AgentCallsCorrect`, `CacheCorrect`, `ShapesCorrect`, `RepairsCorrect`, `ExamplesCorrect` | all six invariants of `ProxyCore`, for any number of attempts |
| `ProxyProofs!EvictsLeastRecentCorrect` | `EvictsLeastRecent`, for any size of the cache |
| `ProxyProofs!QueriesGetOnCorrect` | `QueriesGetOn`: a query takes at most 2 * `MAX_ATTEMPTS` + 6 steps of the server |
| `SharingProofs!LoneReplyCached`, `LoneProvenKept` | with one session, `ReplyCached` and `ProvenNotOverwritten` |
| `SharingProofs!ProvenKeptApart`, `SuccessCachedApart` | `ProvenNotOverwritten`, and the promise of `SuccessIsCached` (finding 2), as long as no two sessions serve queries of one key at the same time (`KeysApart`) |
| `SharingProofs!RoutedIfParsedAlone` | `RoutedByWhitelist` as long as no two parses overlap (`OneParses`) |
| `SharingProofs!TranslatedIsOwn`, `OwnIfKeysTell` | a query that was not served from the cache runs SQL for its own literals; `AnswersOwnQuery` if the key tells all queries apart |
| `ServiceProofs!ImplementsServiceSteps` | the safety half of `ImplementsService` |
| `ServiceProofs!PageUsesService`, `PageTypeCorrect`, `RowsCorrect` | the page and its proxy implement the safety half of `QueryService`; `PageTypeOK`, `RowsAreOfThisQuery` |
| `ServiceProofs!PageCacheCorrect`, `PageProvenKept`, `PageReplyCached` | under `PageSpec`: `CacheWellFormed`; `ProvenNotOverwritten` given `KeysApart`; `ReplyCached` with one session |
| `KnowledgeProofs!TypeCorrect`, `OneRowCorrect`, `IdentityCorrect`, `ImplementsStoreProved` | `TypeOK`, `OneRowPerQuery`, `RowKeepsIdentity`, `ImplementsStore` |
| `KnowledgeProofs!SerialFilter` | with one request at a time, `NearDuplicateOnlyCounted` |
| `SeedingProofs!SeedingIsKnowledgeBase`, `SeedingKeepsRows`, `SeedingUsesStore` | `SeedSpec` implies the specification of `KnowledgeBase`, hence `OneRowPerQuery`, `RowKeepsIdentity`, `ImplementsStore` |
| `SeedingProofs!SeedingCorrect` | `SeededIsStored` |
| `MigrationProofs!TypeCorrect`, `LoneRunsOverwrite`, `EmptiedIsSafe` | all three invariants of `MigrationCore` |
| `AnswerProofs!StatementExtracted` | `extract_sql` leaves exactly the statement of an answer with any number of remarks before it and of semicolons after it, fenced or not, or with remarks after the fence if others stand before it |
| `AnswerProofs!ComparisonComplete` | if values are equal just if they print the same (`EqualByText`), what agrees is accepted |
| `ImportProofs!UsesKnowledgeBase`, `ImportsKeepOneRow`, `ImportsKeepIdentity`, `ImportsUseStore` | `ImportSpec` implies the specification of `KnowledgeBase`, hence its properties |
| `ImportProofs!SerialImportsFilter` | with one request at a time, `NearDuplicateOnlyCounted` |
| `ImportProofs!ImportTypeCorrect`, `LoopCorrect`, `BareStatementsRun` | `ImportTypeOK`, `LoopInStep`, `BareStatementRuns` |
| `ImportProofs!ImportsVerified` | `ImportedVerified` |
| `ImportProofs!MismatchesAreReal` | given `EqualByText`, `MismatchIsReal` |

A hypothesis of a theorem (one session, one request, `KeysApart`, `OneParses`,
`EqualByText`) is never an assumption of a module. Without it the property fails: that
is what the runs of section 4 show.

The arguments:

- *ProxyProofs*. Its first part says what `Touch` and `Add` do to length, keys and
  entries; it is the only place that looks into the sequence. `TypeOK` is not
  inductive: `attempt` is bounded only because a session in the retry loop stops in
  time, and `RowsOf(cur)` is a reply only because `cur` is set there. `Stages` adds, for each `pc`, which locals are set
  (`Before`, `During`). The cache invariants follow from `CacheSteps` (the three
  ways a step changes the cache), as does `EvictsLeastRecent`: `Remains` says what is left
  of the old entries, and where, after a lookup (`TouchRemains`) and a `Set` (`AddRemains`);
  `HitsOnly` adds that only a hit takes a session from the lookup to Redshift. `ShapesNeverMix` and `ExamplesProven` are
  inductive relative to these; the latter needs that a session past `exec` holds
  accepted SQL. `QueriesGetOn` is a variant argument: `StepsLeft` falls with each `Serve`
  (`ServeGetsOn`), because a fix that goes back to `exec` has used up an attempt, and
  no step of somebody else raises it (`OthersLeaveSteps`). It is the half of
  `EveryQueryAnswered` that needs no fairness.
- *SharingProofs*. For a lone session `Undisturbed` says what is in the front of the
  cache at each `pc`: the translation until the retry loop ends, what was executed after
  `UpdateCache`. With other sessions of other keys the front is lost, but what is cached
  under the session's own key, if anything, is still that (`Unshared`): the entry may be
  evicted, never replaced. `Undisputed` and `NobodyRaces` do the same for the parser,
  `OwnIfTranslated` for the literals: SQL of a session that has called the agent more often
  than it has fixed is its own.
- *ServiceProofs*. `Paths` says which kinds of sessions reach which `pc`, so that
  each `Return` is an answer the query may get; all other steps stutter. Each step of
  the page is a step of `Proxy` or leaves it alone (`PageSteps`), so the invariants of
  the proxy hold, those of the cache included, and only `Places` is new: a tab that
  waits owns a session, no two the same, and that session was asked this tab's query
  for as long as the tab owns it.
- *KnowledgeProofs*. `TypeOK` says what a request holds before its next statement.
  `SerialFilter` needs `Checked`: the one request that is about to insert has found
  nothing near, and nobody has changed the table since.
- *SeedingProofs*. `SeededIsStored` needs to know what becomes of a post: `Served` says
  that the request the script waits for is about to store that very seed, or has, and
  has an id only then; `Tally` counts the seeds behind the script that have been
  written. The central lemma (`AgentServes`) follows one post through the statements
  of `save_example`.
- *MigrationProofs*. `InStep` says what each statement leaves for the next one; it holds
  for a run that nobody overlaps because all others are off then (`CrossingsKnown`).
  `SnapshotFixed` says that the view is fixed before the first table is through; it
  matters only for more than one table.
- *ImportProofs*. `FlowInv` is `Page /\ Handlers /\ Loop`. `LoopInStep` alone is not
  inductive: it needs that *no other* call is heard without being forced, so that
  a late answer cannot be mistaken for the one the loop waits for. Its lemmas
  split the steps by who takes them. `UsesKnowledgeBase` shows each step of the
  flow to be a step of the knowledge base or to leave it alone, so that its
  theorems carry over. `AllSaves`: what a handler in `saving` is about to insert carries
  the verdict of its own comparison, and no other request saves an import; with
  `ComparisonSound` this is `ImportsVerified`. `RefusedShown`: only the handler that has
  refused results makes the page show a mismatch; with `ComparisonComplete` this is
  `MismatchesAreReal`.
- *AnswerProofs*. `ComparisonSound`: whatever `Compare` accepts, `Agree` accepts as
  well. `Precedes` is a total order of the places of a result (`KeysOrdered`,
  `PlacesOrdered`), so counting the places before each one numbers them all
  (`PlacesCounted`), and the bijection goes from a row to the row of the other side with
  the same number. The converse is false in general, which is what `ImportOrder` shows,
  and true under `EqualByText`: rows that agree have the same key then, so no row stands
  at the number of a greater one of the other side, which would have too many rows before
  it (`NoneMisplaced`), and rows of the same number are equal. Extraction removes the
  outermost piece of each kind in turn; `FirstFound` and `LastFound` say where it looks,
  `PresentationPlaced` what stands there in each form, and one lemma per form follows
  `extract_sql` through it (`UnfencedExtracted`, `FencedExtracted`,
  `FenceAfterRemarksExtracted`, `FenceAmongRemarksExtracted`). The finite list `Expected`
  that `BareStatementRuns` speaks of is a part of these (`ExpectedExtracted`).

Only model-checked: everything about liveness (`EveryQueryAnswered`, `PageAnswers`,
`ExamplesGetTheirTurn`, `ImportEnds`, the fairness half of `ImplementsService`),
which is beyond the prover. `PageSpec` has no theorem that starts from `Spec`, because its
fairness is that of the composition: it implies `Init /\ [][Next]_vars`
(`PageUsesProxy`), which is all the safety theorems need. `ForcedSaveStoresReviewed` has
no theorem: the page never sends the SQL it shows, so only a model that always answers the
same would keep it.

## 6. Not modelled

- **Row values and their conversion** (`resultmap.go`, `_stringify`): a result has rows
  or not, or, for comparison, values told apart by text and equality.
- **The language model and what it reads** (prompt, dialect rules, examples, cached
  schemas): a translation is any of the versions allowed, so nothing the prompt holds
  can make a difference to a property. The shared `Agent` keeps one conversation that
  concurrent requests write into; what the framework does then is not in this
  repository.
- **Connection pools** (ten connections): a wait for one ends with the caller's
  timeout. Counters, logging, listings, samples change nothing a property sees.
- **The SQL shown next to a query's rows**: the page translates once more for display
  and compares it with nothing (`webui/app.py:247`); `Translate` is that call.
- **A knowledge base that is not configured** (every call returns nothing).
- **The order of ids against the order of commits**: `Insert` draws the id and commits
  in one step, where two concurrent insertions may commit in the other order. Ids are
  only compared for equality. Likewise `Upload` reads the clock and uploads in one step,
  and `WithoutSemicolons` drops every semicolon at the end, where `rstrip(';')` leaves those
  in front of a blank; no expected answer has one.
- **What imported DML does to the tables** (`executors.py:46` commits on Redshift
  only), page reloads, several import pages, an agent restart (its requests fail).
- **`06_planb_export.sh`**: one chain of cloud calls without concurrency. Its loops
  treat a failed export like a complete one and wait for ever for a snapshot that
  failed; the loop conditions show it, and a model would only restate them.
- **Infrastructure, test data and conversion scripts** (`gen_50m.py`, `load_*.sh`,
  `xlsx_to_csv.py`, `0[127]_*.sh`, `docker-compose.yml`): run once, sequentially, no
  state of their own.
