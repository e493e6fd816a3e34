------------------------------- MODULE Proxy --------------------------------
(***************************************************************************)
(* The Go proxy: sessions that speak the MySQL protocol, the translation   *)
(* cache and the knowledge-base client they share. One session is one      *)
(* connection goroutine; go-mysql hands it one query at a time, and        *)
(* HandleQuery (proxy/internal/server/server.go) is cut into steps at      *)
(* every access to state another goroutine can see and at every call to    *)
(* the agent, to MySQL or to Redshift.                                     *)
(*                                                                         *)
(* The agent, MySQL and Redshift are the environment. A translation names  *)
(* the query it was written for (its literals are in its text) and one of  *)
(* a few versions; any call may fail or time out.                          *)
(***************************************************************************)
EXTENDS Router, LruCache, KnowledgeClient

CONSTANTS Session,          \* client connections
          Shape,            \* statements up to literals: what cache.Key keeps
          Literal,          \* literals: what cache.Key replaces by ?
          Version,          \* the translations the agent may produce
          Drafts,           \* versions a first translation may have
          Repairs,          \* versions a fix may have
          Noops,            \* shapes shouldNoop answers itself
          Parsable,         \* shapes the parser understands
          TablesOf,         \* shape -> tables the parser finds in it
          Accepted,         \* the translations Redshift can execute
          LongSQL,          \* translations of 8000 bytes or more
          MaxAttempts,      \* MAX_ATTEMPTS
          MySQLConfigured,  \* MYSQL_DSN is not empty
          NoSQL

Query == [shape : Shape, lit : Literal]
SQL   == [for : Query, ver : Version]

ASSUME ProxyAssumption ==
    /\ Query # {}
    /\ Drafts \subseteq Version
    /\ Repairs \subseteq Version
    /\ Noops \subseteq Shape
    /\ Parsable \subseteq Shape
    /\ TablesOf \in [Shape -> SUBSET Table]
    /\ Accepted \subseteq SQL
    /\ MySQLConfigured \in BOOLEAN
    /\ NoSQL \notin SQL

ASSUME MaxAttemptsAssumption == MaxAttempts \in Nat \ {0}

\* What HandleQuery returns: the rows of a translation Redshift executed,
\* MySQL's rows, the empty result of a management command, or an error. A
\* client whose proxy exits in mid-query sees its connection "lost".
RowsOf(t) == [kind |-> "redshift", sql |-> t]
Plain(k)  == [kind |-> k, sql |-> NoSQL]
PlainKind == {"none", "mysql", "empty", "error", "unconfigured", "lost"}
Reply     == {RowsOf(t) : t \in SQL} \union {Plain(k) : k \in PlainKind}

\* An example for the knowledge base: the query and the SQL that served it.
Example == [query : Query, sql : SQL]

\* Wrong on purpose: a normalisation that makes all statements equal.
KeyTooCoarse(q) == CHOOSE x \in Shape : TRUE

\* cache.Key: md5 of the statement with its literals replaced.
Key(q) == q.shape

\* SET, BEGIN, COMMIT, ROLLBACK, USE, SHOW, which the proxy answers itself
shouldNoop(q) == q.shape \in Noops

\* Redshift can run it. A call of it may fail all the same.
ExecSelect(t) == t \in Accepted

FirstTranslations(q) == [for : {q}, ver : Drafts]

\* The agent sees the original statement and the SQL that failed; what it
\* returns may carry the literals of either.
FixTranslations(q, t) == [for : {q, t.for}, ver : Repairs]

VARIABLES up,        \* the process runs
          cache,     \* the translation cache, most recent entry first
          pc,        \* session -> where HandleQuery is
          asked,     \* session -> its current or last query
          rs,        \* session -> rsQuery, the SQL from the cache or the agent
          cur,       \* session -> curSQL, the SQL of the current attempt
          attempt,   \* session -> attempt
          calls,     \* session -> calls of the agent for this query (history)
          rows,      \* session -> the result has rows
          reply,     \* session -> what the client got for its last query
          raced      \* sessions whose parse overlapped another one's

sessionVars == <<asked, rs, cur, attempt, calls, rows, reply>>
vars == <<up, cache, queue, saving, pc, raced, sessionVars>>

Step == {"idle", "dispatch", "parse", "mysql", "lookup", "translate",
         "exec", "fix", "update", "save", "respond"}

Init ==
    /\ up = TRUE
    /\ cache = <<>>
    /\ KnowledgeInit
    /\ pc = [s \in Session |-> "idle"]
    /\ asked = [s \in Session |-> CHOOSE q \in Query : TRUE]
    /\ rs = [s \in Session |-> NoSQL]
    /\ cur = [s \in Session |-> NoSQL]
    /\ attempt = [s \in Session |-> 0]
    /\ calls = [s \in Session |-> 0]
    /\ rows = [s \in Session |-> FALSE]
    /\ reply = [s \in Session |-> Plain("none")]
    /\ raced = {}

-----------------------------------------------------------------------------
(* Steps of HandleQuery *)

Go(s, step) == pc' = [pc EXCEPT ![s] = step]

\* HandleQuery returns r; its locals die with it.
Return(s, r) ==
    /\ Go(s, "idle")
    /\ reply' = [reply EXCEPT ![s] = r]
    /\ rs' = [rs EXCEPT ![s] = NoSQL]
    /\ cur' = [cur EXCEPT ![s] = NoSQL]
    /\ attempt' = [attempt EXCEPT ![s] = 0]
    /\ calls' = [calls EXCEPT ![s] = 0]
    /\ rows' = [rows EXCEPT ![s] = FALSE]
    /\ raced' = raced \ {s}
    /\ UNCHANGED asked

\* The client sends a query.
Ask(s, q) ==
    /\ up
    /\ pc[s] = "idle"
    /\ asked' = [asked EXCEPT ![s] = q]
    /\ reply' = [reply EXCEPT ![s] = Plain("none")]
    /\ Go(s, "dispatch")
    /\ UNCHANGED <<up, cache, queue, saving, rs, cur, attempt, calls, rows, raced>>

\* Management commands get an empty result.
Noop(s) ==
    /\ pc[s] = "dispatch"
    /\ shouldNoop(asked[s])
    /\ Return(s, Plain("empty"))
    /\ UNCHANGED <<up, cache, queue, saving>>

\* Route: without a whitelist it decides at once; otherwise ExtractTables
\* runs the one parser all sessions share, without a lock, and two parses at
\* the same time are a data race.
StartRoute(s) ==
    /\ pc[s] = "dispatch"
    /\ ~shouldNoop(asked[s])
    /\ IF Whitelist = {}
       THEN Go(s, "lookup") /\ UNCHANGED raced
       ELSE LET others == {o \in Session : pc[o] = "parse"}
            IN  /\ raced' = IF others = {} THEN raced ELSE raced \union others \union {s}
                /\ Go(s, "parse")
    /\ UNCHANGED <<up, cache, queue, saving, sessionVars>>

\* The destination of a query that is parsed undisturbed.
Routed(q) == Route(q.shape \in Parsable, TablesOf[q.shape])

\* The destination ExtractTables and Route arrive at. A parse that raced
\* may report any tables, or an error; that it may also panic and take the
\* process down is a Shutdown.
Outcomes(s) == IF s \in raced THEN Destination
               ELSE {Routed(asked[s])}

ToRedshift(s) ==
    /\ pc[s] = "parse"
    /\ "redshift" \in Outcomes(s)
    /\ Go(s, "lookup")
    /\ UNCHANGED <<up, cache, queue, saving, raced, sessionVars>>

ToMySQL(s) ==
    /\ pc[s] = "parse"
    /\ "mysql" \in Outcomes(s)
    /\ IF MySQLConfigured
       THEN Go(s, "mysql") /\ UNCHANGED <<raced, sessionVars>>
       ELSE Return(s, Plain("unconfigured"))
    /\ UNCHANGED <<up, cache, queue, saving>>

\* The pass-through, within its own 60 s.
MySQLAnswers(s) ==
    /\ pc[s] = "mysql"
    /\ \E k \in {"mysql", "error"} : Return(s, Plain(k))
    /\ UNCHANGED <<up, cache, queue, saving>>

\* cache.Get finds the key. The lookup makes the entry the most recent.
CacheHit(s) ==
    /\ pc[s] = "lookup"
    /\ LET k == Key(asked[s])
       IN  /\ Has(cache, k)
           /\ cache' = Touch(cache, k)
           /\ rs' = [rs EXCEPT ![s] = Lookup(cache, k)]
           /\ cur' = [cur EXCEPT ![s] = Lookup(cache, k)]
    /\ Go(s, "exec")
    /\ UNCHANGED <<up, queue, saving, asked, attempt, calls, rows, reply, raced>>

CacheMiss(s) ==
    /\ pc[s] = "lookup"
    /\ ~Has(cache, Key(asked[s]))
    /\ Go(s, "translate")
    /\ UNCHANGED <<up, cache, queue, saving, raced, sessionVars>>

\* The agent answers, and the answer is cached before Redshift has seen it.
\* The answer's arrival touches nothing shared, so arrival and Set are one
\* step.
Translated(s) ==
    /\ pc[s] = "translate"
    /\ \E t \in FirstTranslations(asked[s]) :
        /\ rs' = [rs EXCEPT ![s] = t]
        /\ cur' = [cur EXCEPT ![s] = t]
        /\ cache' = Add(cache, Key(asked[s]), t)
    /\ calls' = [calls EXCEPT ![s] = @ + 1]
    /\ Go(s, "exec")
    /\ UNCHANGED <<up, queue, saving, asked, attempt, rows, reply, raced>>

TranslateFails(s) ==
    /\ pc[s] = "translate"
    /\ Return(s, Plain("error"))
    /\ UNCHANGED <<up, cache, queue, saving>>

\* Redshift executes curSQL; the result has rows or has none.
ExecSucceeds(s) ==
    /\ pc[s] = "exec"
    /\ ExecSelect(cur[s])
    /\ \E b \in BOOLEAN : rows' = [rows EXCEPT ![s] = b]
    /\ Go(s, "update")
    /\ UNCHANGED <<up, cache, queue, saving, asked, rs, cur, attempt, calls, reply, raced>>

\* Wrong on purpose: one attempt too many.
ExecFailsLate(s) ==
    /\ pc[s] = "exec"
    /\ IF attempt[s] + 1 > MaxAttempts
       THEN Return(s, Plain("error"))
       ELSE Go(s, "fix") /\ UNCHANGED <<raced, sessionVars>>
    /\ UNCHANGED <<up, cache, queue, saving>>

\* Redshift refuses curSQL, or the connection fails, or the 60 s that all
\* attempts of one query share are over: the loop does not tell these apart.
ExecFails(s) ==
    /\ pc[s] = "exec"
    /\ IF attempt[s] + 1 >= MaxAttempts
       THEN Return(s, Plain("error"))
       ELSE Go(s, "fix") /\ UNCHANGED <<raced, sessionVars>>
    /\ UNCHANGED <<up, cache, queue, saving>>

\* Wrong on purpose: the fix is cached before it has been executed.
FixedAndCached(s) ==
    /\ pc[s] = "fix"
    /\ \E t \in FixTranslations(asked[s], cur[s]) :
        /\ cur' = [cur EXCEPT ![s] = t]
        /\ cache' = Add(cache, Key(asked[s]), t)
    /\ attempt' = [attempt EXCEPT ![s] = @ + 1]
    /\ calls' = [calls EXCEPT ![s] = @ + 1]
    /\ Go(s, "exec")
    /\ UNCHANGED <<up, queue, saving, asked, rs, rows, reply, raced>>

\* Wrong on purpose: a fix does not count as an attempt.
FixedUncounted(s) ==
    /\ pc[s] = "fix"
    /\ \E t \in FixTranslations(asked[s], cur[s]) : cur' = [cur EXCEPT ![s] = t]
    /\ calls' = [calls EXCEPT ![s] = @ + 1]
    /\ Go(s, "exec")
    /\ UNCHANGED <<up, cache, queue, saving, asked, rs, attempt, rows, reply, raced>>

\* The agent is given the error and answers with another SQL.
Fixed(s) ==
    /\ pc[s] = "fix"
    /\ \E t \in FixTranslations(asked[s], cur[s]) : cur' = [cur EXCEPT ![s] = t]
    /\ attempt' = [attempt EXCEPT ![s] = @ + 1]
    /\ calls' = [calls EXCEPT ![s] = @ + 1]
    /\ Go(s, "exec")
    /\ UNCHANGED <<up, cache, queue, saving, asked, rs, rows, reply, raced>>

FixFails(s) ==
    /\ pc[s] = "fix"
    /\ Return(s, Plain("error"))
    /\ UNCHANGED <<up, cache, queue, saving>>

\* Wrong on purpose: the cache keeps the first translation.
UpdateNothing(s) ==
    /\ pc[s] = "update"
    /\ Go(s, "save")
    /\ UNCHANGED <<up, cache, queue, saving, raced, sessionVars>>

\* The SQL that worked replaces the cached one if the loop had to change it.
UpdateCache(s) ==
    /\ pc[s] = "update"
    /\ cache' = IF cur[s] # rs[s] THEN Add(cache, Key(asked[s]), cur[s])
                                  ELSE cache
    /\ Go(s, "save")
    /\ UNCHANGED <<up, queue, saving, raced, sessionVars>>

\* Wrong on purpose: the first translation is saved instead of the SQL that
\* worked.
SaveFirst(s) ==
    /\ pc[s] = "save"
    /\ IF rows[s] /\ cur[s] \notin LongSQL
       THEN Enqueue([query |-> asked[s], sql |-> rs[s]])
       ELSE UNCHANGED queue
    /\ Go(s, "respond")
    /\ UNCHANGED <<up, cache, saving, raced, sessionVars>>

\* A result with rows and SQL of less than 8000 bytes make an example for the
\* knowledge base. SaveAsync never waits.
SaveExample(s) ==
    /\ pc[s] = "save"
    /\ IF rows[s] /\ cur[s] \notin LongSQL
       THEN Enqueue([query |-> asked[s], sql |-> cur[s]])
       ELSE UNCHANGED queue
    /\ Go(s, "respond")
    /\ UNCHANGED <<up, cache, saving, raced, sessionVars>>

\* Wrong on purpose: the reply is attributed to the first translation.
RespondFirst(s) ==
    /\ pc[s] = "respond"
    /\ \E r \in {RowsOf(rs[s]), Plain("error")} : Return(s, r)
    /\ UNCHANGED <<up, cache, queue, saving>>

\* resultmap.ToMySQL builds the reply, or fails.
Respond(s) ==
    /\ pc[s] = "respond"
    /\ \E r \in {RowsOf(cur[s]), Plain("error")} : Return(s, r)
    /\ UNCHANGED <<up, cache, queue, saving>>

-----------------------------------------------------------------------------
(* The worker, and the process *)

SaveWorkerTake == Take /\ UNCHANGED <<up, cache, pc, raced, sessionVars>>
SaveWorkerDone == PostDone /\ UNCHANGED <<up, cache, pc, raced, sessionVars>>

\* main returns on a signal without waiting for anybody (a panic in a
\* session's goroutine does the same): queries in flight, the cache and the
\* queued examples are gone.
Shutdown ==
    /\ up
    /\ up' = FALSE
    /\ cache' = <<>>
    /\ KnowledgeLost
    /\ reply' = [s \in Session |->
                    IF pc[s] = "idle" THEN reply[s] ELSE Plain("lost")]
    /\ pc' = [s \in Session |-> "idle"]
    /\ rs' = [s \in Session |-> NoSQL]
    /\ cur' = [s \in Session |-> NoSQL]
    /\ attempt' = [s \in Session |-> 0]
    /\ calls' = [s \in Session |-> 0]
    /\ rows' = [s \in Session |-> FALSE]
    /\ raced' = {}
    /\ UNCHANGED asked

\* An operator starts the process again.
Startup ==
    /\ ~up
    /\ up' = TRUE
    /\ UNCHANGED <<cache, queue, saving, pc, raced, sessionVars>>

\* What the server does for session s once a query has arrived.
Serve(s) ==
    \/ Noop(s) \/ StartRoute(s) \/ ToRedshift(s) \/ ToMySQL(s)
    \/ MySQLAnswers(s)
    \/ CacheHit(s) \/ CacheMiss(s) \/ Translated(s) \/ TranslateFails(s)
    \/ ExecSucceeds(s) \/ ExecFails(s) \/ Fixed(s) \/ FixFails(s)
    \/ UpdateCache(s) \/ SaveExample(s) \/ Respond(s)

Worker == SaveWorkerTake \/ SaveWorkerDone

Next ==
    \/ \E s \in Session : Serve(s) \/ \E q \in Query : Ask(s, q)
    \/ Worker
    \/ Shutdown
    \/ Startup

\* Every call a session waits for has a timeout (60 s at the agent, at MySQL
\* and over the attempts at Redshift), so a session with a query keeps going.
\* Nothing is assumed of clients, of the operator or of the worker.
Spec == Init /\ [][Next]_vars /\ \A s \in Session : WF_vars(Serve(s))

-----------------------------------------------------------------------------
(* What the proxy promises *)

\* The value of every variable has its type.
TypeOK ==
    /\ up \in BOOLEAN
    /\ cache \in Seq([key : Shape, sql : SQL])
    /\ queue \in Seq(Example)
    /\ saving \in Example \union {NoExample}
    /\ pc \in [Session -> Step]
    /\ asked \in [Session -> Query]
    /\ rs \in [Session -> SQL \union {NoSQL}]
    /\ cur \in [Session -> SQL \union {NoSQL}]
    /\ attempt \in [Session -> 0 .. MaxAttempts - 1]
    /\ calls \in [Session -> Nat]
    /\ rows \in [Session -> BOOLEAN]
    /\ reply \in [Session -> Reply]
    /\ raced \subseteq Session

\* The cache never holds more than CACHE_SIZE entries nor two entries for one
\* key, whatever lookups and Sets of several sessions (first translations and
\* repairs of the same statement among them) come in between.
CacheWellFormed ==
    /\ Len(cache) <= CacheSize
    /\ \A i, j \in DOMAIN cache : cache[i].key = cache[j].key => i = j

\* Statements of different shape never get into each other's way: what is
\* cached under a key, what a session runs and what a client is answered was
\* translated from a query of that very shape.
ShapesNeverMix ==
    /\ \A i \in DOMAIN cache : cache[i].sql.for.shape = cache[i].key
    /\ \A s \in Session :
        /\ rs[s] # NoSQL => rs[s].for.shape = asked[s].shape
        /\ cur[s] # NoSQL => cur[s].for.shape = asked[s].shape
        /\ reply[s].sql # NoSQL => reply[s].sql.for.shape = asked[s].shape

\* A repair reaches the cache only after Redshift has executed it: what is
\* cached without being executable is a first translation, never one of the
\* fixes the retry loop went through.
RepairsProven ==
    \A i \in DOMAIN cache :
        cache[i].sql \in Accepted \/ cache[i].sql.ver \in Drafts

\* The knowledge base learns only SQL that Redshift executed, short enough,
\* next to a query of its shape: the failed first translation and the failed
\* fixes of a query never get there, whatever the cache says meanwhile.
ExamplesProven ==
    \A e \in {queue[i] : i \in DOMAIN queue} \union ({saving} \ {NoExample}) :
        /\ e.sql \in Accepted \ LongSQL
        /\ e.sql.for.shape = e.query.shape

\* server.go: MAX_ATTEMPTS counts what Redshift is given. Each SQL it is given
\* costs one call of the agent at most, and no fix goes untried: a query costs
\* as many calls as it has had fixes, and one for its first translation unless
\* the cache had it; and it has always had fewer fixes than MAX_ATTEMPTS. (The
\* documents grant MAX_ATTEMPTS fixes: no query ever gets the last of them.)
AgentCallsBounded ==
    \A s \in Session :
        LET fixes == attempt[s]
        IN  /\ fixes < MaxAttempts
            /\ calls[s] \in {fixes, fixes + 1}

\* The cache forgets what was not used for longest. A lookup counts as a use;
\* whatever a session does, an entry loses one place at most, and it is the
\* last entry of a full cache that goes, for a key that was not cached.
EvictsLeastRecent ==
    [][/\ \A s \in Session :
            pc[s] = "lookup" /\ pc'[s] = "exec" => cache'[1].key = Key(asked[s])
       /\ cache' # <<>> =>
            \A i \in DOMAIN cache :
                \/ \E j \in DOMAIN cache' : j <= i + 1 /\ cache'[j].key = cache[i].key
                \/ i = CacheSize /\ ~Has(cache, cache'[1].key)]_<<cache, pc>>

\* Executable SQL in the cache is only ever replaced, under its key, by
\* executable SQL.
ProvenNotOverwritten ==
    [][\A i \in DOMAIN cache, j \in DOMAIN cache' :
          /\ cache[i].key = cache'[j].key
          /\ cache[i].sql \in Accepted
          => cache'[j].sql \in Accepted]_cache

\* How many more steps the server takes for session s at most: an attempt
\* takes two, its execution and the fix before the next one.
StepsLeft(s) ==
    LET attempts == 2 * (MaxAttempts - 1 - attempt[s])
    IN  CASE pc[s] = "idle" -> 0
          [] pc[s] \in {"respond", "mysql"} -> 1
          [] pc[s] = "save" -> 2
          [] pc[s] = "update" -> 3
          [] pc[s] = "fix" -> 3 + attempts
          [] pc[s] = "exec" -> 4 + attempts
          [] pc[s] = "translate" -> 5 + attempts
          [] pc[s] = "lookup" -> 6 + attempts
          [] pc[s] = "parse" -> 7 + attempts
          [] pc[s] = "dispatch" -> 8 + attempts

\* The retry loop of server.go gets on: every step the server takes for a
\* session brings its query nearer to the answer, through all attempts, and
\* nothing that other sessions, the worker or the process do sends it back.
\* So a query is answered after 2 * MAX_ATTEMPTS + 6 steps at most.
QueriesGetOn ==
    [][\A s \in Session :
          /\ Serve(s) => StepsLeft(s)' < StepsLeft(s)
          /\ pc[s] # "idle" => StepsLeft(s)' <= StepsLeft(s)]_vars

\* When a query is answered with rows, the cache holds the SQL that produced
\* them, in the most recent place.
ReplyCached ==
    [][\A s \in Session :
          pc[s] # "idle" /\ reply'[s].kind = "redshift" =>
              /\ cache' # <<>>
              /\ cache'[1] = [key |-> Key(asked[s]), sql |-> reply'[s].sql]]_reply

\* server.go: after a query that succeeded, the cache holds SQL that really
\* executes (unless the entry was evicted).
SuccessIsCached ==
    \A s \in Session :
        pc[s] = "respond" /\ Has(cache, Key(asked[s])) =>
            Lookup(cache, Key(asked[s])) \in Accepted

\* cache.go: parameters are substituted by the layer above, so that a client
\* gets the rows of its own query.
AnswersOwnQuery ==
    \A s \in Session : reply[s].sql # NoSQL => reply[s].sql.for = asked[s]

\* router.go: a statement runs on MySQL only if it names a table outside the
\* whitelist.
RoutedByWhitelist ==
    \A s \in Session :
        pc[s] = "mysql" => Routed(asked[s]) = "mysql"

\* Every query is answered, even if the knowledge-base worker never moves and
\* its channel is full: saving an example does not block.
EveryQueryAnswered ==
    \A s \in Session : pc[s] # "idle" ~> pc[s] = "idle"

\* An example in the channel gets its turn, however many others sessions keep
\* adding, unless the process exits first. (Each post is bounded by its 10 s
\* timeout, so the worker keeps going; only this property supposes so.)
ExamplesGetTheirTurn ==
    WF_vars(Worker) =>
    \A e \in {x \in Example : /\ x.sql \in Accepted \ LongSQL
                             /\ x.sql.for.shape = x.query.shape} :
        (\E i \in DOMAIN queue : queue[i] = e) ~> (saving = e \/ ~up)

\* The answers a query may get.
AnswersTo ==
    [q \in Query |->
        IF shouldNoop(q) THEN {Plain("empty")}
        ELSE {Plain("error")}
             \union {RowsOf(t) : t \in {t \in Accepted : t.for.shape = q.shape}}
             \union (IF Whitelist = {} THEN {}
                     ELSE IF MySQLConfigured THEN {Plain("mysql")}
                     ELSE {Plain("unconfigured")})]

\* The proxy is a query service: the client of every session sees exactly one
\* answer to each query, one the query may get, or the loss of its connection.
Service == INSTANCE QueryService WITH
               busy <- {s \in Session : pc[s] # "idle"},
               Answers <- AnswersTo,
               None <- Plain("none"), Lost <- Plain("lost")

ImplementsService == Service!Spec
=============================================================================
