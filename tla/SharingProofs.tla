--------------------------- MODULE SharingProofs ----------------------------
(***************************************************************************)
(* What keeps sessions from spoiling each other's answers and cache        *)
(* entries, and what a reader may rely on where nothing does. A session    *)
(* alone on its proxy sees nothing change between its own steps; so does   *)
(* one whose keys no other session holds, as far as its own entry goes;    *)
(* one that alone asks the parser gets its own type back; and a statement  *)
(* whose key tells its literals is answered with a translation of itself.  *)
(***************************************************************************)
EXTENDS ProxyProofs

(* One session's step *)

\* Serving one session leaves the locals of the others alone.
LEMMA OneServes ==
    ASSUME TypeOK, NEW o \in Session, Serve(o), NEW s \in Session \ {o}
    PROVE  UNCHANGED <<pc[s], asked[s], rs[s], cur[s], attempt[s], calls[s]>> /\ pc[o] # "idle"
<1> USE DEF TypeOK, Go
<1>1. CASE Noop(o) \/ MySQLAnswers(o) \/ TranslateFails(o) \/ FixFails(o) \/ Respond(o)
  BY <1>1 DEF Noop, MySQLAnswers, TranslateFails, FixFails, Respond, Return
<1>2. CASE StartRoute(o) \/ ToRedshift(o) \/ ToMySQL(o)
  BY <1>2 DEF StartRoute, ToRedshift, ToMySQL, Return, sessionVars
<1>3. CASE CacheHit(o) \/ CacheMiss(o) \/ Translated(o)
  BY <1>3 DEF CacheHit, CacheMiss, Translated, sessionVars
<1>4. CASE ExecSucceeds(o) \/ ExecFails(o) \/ Fixed(o)
  BY <1>4 DEF ExecSucceeds, ExecFails, Fixed, Return, sessionVars
<1>5. CASE UpdateCache(o) \/ SaveExample(o)
  BY <1>5 DEF UpdateCache, SaveExample, sessionVars
<1> QED  BY <1>1, <1>2, <1>3, <1>4, <1>5 DEF Serve

\* Serving a session leaves the cache alone, looks its key up or sets it.
LEMMA ServeCache ==
    ASSUME TypeOK, Stages, NEW o \in Session, Serve(o)
    PROVE  \/ cache' = cache
           \/ CacheHit(o)
           \/ \E t \in SQL : cache' = Add(cache, Key(asked[o]), t)
<1>1. CASE Noop(o) \/ StartRoute(o) \/ ToRedshift(o) \/ ToMySQL(o) \/ MySQLAnswers(o)
           \/ CacheMiss(o) \/ TranslateFails(o)
  BY <1>1 DEF Noop, StartRoute, ToRedshift, ToMySQL, MySQLAnswers, CacheMiss, TranslateFails
<1>2. CASE ExecSucceeds(o) \/ ExecFails(o) \/ Fixed(o) \/ FixFails(o) \/ SaveExample(o)
           \/ Respond(o)
  BY <1>2 DEF ExecSucceeds, ExecFails, Fixed, FixFails, SaveExample, Respond
<1>3. CASE Translated(o)
  <2>1. PICK t \in FirstTranslations(asked[o]) : cache' = Add(cache, Key(asked[o]), t)
    BY <1>3 DEF Translated
  <2>2. t \in SQL
    BY <2>1, ProxyAssumption DEF TypeOK, FirstTranslations, SQL
  <2> QED  BY <2>1, <2>2
<1>4. CASE UpdateCache(o)
  BY <1>4 DEF UpdateCache, Stages, During
<1> QED  BY <1>1, <1>2, <1>3, <1>4 DEF Serve

\* Serving a session marks parses only when it starts one of its own.
LEMMA ServeRaced ==
    ASSUME NEW o \in Session, Serve(o)
    PROVE  UNCHANGED raced \/ raced' = raced \ {o} \/ StartRoute(o)
<1>1. CASE Noop(o) \/ MySQLAnswers(o) \/ TranslateFails(o) \/ FixFails(o) \/ Respond(o)
  BY <1>1 DEF Noop, MySQLAnswers, TranslateFails, FixFails, Respond, Return
<1>2. CASE ToRedshift(o) \/ ToMySQL(o) \/ ExecFails(o)
  BY <1>2 DEF ToRedshift, ToMySQL, ExecFails, Return
<1>3. CASE CacheHit(o) \/ CacheMiss(o) \/ Translated(o) \/ ExecSucceeds(o) \/ Fixed(o)
           \/ UpdateCache(o) \/ SaveExample(o)
  BY <1>3 DEF CacheHit, CacheMiss, Translated, ExecSucceeds, Fixed, UpdateCache, SaveExample
<1> QED  BY <1>1, <1>2, <1>3 DEF Serve

-----------------------------------------------------------------------------
(* A lone session *)

\* What a session that shares the cache with nobody finds there, by the place
\* it is at: nothing before it sets its key, then the first translation, and
\* what it has run successfully in the end.
InFront(k, t) == cache # <<>> /\ cache[1] = [key |-> k, sql |-> t]

Undisturbed ==
    \A s \in Session :
        /\ pc[s] = "translate" => ~Has(cache, Key(asked[s]))
        /\ pc[s] \in {"exec", "fix", "update"} => InFront(Key(asked[s]), rs[s])
        /\ pc[s] \in {"save", "respond"} => InFront(Key(asked[s]), cur[s])

LEMMA UndisturbedSteps ==
    ASSUME \A s, o \in Session : s = o, TypeOK, Stages, Undisturbed, [Next]_vars
    PROVE  Undisturbed'
<1> SUFFICES ASSUME NEW s \in Session
             PROVE  /\ pc'[s] = "translate" => ~Has(cache', Key(asked'[s]))
                    /\ pc'[s] \in {"exec", "fix", "update"} => InFront(Key(asked[s]), rs[s])'
                    /\ pc'[s] \in {"save", "respond"} => InFront(Key(asked[s]), cur[s])'
  BY DEF Undisturbed
<1> DEFINE Good ==
        /\ pc'[s] = "translate" => ~Has(cache', Key(asked'[s]))
        /\ pc'[s] \in {"exec", "fix", "update"} => InFront(Key(asked[s]), rs[s])'
        /\ pc'[s] \in {"save", "respond"} => InFront(Key(asked[s]), cur[s])'
<1>1. CASE UNCHANGED <<pc, cache, asked, rs, cur>>
  BY <1>1 DEF Undisturbed, InFront
<1>2. CASE pc'[s] \in Before \ {"translate"}
  BY <1>2 DEF Before
<1>3. CASE CacheHit(s)
  <2>1. cache \in Seq(Entry) /\ \A e \in Entry : e = [key |-> e.key, sql |-> e.sql]
    BY CacheTyped DEF Entry
  <2>2. cache' # <<>> /\ cache'[1] = [key |-> Key(asked[s]), sql |-> Lookup(cache, Key(asked[s]))]
    <3>1. Has(cache, Key(asked[s])) /\ cache' = Touch(cache, Key(asked[s]))
      BY <1>3 DEF CacheHit
    <3> QED  BY <2>1, <3>1, TouchFront
  <2> QED  BY <1>3, <2>2 DEF CacheHit, Go, InFront, TypeOK
<1>4. CASE CacheMiss(s)
  BY <1>4 DEF CacheMiss, Go, TypeOK, sessionVars
<1>5. CASE Translated(s)
  <2>1. PICK t \in FirstTranslations(asked[s]) :
            /\ rs' = [rs EXCEPT ![s] = t]
            /\ cache' = Add(cache, Key(asked[s]), t)
    BY <1>5 DEF Translated
  <2>2. t \in SQL
    BY <2>1, ProxyAssumption DEF TypeOK, FirstTranslations, SQL
  <2>3. cache' # <<>> /\ cache'[1] = [key |-> Key(asked[s]), sql |-> t]
    BY <2>1, <2>2, CacheTyped, AddProperties
  <2> QED  BY <1>5, <2>1, <2>3 DEF Translated, Go, InFront, TypeOK
<1>6. CASE ExecSucceeds(s) \/ Fixed(s)
  BY <1>6 DEF ExecSucceeds, Fixed, Go, Undisturbed, InFront, TypeOK
<1>7. CASE ExecFails(s)
  BY <1>7, <1>2 DEF ExecFails, Return, Go, Undisturbed, InFront, TypeOK, Before, sessionVars
<1>8. CASE UpdateCache(s)
  <2>1. CASE cur[s] = rs[s]
    BY <1>8, <2>1 DEF UpdateCache, Go, Undisturbed, InFront, TypeOK, sessionVars
  <2>2. CASE cur[s] # rs[s]
    <3>1. cur[s] \in SQL
      BY <1>8 DEF UpdateCache, Stages, During
    <3>2. cache' = Add(cache, Key(asked[s]), cur[s])
      BY <1>8, <2>2 DEF UpdateCache
    <3>3. cache' # <<>> /\ cache'[1] = [key |-> Key(asked[s]), sql |-> cur[s]]
      BY <3>1, <3>2, CacheTyped, AddProperties
    <3> QED  BY <1>8, <3>3 DEF UpdateCache, Go, InFront, TypeOK, sessionVars
  <2> QED  BY <2>1, <2>2
<1>9. CASE SaveExample(s)
  BY <1>9 DEF SaveExample, Go, Undisturbed, InFront, TypeOK, sessionVars
<1>10. CASE Serve(s)
  <2>1. CASE Noop(s) \/ StartRoute(s) \/ ToRedshift(s) \/ ToMySQL(s) \/ MySQLAnswers(s)
             \/ TranslateFails(s) \/ FixFails(s) \/ Respond(s)
    <3>1. pc'[s] \in Before \ {"translate"}
      BY <2>1 DEF Noop, StartRoute, ToRedshift, ToMySQL, MySQLAnswers, TranslateFails,
                  FixFails, Respond, Return, Go, TypeOK, Before
    <3> QED  BY <1>2, <3>1
  <2> QED  BY <1>3, <1>4, <1>5, <1>6, <1>7, <1>8, <1>9, <1>10, <2>1 DEF Serve
<1>11. CASE Shutdown
  BY <1>11, <1>2 DEF Shutdown, Before
<1>12. CASE \E q \in Query : Ask(s, q)
  BY <1>12, <1>2 DEF Ask, Go, TypeOK, Before
<1>13. CASE Worker \/ Startup \/ UNCHANGED vars
  BY <1>13, <1>1 DEF Worker, SaveWorkerTake, SaveWorkerDone, Startup, vars, sessionVars
<1> QED  BY <1>10, <1>11, <1>12, <1>13 DEF Next

LEMMA LoneSession ==
    ASSUME \A s, o \in Session : s = o
    PROVE  Spec => []Undisturbed
<1>1. Init => Undisturbed
  BY DEF Init, Undisturbed
<1>2. TypeOK /\ Stages /\ Undisturbed /\ [Next]_vars => Undisturbed'
  BY UndisturbedSteps
<1> QED  BY <1>1, <1>2, Typed, PTL DEF Spec

\* What ReplyCached and ProvenNotOverwritten say of one step.
CachedStep ==
    \A s \in Session :
      pc[s] # "idle" /\ reply'[s].kind = "redshift" =>
          /\ cache' # <<>>
          /\ cache'[1] = [key |-> Key(asked[s]), sql |-> reply'[s].sql]

KeptStep ==
    \A i \in DOMAIN cache, j \in DOMAIN cache' :
      /\ cache[i].key = cache'[j].key
      /\ cache[i].sql \in Accepted
      => cache'[j].sql \in Accepted

\* An answer with rows comes from the front of an undisturbed cache.
LEMMA CachedSteps ==
    ASSUME \A s, o \in Session : s = o, TypeOK, Undisturbed, [Next]_vars
    PROVE  [CachedStep]_reply
<1> SUFFICES ASSUME TypeOK, Undisturbed, [Next]_vars, reply' # reply,
                    NEW s \in Session, pc[s] # "idle", reply'[s].kind = "redshift"
             PROVE  cache' # <<>> /\ cache'[1] = [key |-> Key(asked[s]), sql |-> reply'[s].sql]
  BY DEF CachedStep
<1>1. CASE Respond(s)
  <2>1. PICK r \in {RowsOf(cur[s]), Plain("error")} : Return(s, r)
    BY <1>1 DEF Respond
  <2>2. reply'[s] = r
    BY <2>1 DEF Return, TypeOK
  <2>3. r = RowsOf(cur[s])
    BY <2>1, <2>2 DEF Plain
  <2>4. pc[s] = "respond" /\ cache' = cache
    BY <1>1 DEF Respond
  <2>5. InFront(Key(asked[s]), cur[s])
    BY <2>4 DEF Undisturbed
  <2>6. reply'[s].sql = cur[s]
    BY <2>2, <2>3 DEF RowsOf
  <2> QED  BY <2>4, <2>5, <2>6 DEF InFront
<1>2. ASSUME NEW k \in PlainKind, Return(s, Plain(k)) PROVE FALSE
  BY <1>2 DEF Return, TypeOK, Plain, PlainKind
<1>3. CASE Noop(s) \/ ToMySQL(s) \/ MySQLAnswers(s) \/ TranslateFails(s)
           \/ ExecFails(s) \/ FixFails(s)
  BY <1>2, <1>3 DEF Noop, ToMySQL, MySQLAnswers, TranslateFails, ExecFails, FixFails,
                    PlainKind, sessionVars
<1>4. CASE StartRoute(s) \/ ToRedshift(s) \/ CacheHit(s) \/ CacheMiss(s) \/ Translated(s)
           \/ ExecSucceeds(s) \/ Fixed(s) \/ UpdateCache(s) \/ SaveExample(s)
  BY <1>4 DEF StartRoute, ToRedshift, CacheHit, CacheMiss, Translated, ExecSucceeds,
              Fixed, UpdateCache, SaveExample, sessionVars
<1>5. CASE Serve(s)
  BY <1>1, <1>3, <1>4, <1>5 DEF Serve
<1>6. CASE Shutdown
  BY <1>6 DEF Shutdown, Plain
<1>7. CASE (\E q \in Query : Ask(s, q)) \/ Worker \/ Startup \/ UNCHANGED vars
  BY <1>7 DEF Ask, Worker, SaveWorkerTake, SaveWorkerDone, Startup, vars, sessionVars
<1> QED  BY <1>5, <1>6, <1>7 DEF Next

\* A session that shares the cache with nobody leaves the SQL of its answer
\* there: what a second session breaks is only what sharing breaks.
THEOREM LoneReplyCached ==
    ASSUME \A s, o \in Session : s = o
    PROVE  Spec => ReplyCached
<1>1. TypeOK /\ Undisturbed /\ [Next]_vars => [CachedStep]_reply
  BY CachedSteps
<1> QED  BY <1>1, Typed, LoneSession, PTL DEF Spec, ReplyCached, CachedStep

-----------------------------------------------------------------------------
(* A key of one's own *)

\* Queries that are served at the same time have different keys.
KeysApart ==
    \A s, o \in Session :
        s # o /\ pc[s] # "idle" /\ pc[o] # "idle" => Key(asked[s]) # Key(asked[o])

\* What is cached under key k, if anything, is t.
Holds(k, t) == \A i \in DOMAIN cache : cache[i].key = k => cache[i].sql = t

\* What a session finds under its key when nobody else works on that key: the
\* entry may be evicted, but is never another one's.
Unshared ==
    \A s \in Session :
        /\ pc[s] = "translate" => ~Has(cache, Key(asked[s]))
        /\ pc[s] \in {"exec", "fix", "update"} => Holds(Key(asked[s]), rs[s])
        /\ pc[s] \in {"save", "respond"} => Holds(Key(asked[s]), cur[s])

\* What a session knows of its key is not touched by a step that keeps the
\* session where it is and puts nothing new under that key.
LEMMA OthersUnshared ==
    ASSUME Unshared, NEW s \in Session,
           UNCHANGED <<pc[s], asked[s], rs[s], cur[s]>>,
           \A j \in DOMAIN cache' : \/ \E m \in DOMAIN cache : cache'[j] = cache[m]
                                    \/ cache'[j].key # Key(asked[s])
    PROVE  /\ pc'[s] = "translate" => ~Has(cache', Key(asked'[s]))
           /\ pc'[s] \in {"exec", "fix", "update"} => Holds(Key(asked[s]), rs[s])'
           /\ pc'[s] \in {"save", "respond"} => Holds(Key(asked[s]), cur[s])'
BY DEF Unshared, Holds, Has, Key

\* After Set the key holds the new SQL and nothing else.
LEMMA AddHolds ==
    ASSUME TypeOK, CacheWellFormed', NEW s \in Session, NEW t \in SQL,
           cache' = Add(cache, Key(asked[s]), t)
    PROVE  \A i \in DOMAIN cache' : cache'[i].key = Key(asked[s]) => cache'[i].sql = t
<1>1. /\ cache' \in Seq(Entry) /\ cache' # <<>>
      /\ cache'[1] = [key |-> Key(asked[s]), sql |-> t]
  BY CacheTyped, AddProperties
<1>2. 1 \in DOMAIN cache'
  BY <1>1, LenProperties, EmptySeq
<1> QED  BY <1>1, <1>2 DEF CacheWellFormed

LEMMA UnsharedSteps ==
    ASSUME TypeOK, Stages, CacheWellFormed, CacheWellFormed', KeysApart, Unshared,
           [Next]_vars
    PROVE  Unshared'
<1> DEFINE Good(s) ==
        /\ pc'[s] = "translate" => ~Has(cache', Key(asked'[s]))
        /\ pc'[s] \in {"exec", "fix", "update"} => Holds(Key(asked[s]), rs[s])'
        /\ pc'[s] \in {"save", "respond"} => Holds(Key(asked[s]), cur[s])'
<1> SUFFICES ASSUME NEW s \in Session PROVE Good(s)
  BY DEF Unshared
<1>1. ASSUME UNCHANGED <<pc[s], asked[s], rs[s], cur[s], cache>> PROVE Good(s)
  BY <1>1, OthersUnshared
<1>2. CASE pc'[s] \in Before \ {"translate"}
  BY <1>2 DEF Before
<1>3. ASSUME NEW o \in Session \ {s}, Serve(o) PROVE Good(s)
  <2>1. UNCHANGED <<pc[s], asked[s], rs[s], cur[s]>> /\ pc[o] # "idle"
    BY <1>3, OneServes
  <2>2. CASE cache' = cache
    BY <1>1, <2>1, <2>2
  <2>3. CASE CacheHit(o)
    <3>1. \A j \in DOMAIN cache' : \E m \in DOMAIN cache : cache'[j] = cache[m]
      BY <2>3, CacheTyped, TouchProperties DEF CacheHit
    <3> QED  BY <2>1, <3>1, OthersUnshared
  <2>4. ASSUME NEW t \in SQL, cache' = Add(cache, Key(asked[o]), t) PROVE Good(s)
    <3>1. \A j \in DOMAIN cache' : \/ cache'[j] = [key |-> Key(asked[o]), sql |-> t]
                                   \/ \E m \in DOMAIN cache : cache'[j] = cache[m]
      BY <2>4, CacheTyped, AddProperties
    <3>2. CASE pc[s] = "idle"
      BY <1>2, <2>1, <3>2 DEF Before
    <3>3. CASE pc[s] # "idle"
      <4>1. Key(asked[o]) # Key(asked[s])
        BY <1>3, <2>1, <3>3 DEF KeysApart
      <4> QED  BY <2>1, <3>1, <4>1, OthersUnshared
    <3> QED  BY <3>2, <3>3
  <2> QED  BY <1>3, <2>2, <2>3, <2>4, ServeCache
<1>4. CASE CacheHit(s)
  <2> DEFINE k == Key(asked[s])
  <2>1. /\ rs'[s] = Lookup(cache, k) /\ pc'[s] = "exec" /\ asked'[s] = asked[s]
        /\ Has(cache, k) /\ cache' = Touch(cache, k)
    BY <1>4 DEF CacheHit, Go, TypeOK
  <2>2. /\ \A j \in DOMAIN cache' : \E m \in DOMAIN cache : cache'[j] = cache[m]
        /\ \E m \in DOMAIN cache : cache[m].key = k /\ cache[m].sql = Lookup(cache, k)
    <3> HIDE DEF k
    <3> QED  BY <2>1, CacheTyped, TouchProperties
  <2>3. \A j \in DOMAIN cache' : cache'[j].key = k => cache'[j].sql = Lookup(cache, k)
    <3> HIDE DEF k
    <3> QED  BY <2>2 DEF CacheWellFormed
  <2> QED  BY <2>1, <2>3 DEF Holds, Key
<1>5. CASE CacheMiss(s)
  BY <1>5 DEF CacheMiss, Go, TypeOK, sessionVars
<1>6. CASE Translated(s)
  <2>1. PICK t \in FirstTranslations(asked[s]) :
            rs' = [rs EXCEPT ![s] = t] /\ cache' = Add(cache, Key(asked[s]), t)
    BY <1>6 DEF Translated
  <2>2. t \in SQL
    BY <2>1, ProxyAssumption DEF TypeOK, FirstTranslations, SQL
  <2>3. \A i \in DOMAIN cache' : cache'[i].key = Key(asked[s]) => cache'[i].sql = t
    BY <2>1, <2>2, AddHolds
  <2> QED  BY <1>6, <2>1, <2>3 DEF Translated, Go, Holds, Key, TypeOK
<1>7. CASE ExecSucceeds(s) \/ Fixed(s)
  BY <1>7 DEF ExecSucceeds, Fixed, Go, Unshared, Holds, Key, TypeOK
<1>8. CASE ExecFails(s)
  BY <1>8, <1>2 DEF ExecFails, Return, Go, Unshared, Holds, Key, TypeOK, Before, sessionVars
<1>9. CASE UpdateCache(s)
  <2>1. CASE cur[s] = rs[s]
    BY <1>9, <2>1 DEF UpdateCache, Go, Unshared, Holds, Key, TypeOK, sessionVars
  <2>2. CASE cur[s] # rs[s]
    <3>1. cur[s] \in SQL /\ cache' = Add(cache, Key(asked[s]), cur[s])
      BY <1>9, <2>2 DEF UpdateCache, Stages, During
    <3>2. \A i \in DOMAIN cache' : cache'[i].key = Key(asked[s]) => cache'[i].sql = cur[s]
      BY <3>1, AddHolds
    <3> QED  BY <1>9, <3>2 DEF UpdateCache, Go, Holds, Key, TypeOK, sessionVars
  <2> QED  BY <2>1, <2>2
<1>10. CASE SaveExample(s)
  BY <1>10 DEF SaveExample, Go, Unshared, Holds, Key, TypeOK, sessionVars
<1>11. CASE Serve(s)
  <2>1. CASE Noop(s) \/ StartRoute(s) \/ ToRedshift(s) \/ ToMySQL(s) \/ MySQLAnswers(s)
             \/ TranslateFails(s) \/ FixFails(s) \/ Respond(s)
    <3>1. pc'[s] \in Before \ {"translate"}
      BY <2>1 DEF Noop, StartRoute, ToRedshift, ToMySQL, MySQLAnswers, TranslateFails,
                  FixFails, Respond, Return, Go, TypeOK, Before
    <3> QED  BY <1>2, <3>1
  <2> QED  BY <1>4, <1>5, <1>6, <1>7, <1>8, <1>9, <1>10, <1>11, <2>1 DEF Serve
<1>12. CASE Shutdown
  BY <1>12, <1>2 DEF Shutdown, Before
<1>13. ASSUME NEW o \in Session, NEW q \in Query, Ask(o, q) PROVE Good(s)
  <2>1. CASE o = s
    BY <1>13, <1>2, <2>1 DEF Ask, Go, TypeOK, Before
  <2>2. CASE o # s
    BY <1>13, <1>1, <2>2 DEF Ask, Go, TypeOK
  <2> QED  BY <2>1, <2>2
<1>14. CASE Worker \/ Startup \/ UNCHANGED vars
  BY <1>14, <1>1 DEF Worker, SaveWorkerTake, SaveWorkerDone, Startup, vars, sessionVars
<1> QED  BY <1>3, <1>11, <1>12, <1>13, <1>14 DEF Next

LEMMA OwnKey == Spec /\ []KeysApart => []Unshared
<1>1. Init => Unshared
  BY DEF Init, Unshared
<1>2. TypeOK /\ Stages /\ CacheWellFormed /\ CacheWellFormed' /\ KeysApart /\ Unshared
        /\ [Next]_vars => Unshared'
  BY UnsharedSteps
<1> QED  BY <1>1, <1>2, Typed, CacheCorrect, PTL DEF Spec

\* A key that is set is not in the cache, or is set to SQL that Redshift has
\* executed.
LEMMA KeptSteps ==
    ASSUME TypeOK, Stages, Unshared, CacheWellFormed, [Next]_vars PROVE [KeptStep]_cache
<1> SUFFICES ASSUME TypeOK, Stages, Unshared, CacheWellFormed, [Next]_vars, cache' # cache
             PROVE  KeptStep
  OBVIOUS
<1>1. ASSUME NEW i \in DOMAIN cache, NEW j \in DOMAIN cache',
             \E m \in DOMAIN cache : cache'[j] = cache[m],
             cache[i].key = cache'[j].key
      PROVE  cache'[j] = cache[i]
  BY <1>1 DEF CacheWellFormed
<1>2. CASE cache' = <<>>
  BY <1>2 DEF KeptStep
<1>3. ASSUME NEW k, Has(cache, k), cache' = Touch(cache, k) PROVE KeptStep
  <2>1. \A j \in DOMAIN cache' : \E m \in DOMAIN cache : cache'[j] = cache[m]
    BY <1>3, CacheTyped, TouchProperties
  <2> QED  BY <1>1, <2>1 DEF KeptStep
<1>4. ASSUME NEW k, NEW t, [key |-> k, sql |-> t] \in Entry,
             cache' = Add(cache, k, t), t \in Accepted \/ ~Has(cache, k)
      PROVE  KeptStep
  <2>1. \A j \in DOMAIN cache' : \/ cache'[j] = [key |-> k, sql |-> t]
                                 \/ \E m \in DOMAIN cache : cache'[j] = cache[m]
    BY <1>4, CacheTyped, AddProperties
  <2>2. ASSUME NEW i \in DOMAIN cache, NEW j \in DOMAIN cache',
               cache[i].key = cache'[j].key, cache[i].sql \in Accepted
        PROVE  cache'[j].sql \in Accepted
    <3>1. CASE cache'[j] = [key |-> k, sql |-> t]
      BY <1>4, <2>2, <3>1 DEF Has
    <3>2. CASE \E m \in DOMAIN cache : cache'[j] = cache[m]
      BY <1>1, <2>2, <3>2
    <3> QED  BY <2>1, <3>1, <3>2
  <2> QED  BY <2>2 DEF KeptStep
<1>5. ASSUME NEW s \in Session, Serve(s) PROVE KeptStep
  <2>1. CASE Translated(s)
    <3>1. PICK t \in FirstTranslations(asked[s]) : cache' = Add(cache, Key(asked[s]), t)
      BY <2>1 DEF Translated
    <3>2. t \in SQL
      BY <3>1, ProxyAssumption DEF TypeOK, FirstTranslations, SQL
    <3>3. ~Has(cache, Key(asked[s]))
      BY <2>1 DEF Translated, Unshared
    <3> QED  BY <1>4, <3>1, <3>2, <3>3, CacheTyped
  <2>2. CASE UpdateCache(s)
    <3>1. cur[s] \in SQL /\ cur[s] \in Accepted
      BY <2>2 DEF UpdateCache, Stages, During
    <3>2. cache' = Add(cache, Key(asked[s]), cur[s])
      BY <2>2 DEF UpdateCache
    <3> QED  BY <1>4, <3>1, <3>2, CacheTyped
  <2>3. CASE CacheHit(s)
    BY <1>3, <2>3 DEF CacheHit
  <2>4. CASE Noop(s) \/ StartRoute(s) \/ ToRedshift(s) \/ ToMySQL(s) \/ MySQLAnswers(s)
             \/ CacheMiss(s) \/ TranslateFails(s)
    BY <2>4 DEF Noop, StartRoute, ToRedshift, ToMySQL, MySQLAnswers, CacheMiss, TranslateFails
  <2>5. CASE ExecSucceeds(s) \/ ExecFails(s) \/ Fixed(s) \/ FixFails(s)
             \/ SaveExample(s) \/ Respond(s)
    BY <2>5 DEF ExecSucceeds, ExecFails, Fixed, FixFails, SaveExample, Respond
  <2> QED  BY <1>5, <2>1, <2>2, <2>3, <2>4, <2>5 DEF Serve
<1>6. CASE Shutdown
  BY <1>2, <1>6 DEF Shutdown
<1>7. CASE Worker \/ Startup \/ UNCHANGED vars \/ \E s \in Session, q \in Query : Ask(s, q)
  BY <1>7 DEF Worker, SaveWorkerTake, SaveWorkerDone, Startup, vars, Ask
<1> QED  BY <1>5, <1>6, <1>7 DEF Next

\* Proven SQL is overwritten only where two sessions serve queries of the same
\* key at the same time.
THEOREM ProvenKeptApart == Spec /\ []KeysApart => ProvenNotOverwritten
<1>1. TypeOK /\ Stages /\ Unshared /\ CacheWellFormed /\ [Next]_vars => [KeptStep]_cache
  BY KeptSteps
<1> QED  BY <1>1, Typed, OwnKey, CacheCorrect, PTL DEF Spec, ProvenNotOverwritten, KeptStep

\* The comment of server.go, that the cache holds what really executed after a
\* success, is wrong only where they do.
THEOREM SuccessCachedApart == Spec /\ []KeysApart => []SuccessIsCached
<1>1. TypeOK /\ Stages /\ Unshared => SuccessIsCached
  <2> SUFFICES ASSUME TypeOK, Stages, Unshared, NEW s \in Session, pc[s] = "respond",
                      Has(cache, Key(asked[s]))
               PROVE  Lookup(cache, Key(asked[s])) \in Accepted
    BY DEF SuccessIsCached
  <2>1. Holds(Key(asked[s]), cur[s]) /\ cur[s] \in Accepted
    BY DEF Unshared, Stages
  <2>2. /\ Position(cache, Key(asked[s])) \in DOMAIN cache
        /\ cache[Position(cache, Key(asked[s]))].key = Key(asked[s])
    BY CacheTyped, PositionProperties, LenProperties
  <2> QED  BY <2>1, <2>2 DEF Holds, Lookup
<1> QED  BY <1>1, Typed, OwnKey, PTL

\* In particular a session that shares the cache with nobody never overwrites
\* proven SQL.
THEOREM LoneProvenKept ==
    ASSUME \A s, o \in Session : s = o
    PROVE  Spec => ProvenNotOverwritten
<1>1. KeysApart
  BY DEF KeysApart
<1> QED  BY <1>1, ProvenKeptApart, PTL
-----------------------------------------------------------------------------
(* Routing *)

\* A session whose parse nobody has disturbed goes where its tables say.
Undisputed ==
    \A s \in Session \ raced :
        /\ pc[s] = "mysql" => Routed(asked[s]) = "mysql"
        /\ pc[s] \in {"lookup", "translate"} \union During => Routed(asked[s]) = "redshift"

LEMMA UndisputedSteps ==
    ASSUME TypeOK, Undisputed, [Next]_vars PROVE Undisputed'
<1> DEFINE Good(s) ==
        /\ pc'[s] = "mysql" => Routed(asked'[s]) = "mysql"
        /\ pc'[s] \in {"lookup", "translate"} \union During => Routed(asked'[s]) = "redshift"
<1> SUFFICES ASSUME NEW s \in Session, s \notin raced' PROVE Good(s)
  BY DEF Undisputed, Routed
<1>1. CASE pc'[s] \in {"idle", "dispatch", "parse"}
  BY <1>1 DEF During
<1>2. ASSUME s \notin raced, asked'[s] = asked[s], pc'[s] = pc[s] PROVE Good(s)
  BY <1>2 DEF Undisputed
<1>3. ASSUME s \notin raced, asked'[s] = asked[s],
             pc[s] \in {"lookup", "translate"} \union During,
             pc'[s] \in {"idle", "lookup", "translate"} \union During
      PROVE  Good(s)
  BY <1>3 DEF Undisputed, During
<1>4. CASE StartRoute(s)
  <2>1. CASE Whitelist = {}
    <3>1. Routed(asked[s]) = "redshift"
      BY <2>1 DEF Routed, Route
    <3> QED  BY <1>4, <2>1, <3>1 DEF StartRoute, Go, TypeOK, During, sessionVars
  <2>2. CASE Whitelist # {}
    BY <1>1, <1>4, <2>2 DEF StartRoute, Go, TypeOK
  <2> QED  BY <2>1, <2>2
<1>5. CASE ToRedshift(s)
  BY <1>5 DEF ToRedshift, Go, TypeOK, Outcomes, During, sessionVars
<1>6. CASE ToMySQL(s)
  BY <1>6 DEF ToMySQL, Return, Go, TypeOK, Outcomes, During, sessionVars
<1>7. CASE Noop(s) \/ MySQLAnswers(s) \/ TranslateFails(s) \/ FixFails(s) \/ Respond(s)
  BY <1>1, <1>7 DEF Noop, MySQLAnswers, TranslateFails, FixFails, Respond, Return, Go, TypeOK
<1>8. CASE CacheHit(s) \/ CacheMiss(s) \/ Translated(s)
  BY <1>3, <1>8 DEF CacheHit, CacheMiss, Translated, Go, TypeOK, During, sessionVars
<1>9. CASE ExecSucceeds(s) \/ Fixed(s) \/ UpdateCache(s) \/ SaveExample(s)
  BY <1>3, <1>9 DEF ExecSucceeds, Fixed, UpdateCache, SaveExample, Go, TypeOK, During, sessionVars
<1>10. CASE ExecFails(s)
  BY <1>1, <1>3, <1>10 DEF ExecFails, Return, Go, TypeOK, During, sessionVars
<1>11. CASE Serve(s)
  BY <1>4, <1>5, <1>6, <1>7, <1>8, <1>9, <1>10, <1>11 DEF Serve
<1>12. ASSUME NEW o \in Session \ {s}, Serve(o) PROVE Good(s)
  <2>1. asked'[s] = asked[s] /\ pc'[s] = pc[s]
    BY <1>12, OneServes
  <2>2. s \notin raced
    <3>1. CASE UNCHANGED raced
      BY <3>1
    <3>2. CASE raced' = raced \ {o}
      BY <1>12, <3>2
    <3>3. CASE StartRoute(o)
      BY <3>3 DEF StartRoute
    <3> QED  BY <1>12, <3>1, <3>2, <3>3, ServeRaced
  <2> QED  BY <1>2, <2>1, <2>2
<1>13. CASE Shutdown
  BY <1>1, <1>13 DEF Shutdown
<1>14. ASSUME NEW o \in Session, NEW q \in Query, Ask(o, q) PROVE Good(s)
  BY <1>1, <1>2, <1>14 DEF Ask, Go, TypeOK
<1>15. CASE Worker \/ Startup \/ UNCHANGED vars
  BY <1>2, <1>15 DEF Worker, SaveWorkerTake, SaveWorkerDone, Startup, vars, sessionVars
<1> QED  BY <1>11, <1>12, <1>13, <1>14, <1>15 DEF Next

\* With a lock around the parser no two sessions parse at the same time, and
\* then every statement is routed by the whitelist.
OneParses == \A s, o \in Session : pc[s] = "parse" /\ pc[o] = "parse" => s = o

LEMMA NobodyRaces ==
    ASSUME TypeOK, OneParses', raced = {}, [Next]_vars PROVE raced' = {}
<1>1. ASSUME NEW s \in Session, StartRoute(s) PROVE raced' = {}
  <2>1. CASE Whitelist = {}
    BY <1>1, <2>1 DEF StartRoute
  <2>2. CASE Whitelist # {}
    <3>1. \A o \in Session : pc[o] = "parse" => pc'[o] = "parse" /\ pc'[s] = "parse" /\ o # s
      BY <1>1, <2>2 DEF StartRoute, Go, TypeOK
    <3>2. {o \in Session : pc[o] = "parse"} = {}
      BY <3>1 DEF OneParses
    <3> QED  BY <1>1, <2>2, <3>2 DEF StartRoute
  <2> QED  BY <2>1, <2>2
<1>2. ASSUME NEW s \in Session, Serve(s) PROVE raced' = {}
  BY <1>1, <1>2, ServeRaced
<1>3. ASSUME NEW s \in Session, NEW q \in Query, Ask(s, q) PROVE raced' = {}
  BY <1>3 DEF Ask
<1>4. CASE Worker \/ Shutdown \/ Startup \/ UNCHANGED vars
  BY <1>4 DEF Worker, SaveWorkerTake, SaveWorkerDone, Shutdown, Startup, vars
<1> QED  BY <1>2, <1>3, <1>4 DEF Next

LEMMA UndisputedCorrect == Spec => []Undisputed
<1>1. Init => Undisputed
  BY DEF Init, Undisputed, During
<1>2. TypeOK /\ Undisputed /\ [Next]_vars => Undisputed'
  BY UndisputedSteps
<1> QED  BY <1>1, <1>2, Typed, PTL DEF Spec

\* A query runs on the side the whitelist demands unless its parse raced; if
\* no two parses overlap, all do.
THEOREM RoutedIfParsedAlone == Spec /\ []OneParses => []RoutedByWhitelist
<1> DEFINE NoRace == raced = {}
<1>1. Init => NoRace
  BY DEF Init
<1>2. TypeOK /\ OneParses' /\ NoRace /\ [Next]_vars => NoRace'
  BY NobodyRaces
<1>3. NoRace /\ Undisputed => RoutedByWhitelist
  BY DEF Undisputed, RoutedByWhitelist
<1> HIDE DEF NoRace
<1> QED  BY <1>1, <1>2, <1>3, Typed, UndisputedCorrect, PTL DEF Spec

-----------------------------------------------------------------------------
(* Whose literals *)

\* A session whose query was translated for it, and not served from the cache,
\* runs SQL with its own literals. (The translation is the one call that is
\* not an attempt.)
OwnIfTranslated ==
    \A s \in Session :
        pc[s] \in During /\ calls[s] # attempt[s] =>
            rs[s].for = asked[s] /\ cur[s].for = asked[s]

LEMMA OwnSteps ==
    ASSUME TypeOK, Stages, OwnIfTranslated, [Next]_vars PROVE OwnIfTranslated'
<1> DEFINE Good(s) ==
        pc'[s] \in During /\ calls'[s] # attempt'[s] =>
            rs'[s].for = asked'[s] /\ cur'[s].for = asked'[s]
<1> SUFFICES ASSUME NEW s \in Session PROVE Good(s)
  BY DEF OwnIfTranslated
<1>1. CASE pc'[s] \notin During
  BY <1>1
<1>2. ASSUME UNCHANGED <<pc[s], asked[s], rs[s], cur[s], attempt[s], calls[s]>> PROVE Good(s)
  BY <1>2 DEF OwnIfTranslated
<1>3. CASE CacheHit(s)
  <2>1. calls[s] = 0 /\ attempt[s] = 0
    BY <1>3 DEF CacheHit, Stages, Before
  <2> QED  BY <1>3, <2>1 DEF CacheHit
<1>4. CASE Translated(s)
  BY <1>4, ProxyAssumption DEF Translated, FirstTranslations, TypeOK
<1>5. CASE Fixed(s)
  <2>1. PICK t \in FixTranslations(asked[s], cur[s]) : cur' = [cur EXCEPT ![s] = t]
    BY <1>5 DEF Fixed
  <2>2. /\ attempt'[s] = attempt[s] + 1 /\ calls'[s] = calls[s] + 1
        /\ UNCHANGED <<asked, rs>> /\ pc[s] = "fix" /\ cur'[s] = t
    BY <1>5, <2>1 DEF Fixed, TypeOK
  <2>3. t.for \in {asked[s], cur[s].for}
    BY <2>1, ProxyAssumption DEF FixTranslations
  <2>4. calls'[s] # attempt'[s] => calls[s] # attempt[s]
    BY <2>2 DEF TypeOK
  <2> QED  BY <2>2, <2>3, <2>4 DEF OwnIfTranslated, During
<1>6. CASE ExecSucceeds(s) \/ UpdateCache(s) \/ SaveExample(s)
  BY <1>6 DEF ExecSucceeds, UpdateCache, SaveExample, Go, TypeOK, OwnIfTranslated, During,
              sessionVars
<1>7. CASE ExecFails(s)
  BY <1>1, <1>7 DEF ExecFails, Return, Go, TypeOK, OwnIfTranslated, During, sessionVars
<1>8. CASE Serve(s)
  <2>1. CASE Noop(s) \/ StartRoute(s) \/ ToRedshift(s) \/ ToMySQL(s) \/ MySQLAnswers(s)
             \/ CacheMiss(s) \/ TranslateFails(s) \/ FixFails(s) \/ Respond(s)
    BY <1>1, <2>1 DEF Noop, StartRoute, ToRedshift, ToMySQL, MySQLAnswers, CacheMiss,
                      TranslateFails, FixFails, Respond, Return, Go, TypeOK, During
  <2> QED  BY <1>3, <1>4, <1>5, <1>6, <1>7, <1>8, <2>1 DEF Serve
<1>9. ASSUME NEW o \in Session \ {s}, Serve(o) PROVE Good(s)
  BY <1>2, <1>9, OneServes
<1>10. CASE Shutdown
  BY <1>1, <1>10 DEF Shutdown, During
<1>11. ASSUME NEW o \in Session, NEW q \in Query, Ask(o, q) PROVE Good(s)
  BY <1>1, <1>2, <1>11 DEF Ask, Go, TypeOK, During
<1>12. CASE Worker \/ Startup \/ UNCHANGED vars
  BY <1>2, <1>12 DEF Worker, SaveWorkerTake, SaveWorkerDone, Startup, vars, sessionVars
<1> QED  BY <1>8, <1>9, <1>10, <1>11, <1>12 DEF Next

\* Only a query that is served from the cache can run with the literals of
\* another one.
THEOREM TranslatedIsOwn == Spec => []OwnIfTranslated
<1>1. Init => OwnIfTranslated
  BY DEF Init, OwnIfTranslated, During
<1>2. TypeOK /\ Stages /\ OwnIfTranslated /\ [Next]_vars => OwnIfTranslated'
  BY OwnSteps
<1> QED  BY <1>1, <1>2, Typed, PTL DEF Spec

\* And only because the key forgets them: if queries with the same key are the
\* same, a client gets the rows of its own query.
THEOREM OwnIfKeysTell ==
    ASSUME \A p \in Query, q \in Query : Key(p) = Key(q) => p = q
    PROVE  Spec => []AnswersOwnQuery
<1>1. TypeOK /\ ShapesNeverMix => AnswersOwnQuery
  <2> SUFFICES ASSUME TypeOK, ShapesNeverMix, NEW s \in Session, reply[s].sql # NoSQL
               PROVE  reply[s].sql.for = asked[s]
    BY DEF AnswersOwnQuery
  <2>1. reply[s] \in Reply /\ asked[s] \in Query
    BY DEF TypeOK
  <2>2. reply[s].sql \in SQL
    BY <2>1, PlainSQL DEF Reply, RowsOf
  <2>3. reply[s].sql.for \in Query
    BY <2>2, ProxyAssumption DEF SQL
  <2>4. Key(reply[s].sql.for) = Key(asked[s])
    BY DEF ShapesNeverMix, Key
  <2> QED  BY <2>1, <2>3, <2>4
<1> QED  BY <1>1, TypeCorrect, ShapesCorrect, PTL
=============================================================================
