--------------------------- MODULE ServiceProofs ----------------------------
(***************************************************************************)
(* Every step of the proxy is a step of QueryService, or none: with a      *)
(* session busy while HandleQuery runs for it, the client of each session  *)
(* sees one answer per query, one that the query may get. (That it sees    *)
(* one at all is liveness, and checked by TLC.)                            *)
(*                                                                         *)
(* The web console's page is such a client. That it shows only what was    *)
(* made of its own statement needs three things at a time: the proxy's     *)
(* replies are answers to what its session was last asked (Replies, from   *)
(* the refinement), a session that a handler is connected to is asked      *)
(* nothing else meanwhile, and a handler is where its request puts it      *)
(* (Places). The theorems are for any number of tabs, sessions and other   *)
(* clients.                                                                *)
(***************************************************************************)
EXTENDS QueryPage, SharingProofs

\* How a query got where it is: management commands go nowhere, and MySQL is
\* reached only through the parser and with a DSN.
Paths ==
    \A s \in Session :
        /\ pc[s] \notin {"idle", "dispatch"} => ~shouldNoop(asked[s])
        /\ pc[s] \in {"parse", "mysql"} => Whitelist # {}
        /\ pc[s] = "mysql" => MySQLConfigured

\* How one step may move a session.
Moves(s) ==
    \/ pc'[s] = "idle"
    \/ pc'[s] = "dispatch"
    \/ pc'[s] = pc[s] /\ asked'[s] = asked[s]
    \/ /\ pc[s] # "idle"
       /\ asked'[s] = asked[s]
       /\ ~shouldNoop(asked[s])
       /\ pc'[s] \in {"parse", "mysql"} => Whitelist # {}
       /\ pc'[s] = "mysql" => MySQLConfigured

LEMMA SessionMoves ==
    ASSUME TypeOK, Paths, [Next]_vars, NEW s \in Session
    PROVE  Moves(s)
<1>1. ASSUME NEW o \in Session, NEW q \in Query, Ask(o, q) PROVE Moves(s)
  BY <1>1 DEF TypeOK, Ask, Go, Moves
<1>2. ASSUME NEW o \in Session, NEW r, Return(o, r) PROVE Moves(s)
  BY <1>2 DEF TypeOK, Return, Go, Moves
<1>3. ASSUME NEW o \in Session, Noop(o) \/ MySQLAnswers(o) \/ TranslateFails(o)
                                \/ FixFails(o) \/ Respond(o)
      PROVE  Moves(s)
  BY <1>2, <1>3 DEF Noop, MySQLAnswers, TranslateFails, FixFails, Respond
<1>4. ASSUME NEW o \in Session, StartRoute(o) PROVE Moves(s)
  BY <1>4 DEF TypeOK, StartRoute, Go, Moves, sessionVars
<1>5. ASSUME NEW o \in Session, ToRedshift(o) PROVE Moves(s)
  BY <1>5 DEF TypeOK, ToRedshift, Go, Moves, Paths, sessionVars
<1>6. ASSUME NEW o \in Session, ToMySQL(o) PROVE Moves(s)
  <2>1. CASE MySQLConfigured
    BY <1>6, <2>1 DEF TypeOK, ToMySQL, Go, Moves, Paths, sessionVars
  <2>2. CASE ~MySQLConfigured
    BY <1>2, <1>6, <2>2 DEF ToMySQL
  <2> QED  BY <2>1, <2>2
<1>7. ASSUME NEW o \in Session, CacheHit(o) \/ CacheMiss(o) \/ Translated(o) PROVE Moves(s)
  BY <1>7 DEF TypeOK, CacheHit, CacheMiss, Translated, Go, Moves, Paths, sessionVars
<1>8. ASSUME NEW o \in Session, ExecFails(o) PROVE Moves(s)
  <2>1. CASE attempt[o] + 1 >= MaxAttempts
    BY <1>2, <1>8, <2>1 DEF ExecFails
  <2>2. CASE ~(attempt[o] + 1 >= MaxAttempts)
    BY <1>8, <2>2 DEF TypeOK, ExecFails, Go, Moves, Paths, sessionVars
  <2> QED  BY <2>1, <2>2
<1>9. ASSUME NEW o \in Session,
             ExecSucceeds(o) \/ Fixed(o) \/ UpdateCache(o) \/ SaveExample(o)
      PROVE  Moves(s)
  BY <1>9 DEF TypeOK, ExecSucceeds, Fixed, UpdateCache, SaveExample, Go, Moves,
              Paths, sessionVars
<1>10. ASSUME NEW o \in Session, Serve(o) PROVE Moves(s)
  BY <1>3, <1>4, <1>5, <1>6, <1>7, <1>8, <1>9, <1>10 DEF Serve
<1>11. CASE Worker \/ Shutdown \/ Startup \/ UNCHANGED vars
  BY <1>11 DEF Worker, SaveWorkerTake, SaveWorkerDone, Shutdown, Startup, vars,
               sessionVars, Moves
<1> QED  BY <1>1, <1>10, <1>11 DEF Next

\* Every step keeps queries on their paths.
LEMMA PathsSteps ==
    TypeOK /\ Paths /\ [Next]_vars => Paths'
<1> SUFFICES ASSUME TypeOK, Paths, [Next]_vars, NEW s \in Session
             PROVE  /\ pc'[s] \notin {"idle", "dispatch"} => ~shouldNoop(asked'[s])
                    /\ pc'[s] \in {"parse", "mysql"} => Whitelist # {}
                    /\ pc'[s] = "mysql" => MySQLConfigured
  BY DEF Paths
<1>1. Moves(s)
  BY SessionMoves
<1> QED  BY <1>1 DEF Moves, Paths

LEMMA PathsCorrect == Spec => []Paths
<1>1. Init => Paths
  BY DEF Init, Paths
<1>2. TypeOK /\ Paths /\ [Next]_vars => Paths'
  BY PathsSteps
<1> QED  BY <1>1, <1>2, TypeCorrect, PTL DEF Spec

-----------------------------------------------------------------------------

Busy == {s \in Session : pc[s] # "idle"}

\* HandleQuery returns an answer the query may get: the service answers.
LEMMA ReturnAnswers ==
    ASSUME TypeOK, NEW s \in Session, NEW r \in AnswersTo[asked[s]],
           pc[s] # "idle", Return(s, r)
    PROVE  Service!Next
<1>1. Busy' = Busy \ {s}
  BY DEF TypeOK, Return, Go, Busy
<1>2. s \in Busy
  BY DEF Busy
<1>3. Service!Answer(s, r)
  BY <1>1, <1>2 DEF Return, Service!Answer, Busy
<1> QED  BY <1>3 DEF Service!Next

\* HandleQuery goes on: the service does nothing.
LEMMA GoStutters ==
    ASSUME TypeOK, NEW s \in Session, NEW p \in Step \ {"idle"}, pc[s] # "idle",
           Go(s, p), UNCHANGED <<asked, reply>>
    PROVE  UNCHANGED Service!vars
<1>1. Busy' = Busy
  BY DEF TypeOK, Go, Busy
<1> QED  BY <1>1 DEF Service!vars, Busy

\* What a query that is not a management command may be answered.
LEMMA AnswersHave ==
    ASSUME NEW q \in Query, ~shouldNoop(q)
    PROVE  /\ Plain("error") \in AnswersTo[q]
           /\ \A t \in Accepted : t.for.shape = q.shape => RowsOf(t) \in AnswersTo[q]
           /\ Whitelist # {} /\ MySQLConfigured => Plain("mysql") \in AnswersTo[q]
           /\ Whitelist # {} /\ ~MySQLConfigured => Plain("unconfigured") \in AnswersTo[q]
<1>1. AnswersTo[q] =
        {Plain("error")}
        \union {RowsOf(t) : t \in {t \in Accepted : t.for.shape = q.shape}}
        \union (IF Whitelist = {} THEN {}
                ELSE IF MySQLConfigured THEN {Plain("mysql")}
                ELSE {Plain("unconfigured")})
  BY DEF AnswersTo
<1>2. \A t \in Accepted : t.for.shape = q.shape =>
        RowsOf(t) \in {RowsOf(u) : u \in {u \in Accepted : u.for.shape = q.shape}}
  OBVIOUS
<1> HIDE DEF AnswersTo
<1> QED  BY <1>1, <1>2

LEMMA StepsImplement ==
    TypeOK /\ Stages /\ ShapesNeverMix /\ Paths /\ [Next]_vars
        => [Service!Next]_(Service!vars)
<1> SUFFICES ASSUME TypeOK, Stages, ShapesNeverMix, Paths, [Next]_vars
             PROVE  Service!Next \/ UNCHANGED Service!vars
  OBVIOUS
<1>1. ASSUME NEW s \in Session, NEW q \in Query, Ask(s, q) PROVE Service!Next
  <2>1. s \notin Busy /\ Busy' = Busy \union {s}
    BY <1>1 DEF TypeOK, Ask, Go, Busy
  <2>2. Service!Ask(s, q)
    BY <1>1, <2>1 DEF Ask, Service!Ask, Busy
  <2> QED  BY <2>2 DEF Service!Next
<1>2. ASSUME NEW s \in Session, pc[s] \notin {"idle", "dispatch"}
      PROVE  asked[s] \in Query /\ ~shouldNoop(asked[s])
  BY <1>2 DEF TypeOK, Paths
<1>3. ASSUME NEW s \in Session, Noop(s) PROVE Service!Next
  <2>1. asked[s] \in Query /\ Plain("empty") \in AnswersTo[asked[s]]
    BY <1>3 DEF Noop, TypeOK, AnswersTo
  <2> QED  BY <1>3, <2>1, ReturnAnswers DEF Noop
<1>4. ASSUME NEW s \in Session, pc[s] \notin {"idle", "dispatch"}, Return(s, Plain("error"))
      PROVE  Service!Next
  BY <1>2, <1>4, AnswersHave, ReturnAnswers
<1>5. ASSUME NEW s \in Session, StartRoute(s) \/ ToRedshift(s) \/ CacheMiss(s)
      PROVE  UNCHANGED Service!vars
  BY <1>5, GoStutters DEF StartRoute, ToRedshift, CacheMiss, Step, sessionVars
<1>6. ASSUME NEW s \in Session, ToMySQL(s)
      PROVE  Service!Next \/ UNCHANGED Service!vars
  <2>1. pc[s] = "parse" /\ Whitelist # {}
    BY <1>6 DEF ToMySQL, Paths
  <2>2. CASE MySQLConfigured
    BY <1>6, <2>2, GoStutters DEF ToMySQL, Step, sessionVars
  <2>3. CASE ~MySQLConfigured
    <3>1. Plain("unconfigured") \in AnswersTo[asked[s]]
      BY <1>2, <2>1, <2>3, AnswersHave
    <3> QED  BY <1>6, <2>1, <2>3, <3>1, ReturnAnswers DEF ToMySQL
  <2> QED  BY <2>2, <2>3
<1>7. ASSUME NEW s \in Session, MySQLAnswers(s) PROVE Service!Next
  <2>1. pc[s] = "mysql" /\ Whitelist # {} /\ MySQLConfigured
    BY <1>7 DEF MySQLAnswers, Paths
  <2>2. Plain("mysql") \in AnswersTo[asked[s]]
    BY <1>2, <2>1, AnswersHave
  <2> QED  BY <1>4, <1>7, <2>1, <2>2, ReturnAnswers DEF MySQLAnswers
<1>8. ASSUME NEW s \in Session, CacheHit(s) \/ Translated(s) \/ ExecSucceeds(s) \/ Fixed(s)
      PROVE  UNCHANGED Service!vars
  BY <1>8, GoStutters DEF CacheHit, Translated, ExecSucceeds, Fixed, Step
<1>9. ASSUME NEW s \in Session, UpdateCache(s) \/ SaveExample(s)
      PROVE  UNCHANGED Service!vars
  BY <1>9, GoStutters DEF UpdateCache, SaveExample, Step, sessionVars
<1>10. ASSUME NEW s \in Session, TranslateFails(s) \/ FixFails(s)
       PROVE  Service!Next
  BY <1>4, <1>10 DEF TranslateFails, FixFails
<1>11. ASSUME NEW s \in Session, ExecFails(s)
       PROVE  Service!Next \/ UNCHANGED Service!vars
  <2>1. CASE attempt[s] + 1 >= MaxAttempts
    BY <1>4, <1>11, <2>1 DEF ExecFails
  <2>2. CASE ~(attempt[s] + 1 >= MaxAttempts)
    BY <1>11, <2>2, GoStutters DEF ExecFails, Step, sessionVars
  <2> QED  BY <2>1, <2>2
<1>12. ASSUME NEW s \in Session, Respond(s) PROVE Service!Next
  <2>1. pc[s] = "respond" /\ cur[s] \in Accepted /\ cur[s].for.shape = asked[s].shape
    BY <1>12, ProxyAssumption DEF Respond, Stages, During, ShapesNeverMix
  <2>2. RowsOf(cur[s]) \in AnswersTo[asked[s]] /\ Plain("error") \in AnswersTo[asked[s]]
    BY <1>2, <2>1, AnswersHave
  <2> QED  BY <1>12, <2>1, <2>2, ReturnAnswers DEF Respond
<1>13. CASE Shutdown
  <2>1. Busy' = {}
    BY <1>13 DEF Shutdown, Busy
  <2>2. reply' = [s \in Session |-> IF s \in Busy THEN Plain("lost") ELSE reply[s]]
    BY <1>13 DEF Shutdown, Busy
  <2>3. Service!Lose
    BY <1>13, <2>1, <2>2 DEF Shutdown, Service!Lose, Busy
  <2> QED  BY <2>3 DEF Service!Next
<1>14. CASE Worker \/ Startup \/ UNCHANGED vars
  BY <1>14 DEF Worker, SaveWorkerTake, SaveWorkerDone, Startup, vars, sessionVars, Service!vars
<1>15. ASSUME NEW s \in Session, Serve(s) PROVE Service!Next \/ UNCHANGED Service!vars
  BY <1>3, <1>5, <1>6, <1>7, <1>8, <1>9, <1>10, <1>11, <1>12, <1>15 DEF Serve
<1> QED  BY <1>1, <1>13, <1>14, <1>15 DEF Next

LEMMA InitImplements == Init => Service!Init
<1> SUFFICES ASSUME Init PROVE Service!Init
  OBVIOUS
<1>1. asked \in [Session -> Query]
  BY ProxyAssumption DEF Init
<1>2. Busy = {}
  BY DEF Init, Busy
<1> QED  BY <1>1, <1>2 DEF Init, Service!Init, Busy

\* The proxy implements the query service, up to liveness.
THEOREM ImplementsServiceSteps == Spec => Service!Init /\ [][Service!Next]_(Service!vars)
<1>1. Init => Service!Init
  BY InitImplements
<1> QED
  BY <1>1, StepsImplement, Typed, ShapesCorrect, PathsCorrect, PTL DEF Spec

-----------------------------------------------------------------------------
(* The page *)

\* Rows a session has answered are among the answers to its query.
Replies ==
    \A s \in Session : reply[s].sql # NoSQL => reply[s] \in AnswersTo[asked[s]]

ProxyInv == TypeOK /\ Stages /\ ShapesNeverMix /\ Paths /\ Replies

\* Where a handler is, what it waits for, and what its page shows.
Place(w) ==
    /\ stage[w] \in {"translate", "connect", "wait"} => request[w].source = "proxy"
    /\ stage[w] \in {"connect", "wait"} => request[w].api = "query"
    /\ stage[w] = "wait" => asked[conn[w]] = request[w].query
    /\ page[w].answer.sql # NoSQL =>
        /\ request[w].source = "proxy" /\ request[w].api = "query"
        /\ page[w].answer \in AnswersTo[request[w].query]

Places == PageTypeOK /\ DOMAIN page = Tab /\ \A w \in Tab : Place(w)

-----------------------------------------------------------------------------
(* The proxy below *)

\* The page is one of the proxy's clients.
LEMMA PageSteps ==
    ASSUME PageTypeOK, [PageNext]_allVars PROVE [Next]_vars
<1>1. CASE UNCHANGED allVars
  BY <1>1 DEF allVars
<1>2. CASE Others
  BY <1>2 DEF Others, Next
<1>3. ASSUME NEW w \in Tab, Connect(w) PROVE Next
  <2>1. request[w].query \in Query
    BY PageAssumption DEF PageTypeOK
  <2> QED  BY <1>3, <2>1 DEF Connect, Next
<1>4. ASSUME NEW w \in Tab, Submit(w) \/ Translate(w) \/ ConnectFails(w) \/ Receive(w)
                            \/ TimeOut(w) \/ RunMySQL(w) \/ RunRedshift(w)
      PROVE  UNCHANGED vars
  BY <1>4 DEF Submit, Translate, ConnectFails, Receive, TimeOut, RunMySQL, RunRedshift
<1> QED  BY <1>1, <1>2, <1>3, <1>4 DEF PageNext, Handle

\* Each step of the query service leaves rows with the query they answer.
LEMMA RepliesSteps ==
    ASSUME ProxyInv, [Next]_vars PROVE Replies'
<1> USE DEF ProxyInv
<1>1. Service!Next \/ UNCHANGED Service!vars
  BY StepsImplement
<1>2. CASE UNCHANGED Service!vars
  BY <1>2 DEF Service!vars, Replies
<1>3. ASSUME NEW s \in Session, NEW q \in Query, Service!Ask(s, q) PROVE Replies'
  BY <1>3, PlainSQL DEF Service!Ask, Replies, TypeOK
<1>4. ASSUME NEW s \in Session, NEW r \in AnswersTo[asked[s]], Service!Answer(s, r)
      PROVE  Replies'
  BY <1>4 DEF Service!Answer, Replies, TypeOK
<1>5. CASE Service!Lose
  BY <1>5, PlainSQL DEF Service!Lose, Replies
<1> QED  BY <1>1, <1>2, <1>3, <1>4, <1>5 DEF Service!Next

LEMMA ProxyInvSteps ==
    ASSUME ProxyInv, [Next]_vars PROVE ProxyInv'
BY NextTyped, ShapesSteps, PathsSteps, RepliesSteps DEF ProxyInv

\* Serving a query does not change it.
LEMMA ServeKeepsAsked ==
    ASSUME NEW s \in Session, Serve(s) PROVE UNCHANGED asked
<1>1. ASSUME Noop(s) \/ MySQLAnswers(s) \/ TranslateFails(s) \/ FixFails(s) \/ Respond(s)
      PROVE  UNCHANGED asked
  BY <1>1 DEF Noop, MySQLAnswers, TranslateFails, FixFails, Respond, Return
<1>2. ASSUME StartRoute(s) \/ ToRedshift(s) \/ CacheMiss(s)
             \/ UpdateCache(s) \/ SaveExample(s)
      PROVE  UNCHANGED asked
  BY <1>2 DEF StartRoute, ToRedshift, CacheMiss, UpdateCache, SaveExample, sessionVars
<1>3. ASSUME CacheHit(s) \/ Translated(s) \/ ExecSucceeds(s) \/ Fixed(s)
      PROVE  UNCHANGED asked
  BY <1>3 DEF CacheHit, Translated, ExecSucceeds, Fixed
<1>4. ASSUME ToMySQL(s) \/ ExecFails(s) PROVE UNCHANGED asked
  BY <1>4 DEF ToMySQL, ExecFails, Return, sessionVars
<1> QED  BY <1>1, <1>2, <1>3, <1>4 DEF Serve

-----------------------------------------------------------------------------
(* The handlers *)

Kept(w) == UNCHANGED <<stage[w], request[w], conn[w], page[w]>>

\* A handler that does nothing stays in place, as long as its session is not
\* asked anything else.
LEMMA Stays ==
    ASSUME Places, NEW w \in Tab, Kept(w),
           \A s \in Owned : asked'[s] = asked[s]
    PROVE  Place(w)'
BY DEF Places, Place, Kept, Owned, PageTypeOK

\* A handler returns and shows rows: the page's own, or none of the proxy's.
LEMMA ShowsPlaces ==
    ASSUME Places, NEW w \in Tab, NEW answer, NEW n, Shows(w, Rows(answer, n)),
           UNCHANGED vars,
           answer.sql # NoSQL =>
                /\ request[w].source = "proxy" /\ request[w].api = "query"
                /\ answer \in AnswersTo[request[w].query]
    PROVE  Places'
<1>1. UNCHANGED asked
  BY DEF vars, sessionVars
<1>2. PageTypeOK' /\ DOMAIN page' = Tab
  BY PageAssumption DEF Places, PageTypeOK, Shows, At
<1>3. ASSUME NEW o \in Tab \ {w} PROVE Place(o)'
  <2>1. Kept(o)
    BY <1>3 DEF Places, PageTypeOK, Shows, At, Kept
  <2> QED  BY <1>1, <2>1, Stays
<1>4. Place(w)'
  <2>1. stage'[w] = "ready" /\ request'[w] = request[w]
    BY DEF Places, PageTypeOK, Shows, At
  <2>2. page'[w].answer = answer
    BY DEF Shows, Rows, Places
  <2> QED  BY <2>1, <2>2 DEF Place, Places
<1> QED  BY <1>2, <1>3, <1>4 DEF Places

\* Of an error or another database's answer the proxy has no rows.
LEMMA ShowsPlain ==
    ASSUME Places, NEW w \in Tab, NEW k, NEW n, Shows(w, Rows(Plain(k), n)), UNCHANGED vars
    PROVE  Places'
BY ShowsPlaces, PlainSQL

LEMMA SubmitPlaces ==
    ASSUME Places, NEW w \in Tab, Submit(w) PROVE Places'
<1>1. PICK r \in PageRequest :
        /\ request' = [request EXCEPT ![w] = r]
        /\ At(w, IF r.source = "proxy" THEN "translate" ELSE r.source)
  BY DEF Submit
<1>2. r.source \in {"mysql", "redshift", "proxy"}
  BY PageAssumption
<1>3. PageTypeOK' /\ DOMAIN page' = Tab
  BY <1>1, <1>2 DEF Submit, Places, PageTypeOK, At
<1>4. ASSUME NEW o \in Tab \ {w} PROVE Place(o)'
  <2>1. Kept(o) /\ UNCHANGED asked
    BY <1>1, <1>4 DEF Submit, Places, PageTypeOK, At, Kept, vars, sessionVars
  <2> QED  BY <2>1, Stays
<1>5. Place(w)'
  <2>1. page'[w].answer.sql = NoSQL
    BY PlainSQL DEF Submit, Nothing, Rows, Places
  <2>2. w \in DOMAIN stage /\ w \in DOMAIN request
    BY DEF Places, PageTypeOK
  <2> QED  BY <1>1, <1>2, <2>1, <2>2 DEF Place, At
<1> QED  BY <1>3, <1>4, <1>5 DEF Places

LEMMA TranslatePlaces ==
    ASSUME Places, NEW w \in Tab, Translate(w) PROVE Places'
<1>1. CASE request[w].api = "query" /\ At(w, "connect") /\ UNCHANGED <<request, conn, page>>
  <2>1. PageTypeOK' /\ DOMAIN page' = Tab
    BY <1>1 DEF Translate, Places, PageTypeOK, At
  <2>2. ASSUME NEW o \in Tab \ {w} PROVE Place(o)'
    <3>1. Kept(o) /\ UNCHANGED asked
      BY <1>1, <2>2 DEF Translate, Places, PageTypeOK, At, Kept, vars, sessionVars
    <3> QED  BY <3>1, Stays
  <2>3. Place(w)'
    BY <1>1 DEF Translate, Places, PageTypeOK, At, Place
  <2> QED  BY <2>1, <2>2, <2>3 DEF Places
<1>2. CASE At(w, "redshift") /\ UNCHANGED <<request, conn, page>>
  <2>1. PageTypeOK' /\ DOMAIN page' = Tab
    BY <1>2 DEF Translate, Places, PageTypeOK, At
  <2>2. ASSUME NEW o \in Tab \ {w} PROVE Place(o)'
    <3>1. Kept(o) /\ UNCHANGED asked
      BY <1>2, <2>2 DEF Translate, Places, PageTypeOK, At, Kept, vars, sessionVars
    <3> QED  BY <3>1, Stays
  <2>3. Place(w)'
    BY <1>2 DEF Translate, Places, PageTypeOK, At, Place
  <2> QED  BY <2>1, <2>2, <2>3 DEF Places
<1>3. CASE Shows(w, Failure)
  BY <1>3, ShowsPlain DEF Translate, Failure
<1> QED  BY <1>1, <1>2, <1>3 DEF Translate

\* A session that nobody is connected to is asked the page's query.
LEMMA ConnectPlaces ==
    ASSUME Places, TypeOK, NEW w \in Tab, Connect(w) PROVE Places'
<1>1. PICK s \in Session \ Owned :
        /\ conn' = [conn EXCEPT ![w] = s]
        /\ Ask(s, request[w].query)
  BY DEF Connect
<1>2. PageTypeOK' /\ DOMAIN page' = Tab
  BY <1>1, PageAssumption DEF Connect, Places, PageTypeOK, At
<1>3. /\ asked'[s] = request[w].query
      /\ \A x \in Session \ {s} : asked'[x] = asked[x]
  BY <1>1 DEF Ask, TypeOK
<1>4. ASSUME NEW o \in Tab \ {w} PROVE Place(o)'
  <2>1. Kept(o)
    BY <1>1, <1>4 DEF Connect, Places, PageTypeOK, At, Kept
  <2>2. conn[o] # s
    BY <1>1 DEF Owned
  <2>3. stage[o] = "wait" => asked'[conn[o]] = asked[conn[o]]
    BY <1>3, <2>2 DEF Places, PageTypeOK
  <2> QED  BY <2>1, <2>3 DEF Places, Place, Kept
<1>5. Place(w)'
  <2>1. /\ stage'[w] = "wait" /\ conn'[w] = s
        /\ request' = request /\ page' = page
        /\ request[w].source = "proxy" /\ request[w].api = "query"
    BY <1>1 DEF Connect, Places, PageTypeOK, At, Place
  <2> QED  BY <1>3, <2>1 DEF Places, Place
<1> QED  BY <1>2, <1>4, <1>5 DEF Places

\* The rows a handler receives are an answer to what its session was asked,
\* and that is the page's query.
LEMMA ReceivePlaces ==
    ASSUME Places, Replies, NEW w \in Tab, Receive(w) PROVE Places'
<1> DEFINE answer == reply[conn[w]]
<1>1. /\ conn[w] \in Session
      /\ request[w].source = "proxy" /\ request[w].api = "query"
      /\ asked[conn[w]] = request[w].query
      /\ UNCHANGED vars
  BY DEF Receive, Places, PageTypeOK, Place
<1>2. answer.sql # NoSQL => answer \in AnswersTo[request[w].query]
  BY <1>1 DEF Replies
<1>3. (\E n \in RowCounts \union {0} : Shows(w, Rows(answer, n))) \/ Shows(w, Failure)
  BY DEF Receive
<1> HIDE DEF answer
<1>4. CASE \E n \in RowCounts \union {0} : Shows(w, Rows(answer, n))
  BY <1>1, <1>2, <1>4, ShowsPlaces
<1>5. CASE Shows(w, Failure)
  BY <1>1, <1>5, ShowsPlain DEF Failure
<1> QED  BY <1>3, <1>4, <1>5

\* No step of the proxy or its other clients moves a page's session to another
\* query.
LEMMA OthersPlaces ==
    ASSUME Places, TypeOK, Others PROVE Places'
<1>1. PageTypeOK' /\ DOMAIN page' = Tab
  BY DEF Others, pageVars, Places, PageTypeOK
<1>2. \A x \in Owned \intersect Session : asked'[x] = asked[x]
  <2>1. ASSUME NEW s \in Session, Serve(s) PROVE UNCHANGED asked
    BY <2>1, ServeKeepsAsked
  <2>2. ASSUME NEW s \in Session \ Owned, NEW q \in Query, Ask(s, q)
        PROVE  \A x \in Owned \intersect Session : asked'[x] = asked[x]
    BY <2>2 DEF Ask, TypeOK
  <2>3. CASE Worker \/ Shutdown \/ Startup
    BY <2>3 DEF Worker, SaveWorkerTake, SaveWorkerDone, Shutdown, Startup, sessionVars
  <2> QED  BY <2>1, <2>2, <2>3 DEF Others
<1>3. ASSUME NEW w \in Tab PROVE Place(w)'
  <2>1. Kept(w)
    BY DEF Others, pageVars, Kept
  <2>2. stage[w] = "wait" => asked'[conn[w]] = asked[conn[w]]
    BY <1>2 DEF Places, PageTypeOK, Owned
  <2> QED  BY <2>1, <2>2 DEF Places, Place, Kept
<1> QED  BY <1>1, <1>3 DEF Places

-----------------------------------------------------------------------------

LEMMA PageInvariance == PageSpec => [](ProxyInv /\ Places)
<1>1. PageInit => ProxyInv /\ Places
  <2> SUFFICES ASSUME PageInit PROVE ProxyInv /\ Places
    OBVIOUS
  <2>1. TypeOK /\ Stages
    BY InitTyped DEF PageInit
  <2>2. ShapesNeverMix /\ Paths /\ Replies
    BY PlainSQL DEF PageInit, Init, ShapesNeverMix, Paths, Replies
  <2>3. PageTypeOK /\ DOMAIN page = Tab
    BY PageAssumption DEF PageInit, PageTypeOK
  <2>4. ASSUME NEW w \in Tab PROVE Place(w)
    <3>1. stage[w] = "ready" /\ page[w].answer.sql = NoSQL
      BY PlainSQL DEF PageInit, Nothing, Rows
    <3> QED  BY <3>1 DEF Place
  <2> QED  BY <2>1, <2>2, <2>3, <2>4 DEF ProxyInv, Places
<1>2. ProxyInv /\ Places /\ [PageNext]_allVars => ProxyInv' /\ Places'
  <2> SUFFICES ASSUME ProxyInv, Places, [PageNext]_allVars PROVE ProxyInv' /\ Places'
    OBVIOUS
  <2>1. ProxyInv'
    BY PageSteps, ProxyInvSteps DEF Places
  <2>2. TypeOK /\ Replies
    BY DEF ProxyInv
  <2>3. CASE UNCHANGED allVars
    <3>1. PageTypeOK' /\ DOMAIN page' = Tab /\ UNCHANGED asked
      BY <2>3 DEF allVars, vars, sessionVars, pageVars, Places, PageTypeOK
    <3>2. ASSUME NEW w \in Tab PROVE Place(w)'
      BY <2>3, <3>1, Stays DEF allVars, pageVars, Kept
    <3> QED  BY <2>1, <3>1, <3>2 DEF Places
  <2>4. CASE Others
    BY <2>1, <2>2, <2>4, OthersPlaces
  <2>5. ASSUME NEW w \in Tab, Submit(w) \/ Translate(w) \/ Connect(w) \/ Receive(w)
        PROVE  Places'
    BY <2>2, <2>5, SubmitPlaces, TranslatePlaces, ConnectPlaces, ReceivePlaces
  <2>6. ASSUME NEW w \in Tab, ConnectFails(w) \/ TimeOut(w) \/ RunMySQL(w) \/ RunRedshift(w)
        PROVE  Places'
    BY <2>6, ShowsPlain DEF ConnectFails, TimeOut, RunMySQL, RunRedshift, Failure, Direct
  <2> QED  BY <2>1, <2>3, <2>4, <2>5, <2>6 DEF PageNext, Handle
<1> QED  BY <1>1, <1>2, PTL DEF PageSpec

\* Whatever pages and other clients do, they use the proxy by its own steps:
\* what they see of it are steps of the query service.
THEOREM PageUsesService == PageSpec => Service!Init /\ [][Service!Next]_(Service!vars)
<1>1. Init => Service!Init
  BY InitImplements
<1>2. ProxyInv /\ Places /\ [PageNext]_allVars => [Service!Next]_(Service!vars)
  BY PageSteps, StepsImplement DEF ProxyInv, Places
<1>3. PageInit => Init
  BY DEF PageInit
<1> QED  BY <1>1, <1>2, <1>3, PageInvariance, PTL DEF PageSpec

\* A handler is connected to the proxy exactly while it waits for it.
THEOREM PageTypeCorrect == PageSpec => []PageTypeOK
<1>1. Places => PageTypeOK
  BY DEF Places
<1> QED  BY <1>1, PageInvariance, PTL

\* No interleaving of pages, timeouts, other clients and restarts of the proxy
\* shows a page rows that were not made of its own statement.
THEOREM RowsCorrect == PageSpec => []RowsAreOfThisQuery
<1>1. Places => RowsAreOfThisQuery
  BY DEF Places, Place, RowsAreOfThisQuery
<1> QED  BY <1>1, PageInvariance, PTL

-----------------------------------------------------------------------------
(* The cache with pages and other clients *)

LEMMA PageUsesProxy == PageSpec => Init /\ [][Next]_vars
<1>1. PageInit => Init
  BY DEF PageInit
<1>2. Places /\ [PageNext]_allVars => [Next]_vars
  BY PageSteps DEF Places
<1> QED  BY <1>1, <1>2, PageInvariance, PTL DEF PageSpec

LEMMA PageCache == PageSpec => [](TypeOK /\ Stages /\ CacheWellFormed)
<1>1. ProxyInv => TypeOK /\ Stages
  BY DEF ProxyInv
<1>2. TypeOK /\ Stages /\ CacheWellFormed /\ [Next]_vars => CacheWellFormed'
  BY CacheWellFormedSteps
<1> QED  BY <1>1, <1>2, CacheWellFormedInit, PageUsesProxy, PageInvariance, PTL

\* The queries of pages, the ones they have given up included, leave the cache
\* within CACHE_SIZE and its keys apart.
THEOREM PageCacheCorrect == PageSpec => []CacheWellFormed
  BY PageCache, PTL

\* Proven SQL is overwritten, if at all, by a session that serves a query of
\* the same key at the same time. The page can be the cause of that: the
\* proxy goes on with a query the page has given up, and the user runs it
\* again.
THEOREM PageProvenKept == PageSpec /\ []KeysApart => ProvenNotOverwritten
<1>1. Init => Unshared
  BY DEF Init, Unshared
<1>2. TypeOK /\ Stages /\ CacheWellFormed /\ CacheWellFormed' /\ KeysApart /\ Unshared
        /\ [Next]_vars => Unshared'
  BY UnsharedSteps
<1>3. TypeOK /\ Stages /\ Unshared /\ CacheWellFormed /\ [Next]_vars => [KeptStep]_cache
  BY KeptSteps
<1> QED  BY <1>1, <1>2, <1>3, PageUsesProxy, PageCache, PTL DEF ProvenNotOverwritten, KeptStep

\* Where the proxy serves one session, an answer with rows comes with its SQL
\* in front of the cache, whoever asks and gives up.
THEOREM PageReplyCached ==
    ASSUME \A s, o \in Session : s = o
    PROVE  PageSpec => ReplyCached
<1>1. Init => Undisturbed
  BY DEF Init, Undisturbed
<1>2. TypeOK /\ Stages /\ Undisturbed /\ [Next]_vars => Undisturbed'
  BY UndisturbedSteps
<1>3. TypeOK /\ Undisturbed /\ [Next]_vars => [CachedStep]_reply
  BY CachedSteps
<1> QED  BY <1>1, <1>2, <1>3, PageUsesProxy, PageCache, PTL DEF ReplyCached, CachedStep
=============================================================================
