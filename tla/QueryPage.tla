----------------------------- MODULE QueryPage ------------------------------
(***************************************************************************)
(* The query page of the web console (/api/query and /api/explain of       *)
(* webui/app.py) as a client of the proxy. A handler connects to MySQL, to *)
(* Redshift or to the proxy, runs one statement and closes the connection. *)
(* It waits 90 s for the proxy, whose own timeouts add up to more, and the *)
(* proxy does not notice when it stops waiting. Other clients ask queries  *)
(* in the sessions the page does not use.                                  *)
(*                                                                         *)
(* A session is free again once the proxy has done with its query: the     *)
(* next connection, of whichever client, takes its place.                  *)
(***************************************************************************)
EXTENDS Proxy

CONSTANTS Tab,          \* browser tabs; each has one request at a time
          MAX_ROWS,     \* rows a page shows at most
          RowCounts,    \* numbers of rows a statement may have
          PageRequest,  \* what the users run
          NoSession

ASSUME PageAssumption ==
    /\ NoSession \notin Session
    /\ MAX_ROWS \in Nat
    /\ RowCounts \subseteq Nat
    /\ PageRequest # {}
    /\ PageRequest \subseteq
          [api : {"query", "explain"}, source : {"mysql", "redshift", "proxy"}, query : Query]

VARIABLES stage,       \* tab -> what its handler waits for
          request,     \* tab -> its current or last request
          conn,        \* tab -> the session of the proxy that serves it
          page         \* tab -> what it shows

pageVars == <<stage, request, conn, page>>
allVars == <<vars, pageVars>>

\* Fetched rows: how many the result has, how many are shown, whether the
\* page says that there are more, and the count it reports. Of a result that
\* does not fit, the row fetched to find that out is not counted.
Fetched(n) ==
    [has |-> n,
     shown |-> IF n > MAX_ROWS THEN MAX_ROWS ELSE n,
     truncated |-> n > MAX_ROWS,
     row_count |-> IF n > MAX_ROWS THEN MAX_ROWS + (n - (MAX_ROWS + 1)) ELSE n]

\* A page shows the rows of an answer or an error.
Rows(answer, n) == [answer |-> answer, rows |-> Fetched(n)]
Nothing == Rows(Plain("none"), 0)
Failure == Rows(Plain("error"), 0)

\* The answer of a database the page has asked itself.
Direct == Plain("direct")

PageInit ==
    /\ Init
    /\ stage = [w \in Tab |-> "ready"]
    /\ request = [w \in Tab |-> CHOOSE r \in PageRequest : TRUE]
    /\ conn = [w \in Tab |-> NoSession]
    /\ page = [w \in Tab |-> Nothing]

\* Sessions some tab's handler is connected to.
Owned == {conn[w] : w \in Tab}

-----------------------------------------------------------------------------
(* A handler *)

At(w, step) == stage' = [stage EXCEPT ![w] = step]

\* Wrong on purpose: the connection is not closed when the handler returns.
ShowsLeaking(w, result) ==
    /\ At(w, "ready")
    /\ page' = [page EXCEPT ![w] = result]
    /\ UNCHANGED <<request, conn>>

\* The handler returns and its connection, if it has one, is closed.
Shows(w, result) ==
    /\ At(w, "ready")
    /\ page' = [page EXCEPT ![w] = result]
    /\ conn' = [conn EXCEPT ![w] = NoSession]
    /\ UNCHANGED request

\* The user runs a statement. The buttons are disabled until it is answered.
Submit(w) ==
    /\ stage[w] = "ready"
    /\ \E r \in PageRequest :
        /\ request' = [request EXCEPT ![w] = r]
        /\ At(w, IF r.source = "proxy" THEN "translate" ELSE r.source)
    /\ page' = [page EXCEPT ![w] = Nothing]
    /\ UNCHANGED <<vars, conn>>

\* _translate: the page's own call of the agent, within 60 s, may fail. Only
\* an explanation needs what it returns; a query shows it next to the rows.
Translate(w) ==
    /\ stage[w] = "translate"
    /\ \/ /\ request[w].api = "query"
          /\ At(w, "connect")
          /\ UNCHANGED <<request, conn, page>>
       \/ /\ request[w].api = "explain"
          /\ At(w, "redshift")
          /\ UNCHANGED <<request, conn, page>>
       \/ /\ request[w].api = "explain"
          /\ Shows(w, Failure)
    /\ UNCHANGED vars

\* Wrong on purpose: a connection from a pool, on which the proxy may still
\* be busy with a query that was given up.
ConnectPooled(w) ==
    /\ stage[w] = "connect"
    /\ \E s \in Session \ Owned :
        /\ conn' = [conn EXCEPT ![w] = s]
        /\ IF pc[s] = "idle" THEN Ask(s, request[w].query) ELSE UNCHANGED vars
    /\ At(w, "wait")
    /\ UNCHANGED <<request, page>>

\* A new connection to the proxy, and the query on it.
Connect(w) ==
    /\ stage[w] = "connect"
    /\ \E s \in Session \ Owned :
        /\ conn' = [conn EXCEPT ![w] = s]
        /\ Ask(s, request[w].query)
    /\ At(w, "wait")
    /\ UNCHANGED <<request, page>>

\* The proxy does not answer within 10 s or refuses.
ConnectFails(w) ==
    /\ stage[w] = "connect"
    /\ Shows(w, Failure)
    /\ UNCHANGED vars

\* The proxy has answered, or the connection is lost.
Receive(w) ==
    /\ stage[w] = "wait"
    /\ pc[conn[w]] = "idle"
    /\ LET answer == reply[conn[w]]
       IN  CASE answer.kind \in {"redshift", "mysql"} ->
                    \E n \in RowCounts : Shows(w, Rows(answer, n))
             [] answer.kind = "empty" -> Shows(w, Rows(answer, 0))
             [] OTHER -> Shows(w, Failure)
    /\ UNCHANGED vars

\* read_timeout is over. The proxy goes on with the query.
TimeOut(w) ==
    /\ stage[w] = "wait"
    /\ Shows(w, Failure)
    /\ UNCHANGED vars

\* MySQL answers, or fails, or takes more than 90 s.
RunMySQL(w) ==
    /\ stage[w] = "mysql"
    /\ \/ \E n \in RowCounts : Shows(w, Rows(Direct, n))
       \/ Shows(w, Failure)
    /\ UNCHANGED vars

\* Redshift answers or fails. Nothing limits the time it takes.
RunRedshift(w) ==
    /\ stage[w] = "redshift"
    /\ \/ \E n \in RowCounts : Shows(w, Rows(Direct, n))
       \/ Shows(w, Failure)
    /\ UNCHANGED vars

\* Wrong on purpose: a handler that waits for the proxy as long as it takes.
HandlePatient(w) == Translate(w) \/ Connect(w) \/ Receive(w) \/ RunMySQL(w)

\* What a handler does within its timeouts.
Handle(w) ==
    Translate(w) \/ Connect(w) \/ ConnectFails(w) \/ Receive(w) \/ TimeOut(w) \/ RunMySQL(w)

\* The proxy, and its other clients.
Others ==
    /\ \/ \E s \in Session : Serve(s)
       \/ \E s \in Session \ Owned, q \in Query : Ask(s, q)
       \/ Worker \/ Shutdown \/ Startup
    /\ UNCHANGED pageVars

PageNext ==
    \/ \E w \in Tab : Submit(w) \/ Handle(w) \/ RunRedshift(w)
    \/ Others

PageSpec ==
    /\ PageInit /\ [][PageNext]_allVars
    /\ \A s \in Session : WF_allVars(Serve(s) /\ UNCHANGED pageVars)
    /\ \A w \in Tab : WF_allVars(Handle(w))

-----------------------------------------------------------------------------
(* What the page promises *)

PageTypeOK ==
    /\ stage \in [Tab -> {"ready", "translate", "connect", "wait", "mysql", "redshift"}]
    /\ request \in [Tab -> PageRequest]
    /\ conn \in [Tab -> Session \union {NoSession}]
    /\ \A w \in Tab : stage[w] = "wait" <=> conn[w] # NoSession

\* A page shows what the proxy has made of the page's own statement, never
\* the late answer to one that it or somebody else gave up, and a page that
\* waits does so for its own query.
RowsAreOfThisQuery ==
    \A w \in Tab :
        /\ stage[w] = "wait" => asked[conn[w]] = request[w].query
        /\ page[w].answer.sql # NoSQL =>
            /\ request[w].source = "proxy" /\ request[w].api = "query"
            /\ page[w].answer \in AnswersTo[request[w].query]

\* A page that does not depend on Redshift itself gets its answer, however
\* long the proxy takes and whether or not it is there.
PageAnswers ==
    \A w \in Tab :
        stage[w] \notin {"ready", "redshift"} ~> stage[w] \in {"ready", "redshift"}

=============================================================================
