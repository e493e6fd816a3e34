----------------------------- MODULE ImportFlow -----------------------------
(***************************************************************************)
(* The import of statements on the knowledge page (webui/static/           *)
(* knowledge.html), through the web console (webui/app.py) into the agent  *)
(* (/api/knowledge/import_test of agent/app.py), which translates each     *)
(* one, runs it on both databases, compares the results and saves it.      *)
(*                                                                         *)
(* The page sends the statements of a batch one after the other, the saves *)
(* in spite of a mismatch whenever the user clicks. The console waits 180 s *)
(* for the agent; the agent does not notice when it stops waiting. A       *)
(* handler of the agent is a request of the knowledge base, whose actions  *)
(* it takes; meanwhile the proxy saves its own examples.                   *)
(***************************************************************************)
EXTENDS KnowledgeBase, ResultCompare, Extraction

CONSTANTS Batch,      \* the batches users import: sequences of statements
          ModelText,  \* what the model may answer
          Mode,       \* what the user can choose: strict, lenient, skipped
          NoRequest, Nothing

\* What translate() may return.
Sql == {extract_sql(x) : x \in ModelText}

\* What the agent saves for an import.
Import(q, s, m) ==
    [mysql |-> q, redshift |-> s, mode |-> m, source |-> "import"]

ASSUME ImportAssumption ==
    /\ Batch \subseteq Seq(Query)
    /\ \A q \in Query, s \in Sql, m \in Mode \union {"override"} :
            Import(q, s, m) \in Example
    /\ "override" \notin Mode
    /\ NoRequest \notin Request
    /\ Nothing \notin Query \union Sql \union Mode

VARIABLES loop,        \* startImport: off, on, or on and cancelled
          sqls,        \* the statements of the batch
          done,        \* progressDone
          waiting,     \* the request the loop waits for
          results,     \* importResults: index -> what the page shows
          stage,       \* request -> where api_knowledge_import_test is
          call         \* request -> its arguments and local variables

pageVars == <<loop, sqls, done, waiting, results>>
handlerVars == <<stage, call>>
importVars == <<pageVars, handlerVars>>
flowVars == <<vars, importVars>>

\* An entry of the page: what it shows and, where there is a button to save
\* in spite of the mismatch, the statement and the translation it shows.
Plain(shown) == [shown |-> shown, of |-> Nothing]

NoCall == [idx |-> 0, mysql |-> Nothing, mode |-> Nothing, reviewed |-> Nothing,
           force |-> FALSE, heard |-> FALSE, sql |-> Nothing, agreed |-> FALSE]

\* A call somebody waits for, as it arrives.
NewCall(i, q, m, force, reviewed) ==
    [idx |-> i, mysql |-> q, mode |-> m, reviewed |-> reviewed,
     force |-> force, heard |-> TRUE, sql |-> Nothing, agreed |-> FALSE]

ImportInit ==
    /\ Init
    /\ loop = "off"
    /\ sqls = <<>>
    /\ done = 0
    /\ waiting = NoRequest
    /\ results = [i \in {} |-> Plain("pending")]
    /\ stage = [r \in Request |-> "idle"]
    /\ call = [r \in Request |-> NoCall]

-----------------------------------------------------------------------------
(* The page *)

StartImport(b) ==
    /\ loop = "off"
    /\ loop' = "on"
    /\ sqls' = b
    /\ done' = 0
    /\ results' = [i \in 1 .. Len(b) |-> Plain("pending")]
    /\ UNCHANGED <<waiting, vars, handlerVars>>

CancelImport ==
    /\ loop = "on"
    /\ loop' = "cancelled"
    /\ UNCHANGED <<sqls, done, waiting, results>>
    /\ UNCHANGED <<vars, handlerVars>>

EndImport ==
    /\ waiting = NoRequest
    /\ \/ loop = "cancelled"
       \/ loop = "on" /\ done = Len(sqls)
    /\ loop' = "off"
    /\ UNCHANGED <<sqls, done, waiting, results>>
    /\ UNCHANGED <<vars, handlerVars>>

NextStatement ==
    loop = "on" /\ waiting = NoRequest /\ done < Len(sqls)

\* A call reaches the agent, which gives it a thread. Its mode is the one
\* chosen on the page by then, which the user can change at any time.
Accepted(r, i, q, force, reviewed) ==
    /\ stage[r] = "idle"
    /\ pc[r] = "idle"
    /\ stage' = [stage EXCEPT ![r] = "recall"]
    /\ \E m \in Mode :
        call' = [call EXCEPT ![r] = NewCall(i, q, m, force, reviewed)]

Post(r) ==
    /\ NextStatement
    /\ Accepted(r, done + 1, sqls[done + 1], FALSE, Nothing)
    /\ waiting' = r
    /\ UNCHANGED <<loop, sqls, done, results, vars>>

\* results[idx] = j, in the batch that is on the page by now
Show(i, entry) ==
    results' = [j \in DOMAIN results \union {i} |-> IF j = i THEN entry ELSE results[j]]

\* The console or the agent cannot be reached, or no thread takes the call.
PostFails ==
    /\ NextStatement
    /\ Show(done + 1, Plain("unsaved"))
    /\ done' = done + 1
    /\ UNCHANGED <<loop, sqls, waiting>>
    /\ UNCHANGED <<vars, handlerVars>>

\* forceSave. The button stays there until the answer comes.
ForceSave(r, i) ==
    /\ i \in DOMAIN results
    /\ results[i].shown = "differs"
    /\ Accepted(r, i, results[i].of[1], TRUE, results[i].of[2])
    /\ UNCHANGED <<pageVars, vars>>

\* The console says that it cannot reach the agent: its answer replaces the
\* entry, which loses the translation and the button.
ForceFails(i) ==
    /\ i \in DOMAIN results
    /\ results[i].shown = "differs"
    /\ Show(i, Plain("unsaved"))
    /\ UNCHANGED <<loop, sqls, done, waiting>>
    /\ UNCHANGED <<vars, handlerVars>>

\* Wrong on purpose: forced saves move the progress of the loop, too.
LoopAlwaysGoesOn(r) ==
    waiting' = NoRequest /\ done' = done + 1

\* The loop goes on when its call has ended.
LoopGoesOn(r) ==
    IF call[r].force THEN UNCHANGED <<waiting, done>>
    ELSE waiting' = NoRequest /\ done' = done + 1

\* Wrong on purpose: the page is not told.
GiveUpSilently(r) ==
    /\ call[r].heard
    /\ call' = [call EXCEPT ![r].heard = FALSE]
    /\ UNCHANGED <<pageVars, stage, vars>>

\* The console's 180 s are over, or the connection broke. A call of the loop
\* is shown as failed; so is a forced one if the console says so, if fetch
\* threw its entry stays as it is.
GiveUp(r) ==
    /\ call[r].heard
    /\ call' = [call EXCEPT ![r].heard = FALSE]
    /\ \/ Show(call[r].idx, Plain("unsaved"))
       \/ call[r].force /\ UNCHANGED results
    /\ LoopGoesOn(r)
    /\ UNCHANGED <<loop, sqls, stage, vars>>

-----------------------------------------------------------------------------
(* api_knowledge_import_test *)

GoTo(r, step) == stage' = [stage EXCEPT ![r] = step]

\* translate() looks for examples first; with or without them it asks the
\* model.
Recalls(r) ==
    /\ stage[r] = "recall"
    /\ \/ Recall(r, call[r].mysql)
       \/ RecallFails(r)
    /\ GoTo(r, "translate")
    /\ UNCHANGED <<pageVars, call>>

\* The model answers; what it marks as untranslatable ends the request.
Translates(r) ==
    /\ stage[r] = "translate"
    /\ pc[r] = "idle"
    /\ \E s \in Sql :
        IF Begins(s, Untranslatable)
        THEN GoTo(r, "failed") /\ UNCHANGED call
        ELSE GoTo(r, "execute") /\ call' = [call EXCEPT ![r].sql = s]
    /\ UNCHANGED <<pageVars, vars>>

\* A translation or an execution, on either side, that fails ends the
\* request.
Fails(r) ==
    /\ stage[r] \in {"translate", "execute"}
    /\ pc[r] = "idle"
    /\ GoTo(r, "failed")
    /\ UNCHANGED <<pageVars, call, vars>>

\* The mode an import is saved with.
SaveMode(r, ok) ==
    IF ~ok /\ call[r].force THEN "override" ELSE call[r].mode

\* Redshift can run a statement and nothing else.
Executable(s) == Len(s) = 1 /\ s[1] \in SQLStatement

\* MySQL and Redshift have answered; the statement is saved if the results
\* agree or the user insists. (agreed is what the comparison should find; it
\* is there for the properties.)
Runs(r) ==
    /\ stage[r] = "execute"
    /\ Executable(call[r].sql)
    /\ \E mine, theirs \in Result :
        LET ok == Compare(mine, theirs, call[r].mode)
        IN  /\ call' = [call EXCEPT ![r].agreed = Agree(mine, theirs, call[r].mode)]
            /\ IF ok \/ call[r].force
               THEN /\ Offer(r, Import(call[r].mysql, call[r].sql, SaveMode(r, ok)))
                    /\ GoTo(r, "saving")
               ELSE GoTo(r, "differs") /\ UNCHANGED vars
    /\ UNCHANGED pageVars

\* What the page makes of an answer.
Shown(r) ==
    IF result[r] # NoId THEN Plain("saved")
    ELSE IF stage[r] = "differs"
    THEN [shown |-> "differs", of |-> <<call[r].mysql, call[r].sql>>]
    ELSE Plain("unsaved")

\* Wrong on purpose: the page still takes an answer it has given up.
AnswersLate(r) ==
    /\ \/ stage[r] = "saving" /\ Return(r)
       \/ stage[r] \in {"failed", "differs"} /\ UNCHANGED vars
    /\ GoTo(r, "idle")
    /\ call' = [call EXCEPT ![r] = NoCall]
    /\ Show(call[r].idx, Shown(r))
    /\ LoopGoesOn(r)
    /\ UNCHANGED <<loop, sqls>>

\* The handler ends. If the console has given up nobody hears the answer.
Answers(r) ==
    /\ \/ stage[r] = "saving" /\ Return(r)
       \/ stage[r] \in {"failed", "differs"} /\ UNCHANGED vars
    /\ GoTo(r, "idle")
    /\ call' = [call EXCEPT ![r] = NoCall]
    /\ IF call[r].heard
       THEN Show(call[r].idx, Shown(r)) /\ LoopGoesOn(r)
       ELSE UNCHANGED <<results, waiting, done>>
    /\ UNCHANGED <<loop, sqls>>

-----------------------------------------------------------------------------
(* The knowledge base meanwhile *)

\* The statements of a request, whoever it serves.
Statement(r) ==
    /\ \/ CountHits(r)
       \/ pc[r] = "count" /\ RecallFails(r)
       \/ Nearest(r) \/ Bump(r) \/ Insert(r) \/ SaveFails(r)
       \/ stage[r] = "idle" /\ Return(r)
    /\ UNCHANGED importVars

\* /save_example: the proxy saves what it has executed.
ProxySaves(r) ==
    /\ stage[r] = "idle"
    /\ \E e \in Example : e.source = "runtime" /\ Offer(r, e)
    /\ UNCHANGED importVars

Deletes(id) == Delete(id) /\ UNCHANGED importVars

PageLoop == PostFails \/ EndImport \/ \E r \in Request : Post(r)

ImportNext ==
    \/ \E b \in Batch : StartImport(b)
    \/ CancelImport
    \/ PageLoop
    \/ \E i \in DOMAIN results : ForceFails(i)
    \/ \E r \in Request :
        \/ \E i \in DOMAIN results : ForceSave(r, i)
        \/ GiveUp(r)
        \/ Recalls(r) \/ Translates(r) \/ Fails(r) \/ Runs(r) \/ Answers(r)
        \/ Statement(r) \/ ProxySaves(r)
    \/ \E id \in Id : Deletes(id)

\* Without fairness: a handler may hang in the model or in Redshift.
ImportSpec == ImportInit /\ [][ImportNext]_flowVars

\* The page goes on with its loop and the console gives up after 180 s.
FairImportSpec ==
    /\ ImportSpec
    /\ WF_flowVars(PageLoop)
    /\ \A r \in Request : WF_flowVars(GiveUp(r))

-----------------------------------------------------------------------------
(* What imports promise *)

Entry == [shown : {"pending", "unsaved", "saved"}, of : {Nothing}]
         \union [shown : {"differs"}, of : Query \X Sql]

\* The value of every variable has its type, and a handler has the values its
\* next step needs.
ImportTypeOK ==
    /\ TypeOK
    /\ loop \in {"off", "on", "cancelled"}
    /\ sqls \in Batch \union {<<>>}
    /\ done \in 0 .. Len(sqls)
    /\ waiting \in Request \union {NoRequest}
    /\ \A i \in DOMAIN results : i \in Nat /\ results[i] \in Entry
    /\ stage \in [Request -> {"idle", "recall", "translate", "execute",
                              "saving", "failed", "differs"}]
    /\ \A r \in Request :
        /\ stage[r] = "idle" <=> call[r] = NoCall
        /\ stage[r] # "idle" => call[r].mysql \in Query /\ call[r].mode \in Mode
        /\ stage[r] \in {"execute", "saving", "differs"}
               => call[r].sql \in Sql

\* The loop of startImport is in step with the entries: what is done shows an
\* outcome, and the loop waits for the call of the next statement and for no
\* other one, whatever forced saves and late answers come in between.
LoopInStep ==
    /\ \A i \in 1 .. done : i \in DOMAIN results /\ results[i].shown # "pending"
    /\ waiting # NoRequest =>
        /\ loop # "off" /\ done < Len(sqls)
        /\ ~call[waiting].force /\ call[waiting].heard
        /\ call[waiting].idx = done + 1
        /\ call[waiting].mysql = sqls[done + 1]

\* api_knowledge_import_test: an import that comes into the knowledge base
\* has been translated and run on both sides by the handler that saves it. Its
\* mode says whether the results agreed in the sense of that mode, or that
\* the user has insisted.
ImportedVerified ==
    [][\A i \in DOMAIN rows' :
        LET e == rows'[i].example
        IN  /\ i \in DOMAIN rows => rows[i].example # e
            /\ e.source = "import"
            => \E r \in Request :
                /\ stage[r] = "saving" /\ pc[r] = "insert"
                /\ e.mysql = call[r].mysql /\ e.redshift = call[r].sql
                /\ IF e.mode = "override" THEN call[r].force
                   ELSE e.mode = call[r].mode /\ call[r].agreed]_rows

\* What the alert at the end of startImport offers: after looking at a
\* translation whose results differ the user can save it all the same.
ForcedSaveStoresReviewed ==
    [][\A r \in Request :
        pc[r] = "insert" /\ pc'[r] = "saved" /\ nextId' # nextId /\ call[r].force
        => job[r].redshift = call[r].reviewed]_<<nextId, pc>>

\* The comment before the sorting in compare: the order of the rows does not
\* matter. A statement is shown to differ only if its results do.
MismatchIsReal ==
    [][\A r \in Request :
        stage[r] # "differs" /\ stage'[r] = "differs"
        => ~call'[r].agreed]_stage

\* extract_sql: remarks before a statement, its fence and its semicolon do
\* not reach Redshift. SQL that is not a bare statement comes from an answer of
\* some other form.
BareStatementRuns ==
    \A r \in Request :
        stage[r] = "execute" =>
            \/ Executable(call[r].sql)
            \/ \E x \in ModelText \ Expected : extract_sql(x) = call[r].sql

\* An import comes to its end, whatever the agent and the databases do.
ImportEnds == (loop # "off") ~> (loop = "off")
=============================================================================
