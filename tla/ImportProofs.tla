---------------------------- MODULE ImportProofs ----------------------------
(***************************************************************************)
(* Theorems about ImportFlow. The invariant ties the loop of the page to   *)
(* the one call it waits for (Loop) and each handler's place to what it    *)
(* holds (Handlers). With it every step of the import is a step of the     *)
(* knowledge base, so the theorems of KnowledgeProofs hold here as well.   *)
(* The comparison is sound because sorting puts the rows of each side in a *)
(* total order; AllSaves carries its verdict to what is saved.             *)
(***************************************************************************)
EXTENDS ImportFlow, KnowledgeProofs, AnswerProofs

Call == [idx : Nat, mysql : Query \union {Nothing}, mode : Mode \union {Nothing},
         reviewed : Sql \union {Nothing}, force : BOOLEAN, heard : BOOLEAN,
         sql : Sql \union {Nothing}, agreed : BOOLEAN]

Stage == {"idle", "recall", "translate", "execute", "saving", "failed", "differs"}

Page ==
    /\ loop \in {"off", "on", "cancelled"}
    /\ sqls \in Batch \union {<<>>}
    /\ done \in Nat
    /\ done <= Len(sqls)
    /\ 1 .. Len(sqls) \subseteq DOMAIN results
    /\ \A i \in DOMAIN results : i \in Nat /\ results[i] \in Entry
    /\ \A i \in 1 .. done : results[i].shown # "pending"

Handlers ==
    /\ stage \in [Request -> Stage]
    /\ call \in [Request -> Call]
    /\ \A r \in Request :
        /\ stage[r] = "idle" <=> call[r] = NoCall
        /\ stage[r] # "idle" => call[r].mysql \in Query /\ call[r].mode \in Mode
        /\ stage[r] \in {"execute", "saving", "differs"} => call[r].sql \in Sql

Loop ==
    /\ waiting \in Request \union {NoRequest}
    /\ \A r \in Request : call[r].heard /\ ~call[r].force => waiting = r
    /\ waiting # NoRequest =>
        /\ loop # "off"
        /\ done < Len(sqls)
        /\ ~call[waiting].force /\ call[waiting].heard
        /\ call[waiting].idx = done + 1
        /\ call[waiting].mysql = sqls[done + 1]

FlowInv == Page /\ Handlers /\ Loop

-----------------------------------------------------------------------------
(* The parts of a step *)

\* A batch is a finite sequence of statements.
LEMMA BatchLength ==
    ASSUME NEW b \in Batch \union {<<>>}
    PROVE  /\ Len(b) \in Nat
           /\ \A i \in 1 .. Len(b) : b[i] \in Query
  BY ImportAssumption

\* What a page shows for good stays in step when one more entry is shown.
LEMMA ShowKeepsPage ==
    ASSUME Page, NEW i \in Nat, NEW entry \in Entry, entry.shown # "pending",
           Show(i, entry), UNCHANGED <<loop, sqls>>,
           \/ UNCHANGED done
           \/ i = done + 1 /\ done' = done + 1 /\ done < Len(sqls)
    PROVE  Page'
  <1>1. /\ DOMAIN results' = DOMAIN results \union {i}
        /\ \A j \in DOMAIN results' :
                results'[j] = IF j = i THEN entry ELSE results[j]
    BY DEF Show
  <1>2. Len(sqls) \in Nat
    BY BatchLength DEF Page
  <1>3. done' \in Nat /\ done' <= Len(sqls)'
    BY <1>2 DEF Page
  <1>4. \A j \in DOMAIN results' : j \in Nat /\ results'[j] \in Entry
    BY <1>1 DEF Page
  <1>5. \A j \in 1 .. done' : results'[j].shown # "pending"
    <2> SUFFICES ASSUME NEW j \in 1 .. done', j # i
                 PROVE  results'[j].shown # "pending"
      <3>1. 1 .. done' \subseteq DOMAIN results'
        BY <1>1, <1>2, <1>3 DEF Page
      <3> QED  BY <1>1, <3>1
    <2>1. j \in 1 .. done
      BY <1>3 DEF Page
    <2>2. j \in DOMAIN results
      BY <1>2, <2>1 DEF Page
    <2> QED  BY <1>1, <2>1, <2>2 DEF Page
  <1> QED  BY <1>1, <1>3, <1>4, <1>5 DEF Page

\* A call that is accepted.
LEMMA AcceptedKeepsHandlers ==
    ASSUME Handlers, NEW r \in Request, NEW i \in Nat, NEW q \in Query,
           NEW force \in BOOLEAN, NEW reviewed \in Sql \union {Nothing},
           Accepted(r, i, q, force, reviewed)
    PROVE  /\ Handlers'
           /\ \A o \in Request : o # r => call'[o] = call[o]
           /\ call'[r].idx = i /\ call'[r].mysql = q
           /\ call'[r].force = force /\ call'[r].heard
  <1>1. PICK m \in Mode :
            call' = [call EXCEPT ![r] = NewCall(i, q, m, force, reviewed)]
    BY DEF Accepted
  <1> DEFINE new == NewCall(i, q, m, force, reviewed)
  <1>2. call' = [call EXCEPT ![r] = new]
    BY <1>1
  <1>3. new \in Call /\ new # NoCall
    BY DEF Call, NoCall, NewCall
  <1>4. /\ new.idx = i /\ new.mysql = q /\ new.mode = m
        /\ new.force = force /\ new.heard
    BY DEF NewCall
  <1> HIDE DEF new
  <1>5. /\ call' \in [Request -> Call]
        /\ call'[r] = new
        /\ \A o \in Request : o # r => call'[o] = call[o]
    BY <1>2, <1>3 DEF Handlers
  <1>6. /\ stage' \in [Request -> Stage]
        /\ stage'[r] = "recall"
        /\ \A o \in Request : o # r => stage'[o] = stage[o]
    BY DEF Accepted, Handlers, Stage
  <1>7. ASSUME NEW o \in Request
        PROVE  /\ stage'[o] = "idle" <=> call'[o] = NoCall
               /\ stage'[o] # "idle" => call'[o].mysql \in Query /\ call'[o].mode \in Mode
               /\ stage'[o] \in {"execute", "saving", "differs"} => call'[o].sql \in Sql
    <2>1. CASE o = r
      BY <1>3, <1>4, <1>5, <1>6, <2>1
    <2>2. CASE o # r
      BY <1>5, <1>6, <2>2 DEF Handlers
    <2> QED  BY <2>1, <2>2
  <1> QED  BY <1>4, <1>5, <1>6, <1>7 DEF Handlers

\* One handler goes on and leaves what it was called with.
LEMMA HandlerGoesOn ==
    ASSUME FlowInv, NEW r \in Request, NEW step \in Stage, GoTo(r, step),
           stage[r] # "idle", step # "idle",
           call'[r] \in Call,
           \A o \in Request : o # r => call'[o] = call[o],
           call' \in [Request -> Call],
           /\ call'[r].idx = call[r].idx
           /\ call'[r].mysql = call[r].mysql
           /\ call'[r].mode = call[r].mode
           /\ call'[r].force = call[r].force
           /\ call'[r].heard = call[r].heard,
           step \in {"execute", "saving", "differs"} => call'[r].sql \in Sql,
           UNCHANGED pageVars
    PROVE  FlowInv'
  <1>1. Page'
    BY DEF FlowInv, Page, pageVars
  <1>2. /\ stage' \in [Request -> Stage]
        /\ stage'[r] = step
        /\ \A o \in Request : o # r => stage'[o] = stage[o]
    BY DEF GoTo, FlowInv, Handlers
  <1>4. call[r].mysql \in Query /\ call[r].mode \in Mode
    BY DEF FlowInv, Handlers
  <1>5. call'[r] # NoCall
    BY <1>4, ImportAssumption DEF NoCall
  <1>6. Handlers'
    <2> SUFFICES ASSUME NEW o \in Request
                 PROVE  /\ stage'[o] = "idle" <=> call'[o] = NoCall
                        /\ stage'[o] # "idle" =>
                                call'[o].mysql \in Query /\ call'[o].mode \in Mode
                        /\ stage'[o] \in {"execute", "saving", "differs"} =>
                                call'[o].sql \in Sql
      BY <1>2 DEF Handlers
    <2>1. CASE o = r
      BY <1>2, <1>4, <1>5, <2>1
    <2>2. CASE o # r
      BY <1>2, <2>2 DEF FlowInv, Handlers
    <2> QED  BY <2>1, <2>2
  <1>7. Loop'
    <2>1. \A o \in Request : /\ call'[o].idx = call[o].idx
                             /\ call'[o].mysql = call[o].mysql
                             /\ call'[o].force = call[o].force
                             /\ call'[o].heard = call[o].heard
      OBVIOUS
    <2>2. UNCHANGED <<loop, sqls, done, waiting>>
      BY DEF pageVars
    <2> QED  BY <2>1, <2>2 DEF FlowInv, Loop
  <1> QED  BY <1>1, <1>6, <1>7 DEF FlowInv

\* The console gives up, or the handler ends: nobody waits for the call any
\* more, and if somebody did, an entry shows an outcome.
LEMMA CallEnds ==
    ASSUME FlowInv, NEW r \in Request, stage[r] # "idle",
           NEW entry \in Entry, entry.shown # "pending",
           \/ call[r].heard /\ Show(call[r].idx, entry) /\ LoopGoesOn(r)
           \/ call[r].heard /\ call[r].force /\ UNCHANGED results /\ LoopGoesOn(r)
           \/ ~call[r].heard /\ UNCHANGED <<results, waiting, done>>,
           UNCHANGED <<loop, sqls>>,
           Handlers', ~call'[r].heard,
           \A o \in Request : o # r => call'[o] = call[o]
    PROVE  FlowInv'
  <1> USE DEF FlowInv
  <1>1. call[r].idx \in Nat /\ call[r].force \in BOOLEAN /\ call[r].heard \in BOOLEAN
    BY DEF Handlers, Call
  <1>2. Len(sqls) \in Nat
    BY BatchLength DEF Page
  <1>3. CASE call[r].heard /\ ~call[r].force
    <2>1. /\ waiting = r
          /\ done < Len(sqls)
          /\ call[r].idx = done + 1
      BY <1>3, ImportAssumption DEF Loop
    <2>2. /\ waiting' = NoRequest
          /\ done' = done + 1
          /\ Show(call[r].idx, entry)
      BY <1>3 DEF LoopGoesOn
    <2>3. Page'
      BY <1>1, <2>1, <2>2, ShowKeepsPage
    <2>4. Loop'
      BY <2>1, <2>2 DEF Loop
    <2> QED  BY <2>3, <2>4
  <1>4. CASE call[r].heard /\ call[r].force
    <2>1. /\ UNCHANGED <<waiting, done>>
          /\ Show(call[r].idx, entry) \/ UNCHANGED results
      BY <1>4 DEF LoopGoesOn
    <2>2. Page'
      <3>1. CASE Show(call[r].idx, entry)
        BY <1>1, <2>1, <3>1, ShowKeepsPage
      <3>2. CASE UNCHANGED results
        BY <2>1, <3>2 DEF Page
      <3> QED  BY <2>1, <3>1, <3>2
    <2>3. waiting # r
      BY <1>4, ImportAssumption DEF Loop
    <2>4. Loop'
      BY <2>1, <2>3 DEF Loop
    <2> QED  BY <2>2, <2>4
  <1>5. CASE ~call[r].heard
    <2>1. waiting # r
      BY <1>5, ImportAssumption DEF Loop
    <2>2. Page' /\ UNCHANGED <<waiting, done, loop, sqls>>
      BY <1>5 DEF Page
    <2>3. Loop'
      BY <2>1, <2>2 DEF Loop
    <2> QED  BY <2>2, <2>3
  <1> QED  BY <1>1, <1>3, <1>4, <1>5

-----------------------------------------------------------------------------
(* The steps *)

LEMMA PageSteps ==
    ASSUME FlowInv,
           \/ \E b \in Batch : StartImport(b)
           \/ CancelImport \/ PostFails \/ EndImport
           \/ \E i \in DOMAIN results : ForceFails(i)
    PROVE  FlowInv'
  <1> USE DEF FlowInv
  <1>1. Len(sqls) \in Nat
    BY BatchLength DEF Page
  <1>2. UNCHANGED <<stage, call>> /\ Handlers'
    <2>1. UNCHANGED <<stage, call>>
      BY DEF StartImport, CancelImport, PostFails, EndImport, ForceFails, handlerVars
    <2> QED  BY <2>1 DEF Handlers
  <1>3. Plain("unsaved") \in Entry /\ Plain("unsaved").shown # "pending"
    BY DEF Plain, Entry
  <1>4. ASSUME NEW b \in Batch, StartImport(b) PROVE FlowInv'
    <2>1. /\ results' = [i \in 1 .. Len(b) |-> Plain("pending")]
          /\ sqls' = b /\ done' = 0 /\ loop' = "on"
          /\ Len(b) \in Nat
      BY <1>4, BatchLength DEF StartImport
    <2>2. Plain("pending") \in Entry
      BY DEF Plain, Entry
    <2>3. Page'
      BY <2>1, <2>2 DEF Page
    <2>4. waiting' = NoRequest /\ waiting = NoRequest
      BY <1>4 DEF StartImport, Loop
    <2>5. Loop'
      BY <1>2, <2>4 DEF Loop
    <2> QED  BY <1>2, <2>3, <2>5
  <1>5. CASE CancelImport
    <2>1. Page' /\ Loop'
      BY <1>2, <1>5 DEF CancelImport, Page, Loop
    <2> QED  BY <1>2, <2>1
  <1>6. CASE EndImport
    <2>1. Page' /\ Loop'
      BY <1>2, <1>6 DEF EndImport, Page, Loop
    <2> QED  BY <1>2, <2>1
  <1>7. CASE PostFails
    <2>1. /\ Show(done + 1, Plain("unsaved"))
          /\ done' = done + 1 /\ done < Len(sqls)
          /\ UNCHANGED <<loop, sqls, waiting>>
          /\ waiting = NoRequest
      BY <1>7 DEF PostFails, NextStatement
    <2>2. done + 1 \in Nat
      BY DEF Page
    <2>3. Page'
      BY <1>3, <2>1, <2>2, ShowKeepsPage
    <2>4. Loop'
      BY <1>2, <2>1 DEF Loop
    <2> QED  BY <1>2, <2>3, <2>4
  <1>8. ASSUME NEW i \in DOMAIN results, ForceFails(i) PROVE FlowInv'
    <2>1. /\ Show(i, Plain("unsaved"))
          /\ UNCHANGED <<loop, sqls, done, waiting>>
          /\ i \in Nat
      BY <1>8 DEF ForceFails, Page
    <2>2. Page'
      BY <1>3, <2>1, ShowKeepsPage
    <2>3. Loop'
      BY <1>2, <2>1 DEF Loop
    <2> QED  BY <1>2, <2>2, <2>3
  <1> QED  BY <1>4, <1>5, <1>6, <1>7, <1>8

LEMMA CallSteps ==
    ASSUME FlowInv, NEW r \in Request,
           \/ Post(r)
           \/ \E i \in DOMAIN results : ForceSave(r, i)
           \/ GiveUp(r) \/ Answers(r)
    PROVE  FlowInv'
  <1> USE DEF FlowInv
  <1>1. Len(sqls) \in Nat /\ \A i \in 1 .. Len(sqls) : sqls[i] \in Query
    BY BatchLength DEF Page
  <1>2. CASE Post(r)
    <2>1. /\ Accepted(r, done + 1, sqls[done + 1], FALSE, Nothing)
          /\ waiting' = r /\ waiting = NoRequest
          /\ loop = "on" /\ done < Len(sqls)
          /\ UNCHANGED <<loop, sqls, done, results>>
      BY <1>2 DEF Post, NextStatement
    <2>2. done + 1 \in Nat /\ sqls[done + 1] \in Query
      BY <1>1, <2>1 DEF Page
    <2>3. /\ Handlers'
          /\ \A o \in Request : o # r => call'[o] = call[o]
          /\ call'[r].idx = done + 1 /\ call'[r].mysql = sqls[done + 1]
          /\ call'[r].force = FALSE /\ call'[r].heard
      BY <2>1, <2>2, AcceptedKeepsHandlers
    <2>4. Page'
      BY <2>1 DEF Page
    <2>5. Loop'
      BY <2>1, <2>3, ImportAssumption DEF Loop
    <2> QED  BY <2>3, <2>4, <2>5
  <1>3. ASSUME NEW i \in DOMAIN results, ForceSave(r, i) PROVE FlowInv'
    <2>1. /\ results[i].shown = "differs"
          /\ Accepted(r, i, results[i].of[1], TRUE, results[i].of[2])
          /\ UNCHANGED <<loop, sqls, done, waiting, results>>
      BY <1>3 DEF ForceSave, pageVars
    <2>2. /\ i \in Nat
          /\ results[i].of[1] \in Query /\ results[i].of[2] \in Sql
      BY <2>1 DEF Page, Entry
    <2>3. /\ Handlers'
          /\ \A o \in Request : o # r => call'[o] = call[o]
          /\ call'[r].force = TRUE
      BY <2>1, <2>2, AcceptedKeepsHandlers
    <2>4. Page'
      BY <2>1 DEF Page
    <2>5. stage[r] = "idle" /\ call[r] = NoCall
      BY <2>1 DEF Accepted, Handlers
    <2>6. waiting # r
      BY <2>5, ImportAssumption DEF Loop, NoCall
    <2>7. Loop'
      BY <2>1, <2>3, <2>6 DEF Loop
    <2> QED  BY <2>3, <2>4, <2>7
  <1>4. CASE GiveUp(r)
    <2>1. /\ call[r].heard
          /\ call' = [call EXCEPT ![r].heard = FALSE]
          /\ UNCHANGED <<loop, sqls, stage>>
      BY <1>4 DEF GiveUp
    <2>2. stage[r] # "idle"
      BY <2>1 DEF Handlers, NoCall
    <2>3. /\ call' \in [Request -> Call]
          /\ call'[r].mysql = call[r].mysql /\ call'[r].mode = call[r].mode
          /\ call'[r].sql = call[r].sql /\ call'[r].heard = FALSE
          /\ \A o \in Request : o # r => call'[o] = call[o]
      <3> DEFINE gone == [call[r] EXCEPT !.heard = FALSE]
      <3>1. call \in [Request -> Call] /\ call[r] \in Call
        BY DEF Handlers
      <3>2. /\ gone \in Call
            /\ gone.mysql = call[r].mysql /\ gone.mode = call[r].mode
            /\ gone.sql = call[r].sql /\ gone.heard = FALSE
        BY <3>1 DEF Call
      <3>3. call' = [call EXCEPT ![r] = gone]
        BY <2>1
      <3> HIDE DEF gone
      <3> QED  BY <3>1, <3>2, <3>3
    <2>4. call'[r] # NoCall
      BY <2>2, <2>3, ImportAssumption DEF Handlers, NoCall
    <2>5. Handlers'
      BY <2>1, <2>2, <2>3, <2>4 DEF Handlers
    <2>6. Plain("unsaved") \in Entry /\ Plain("unsaved").shown # "pending"
      BY DEF Plain, Entry
    <2> QED  BY <1>4, <2>1, <2>2, <2>3, <2>5, <2>6, CallEnds DEF GiveUp
  <1>5. CASE Answers(r)
    <2>1. /\ stage[r] \in {"saving", "failed", "differs"}
          /\ GoTo(r, "idle")
          /\ call' = [call EXCEPT ![r] = NoCall]
          /\ UNCHANGED <<loop, sqls>>
      BY <1>5 DEF Answers
    <2>2. NoCall \in Call /\ ~NoCall.heard
      BY DEF NoCall, Call
    <2>3. /\ call' \in [Request -> Call] /\ call'[r] = NoCall
          /\ stage' \in [Request -> Stage] /\ stage'[r] = "idle"
          /\ \A o \in Request : o # r => call'[o] = call[o] /\ stage'[o] = stage[o]
      BY <2>1, <2>2 DEF Handlers, GoTo, Stage
    <2>4. Handlers'
      BY <2>3 DEF Handlers
    <2>5. Shown(r) \in Entry /\ Shown(r).shown # "pending"
      BY <2>1 DEF Shown, Plain, Entry, Handlers
    <2> QED  BY <1>5, <2>1, <2>2, <2>3, <2>4, <2>5, CallEnds DEF Answers
  <1> QED  BY <1>2, <1>3, <1>4, <1>5

LEMMA HandlerSteps ==
    ASSUME FlowInv, NEW r \in Request,
           Recalls(r) \/ Translates(r) \/ Fails(r) \/ Runs(r)
    PROVE  FlowInv'
  <1>1. call \in [Request -> Call]
    BY DEF FlowInv, Handlers
  <1>2. CASE Recalls(r)
    <2>1. stage[r] = "recall" /\ GoTo(r, "translate") /\ UNCHANGED <<pageVars, call>>
      BY <1>2 DEF Recalls
    <2> QED  BY <1>1, <2>1, HandlerGoesOn DEF Stage
  <1>3. CASE Translates(r)
    <2>1. CASE GoTo(r, "failed") /\ UNCHANGED call
      <3>1. stage[r] = "translate" /\ UNCHANGED pageVars
        BY <1>3 DEF Translates
      <3> QED  BY <1>1, <2>1, <3>1, HandlerGoesOn DEF Stage
    <2>2. CASE ~(GoTo(r, "failed") /\ UNCHANGED call)
      <3>1. PICK s \in Sql : GoTo(r, "execute") /\ call' = [call EXCEPT ![r].sql = s]
        BY <1>3, <2>2 DEF Translates
      <3>2. /\ call' \in [Request -> Call]
            /\ call'[r].idx = call[r].idx /\ call'[r].mysql = call[r].mysql
            /\ call'[r].mode = call[r].mode /\ call'[r].force = call[r].force
            /\ call'[r].heard = call[r].heard /\ call'[r].sql \in Sql
            /\ \A o \in Request : o # r => call'[o] = call[o]
        BY <1>1, <3>1 DEF Call
      <3>3. stage[r] = "translate" /\ GoTo(r, "execute") /\ UNCHANGED pageVars
        BY <1>3, <3>1 DEF Translates
      <3> QED  BY <3>2, <3>3, HandlerGoesOn DEF Stage
    <2> QED  BY <2>1, <2>2
  <1>4. CASE Fails(r)
    <2>1. /\ stage[r] # "idle" /\ GoTo(r, "failed")
          /\ UNCHANGED <<pageVars, call>>
      BY <1>4 DEF Fails
    <2> QED  BY <1>1, <2>1, HandlerGoesOn DEF Stage
  <1>5. CASE Runs(r)
    <2>1. PICK mine \in Result, theirs \in Result :
            /\ call' = [call EXCEPT ![r].agreed = Agree(mine, theirs, call[r].mode)]
            /\ GoTo(r, "saving") \/ GoTo(r, "differs")
      BY <1>5 DEF Runs
    <2>2. Agree(mine, theirs, call[r].mode) \in BOOLEAN
      BY DEF Agree
    <2>3. /\ call' \in [Request -> Call]
          /\ call'[r].idx = call[r].idx /\ call'[r].mysql = call[r].mysql
          /\ call'[r].mode = call[r].mode /\ call'[r].force = call[r].force
          /\ call'[r].heard = call[r].heard /\ call'[r].sql = call[r].sql
          /\ \A o \in Request : o # r => call'[o] = call[o]
      BY <1>1, <2>1, <2>2 DEF Call
    <2>4. stage[r] = "execute" /\ UNCHANGED pageVars /\ call[r].sql \in Sql
      BY <1>5 DEF Runs, FlowInv, Handlers
    <2> QED  BY <2>1, <2>3, <2>4, HandlerGoesOn DEF Stage
  <1> QED  BY <1>2, <1>3, <1>4, <1>5

\* The invariant holds whatever the knowledge base, the model and the two
\* databases do.
LEMMA FlowInvCorrect == ImportSpec => []FlowInv
  <1>1. ImportInit => FlowInv
    <2> SUFFICES ASSUME ImportInit PROVE FlowInv
      OBVIOUS
    <2>1. Len(sqls) = 0
      BY DEF ImportInit
    <2>2. Page
      BY <2>1 DEF ImportInit, Page
    <2>3. NoCall \in Call /\ ~NoCall.heard
      BY DEF NoCall, Call
    <2>4. Handlers /\ Loop
      BY <2>3 DEF ImportInit, Handlers, Loop, Stage
    <2> QED  BY <2>2, <2>4 DEF FlowInv
  <1>2. FlowInv /\ [ImportNext]_flowVars => FlowInv'
    <2> SUFFICES ASSUME FlowInv, [ImportNext]_flowVars PROVE FlowInv'
      OBVIOUS
    <2>1. ASSUME UNCHANGED importVars PROVE FlowInv'
      BY <2>1 DEF importVars, pageVars, handlerVars, FlowInv, Page, Handlers, Loop
    <2>2. CASE UNCHANGED flowVars
      BY <2>1, <2>2 DEF flowVars
    <2>3. ASSUME NEW r \in Request, Statement(r) \/ ProxySaves(r) PROVE FlowInv'
      BY <2>1, <2>3 DEF Statement, ProxySaves
    <2>4. ASSUME NEW id \in Id, Deletes(id) PROVE FlowInv'
      BY <2>1, <2>4 DEF Deletes
    <2> QED  BY <2>2, <2>3, <2>4, PageSteps, CallSteps, HandlerSteps
             DEF ImportNext, PageLoop
  <1> QED  BY <1>1, <1>2, PTL DEF ImportSpec

-----------------------------------------------------------------------------
(* The theorems *)

\* Whatever page, console and handlers do, to the knowledge base it is nothing
\* but its own operations: every theorem about KnowledgeBase holds for it.
THEOREM UsesKnowledgeBase == ImportSpec => Spec
  <1>1. ImportInit => Init
    BY DEF ImportInit
  <1>2. FlowInv /\ [ImportNext]_flowVars => [Next]_vars
    <2> SUFFICES ASSUME FlowInv, [ImportNext]_flowVars PROVE [Next]_vars
      OBVIOUS
    <2>1. ASSUME NEW r \in Request,
                 Post(r) \/ (\E i \in DOMAIN results : ForceSave(r, i)) \/ GiveUp(r)
                 \/ Translates(r) \/ Fails(r)
          PROVE  UNCHANGED vars
      BY <2>1 DEF Post, ForceSave, GiveUp, Translates, Fails
    <2>2. ASSUME \/ \E b \in Batch : StartImport(b)
                 \/ CancelImport \/ PostFails \/ EndImport
                 \/ \E i \in DOMAIN results : ForceFails(i)
          PROVE  UNCHANGED vars
      BY <2>2 DEF StartImport, CancelImport, PostFails, EndImport, ForceFails
    <2>3. ASSUME NEW r \in Request, Recalls(r) PROVE Next
      <3>1. call[r].mysql \in Query
        BY <2>3 DEF Recalls, FlowInv, Handlers
      <3>2. PICK q \in Query : q = call[r].mysql
        BY <3>1
      <3> QED  BY <2>3, <3>2 DEF Recalls, Next
    <2>4. ASSUME NEW r \in Request, Runs(r) PROVE [Next]_vars
      <3>1. PICK mine \in Result, theirs \in Result :
              LET ok == Compare(mine, theirs, call[r].mode)
              IN  \/ Offer(r, Import(call[r].mysql, call[r].sql, SaveMode(r, ok)))
                  \/ UNCHANGED vars
        BY <2>4 DEF Runs
      <3> DEFINE example ==
            Import(call[r].mysql, call[r].sql,
                   SaveMode(r, Compare(mine, theirs, call[r].mode)))
      <3>2. example \in Example
        BY <2>4, ImportAssumption DEF Runs, SaveMode, FlowInv, Handlers
      <3>3. Offer(r, example) \/ UNCHANGED vars
        BY <3>1
      <3> HIDE DEF example
      <3>4. PICK e \in Example : e = example
        BY <3>2
      <3>5. Offer(r, e) \/ UNCHANGED vars
        BY <3>3, <3>4 DEF Offer
      <3> QED  BY <3>5 DEF Next
    <2>5. ASSUME NEW r \in Request, Answers(r) \/ Statement(r) \/ ProxySaves(r)
          PROVE  [Next]_vars
      BY <2>5 DEF Answers, Statement, ProxySaves, Next
    <2>6. ASSUME NEW id \in Id, Deletes(id) PROVE Next
      BY <2>6 DEF Deletes, Next
    <2>7. CASE UNCHANGED flowVars
      BY <2>7 DEF flowVars
    <2> QED  BY <2>1, <2>2, <2>3, <2>4, <2>5, <2>6, <2>7 DEF ImportNext, PageLoop
  <1> QED  BY <1>1, <1>2, FlowInvCorrect, PTL DEF ImportSpec, Spec

\* Imports are well typed for any batches, handlers and translations.
THEOREM ImportTypeCorrect == ImportSpec => []ImportTypeOK
  <1>1. FlowInv /\ TypeOK => ImportTypeOK
    <2> SUFFICES ASSUME FlowInv, TypeOK PROVE ImportTypeOK
      OBVIOUS
    <2>1. Len(sqls) \in Nat
      BY BatchLength DEF FlowInv, Page
    <2> QED  BY <2>1 DEF FlowInv, Page, Handlers, Loop, Stage, ImportTypeOK
  <1> QED  BY <1>1, FlowInvCorrect, UsesKnowledgeBase, TypeCorrect, PTL

\* The page's loop stays in step with its entries and its one call, however
\* many forced saves, timeouts and late answers there are.
THEOREM LoopCorrect == ImportSpec => []LoopInStep
  <1>1. FlowInv => LoopInStep
    BY DEF FlowInv, Page, Loop, LoopInStep
  <1> QED  BY <1>1, FlowInvCorrect, PTL

\* No mixture of imports and saves gives a statement two rows.
THEOREM ImportsKeepOneRow == ImportSpec => []OneRowPerQuery
  BY UsesKnowledgeBase, OneRowCorrect, PTL

\* Nor do imports change what an id stands for, or use one again.
THEOREM ImportsKeepIdentity == ImportSpec => RowKeepsIdentity
  BY UsesKnowledgeBase, IdentityCorrect, PTL

\* What imports do to the table its clients see as puts and drops of whole
\* examples.
THEOREM ImportsUseStore == ImportSpec => ImplementsStore
  BY UsesKnowledgeBase, ImplementsStoreProved, PTL

\* Where imports and saves are served one at a time, a save that the filter is
\* for never adds a near duplicate, whatever imports have put into the table.
THEOREM SerialImportsFilter ==
    ASSUME \A r, o \in Request : r = o
    PROVE  ImportSpec => NearDuplicateOnlyCounted
  <1>1. Spec => NearDuplicateOnlyCounted
    BY SerialFilter
  <1> QED  BY <1>1, UsesKnowledgeBase, PTL

\* If the model answers in a form the extraction is made for, nothing but a
\* bare statement reaches Redshift: SQL that is not one was extracted from
\* another text. This is for any statements, texts and interleavings.
THEOREM BareStatementsRun == ImportSpec => []BareStatementRuns
  <1>1. FlowInv => BareStatementRuns
    <2> SUFFICES ASSUME FlowInv, NEW r \in Request, stage[r] = "execute"
                 PROVE  \/ Executable(call[r].sql)
                        \/ \E x \in ModelText \ Expected : extract_sql(x) = call[r].sql
      BY DEF BareStatementRuns
    <2>1. call[r].sql \in Sql
      BY DEF FlowInv, Handlers
    <2>2. PICK x \in ModelText : call[r].sql = extract_sql(x)
      BY <2>1 DEF Sql
    <2>3. CASE x \in Expected
      <3>1. PICK s \in SQLStatement : extract_sql(x) = <<s>>
        BY <2>3, ExpectedExtracted
      <3> QED  BY <2>2, <3>1 DEF Executable
    <2>4. CASE x \notin Expected
      BY <2>2, <2>4
    <2> QED  BY <2>3, <2>4
  <1> QED  BY <1>1, FlowInvCorrect, PTL

-----------------------------------------------------------------------------
(* What is saved *)

Storing == {"nearest", "bump", "insert"}

\* An example with the source import is the one its handler has verified, or
\* the user has insisted.
Verified(r) ==
    /\ job[r].mysql = call[r].mysql /\ job[r].redshift = call[r].sql
    /\ IF job[r].mode = "override" THEN call[r].force
       ELSE job[r].mode = call[r].mode /\ call[r].agreed

\* What a handler saves is verified; between the other stages it saves nothing,
\* and what a request saves that serves no handler is not an import.
Saves(r) ==
    /\ pc[r] \in Storing => IF stage[r] = "saving" THEN Verified(r)
                            ELSE job[r].source # "import"
    /\ stage[r] \notin {"idle", "saving"} => pc[r] \in {"idle", "count"}

AllSaves == \A r \in Request : Saves(r)

\* The others are not concerned when one request or handler takes a step.
LEMMA OthersSave ==
    ASSUME AllSaves, NEW r \in Request,
           \A o \in Request : o # r => /\ pc'[o] = pc[o] /\ job'[o] = job[o]
                                       /\ stage'[o] = stage[o] /\ call'[o] = call[o],
           Saves(r)'
    PROVE  AllSaves'
  <1> SUFFICES ASSUME NEW o \in Request, o # r PROVE Saves(o)'
    BY DEF AllSaves
  <1> QED  BY DEF AllSaves, Saves, Verified

\* A statement of the knowledge base leaves the example a request saves.
LEMMA StatementsSave ==
    ASSUME TypeOK, FlowInv, AllSaves, NEW r \in Request, Statement(r) \/ ProxySaves(r)
    PROVE  AllSaves'
  <1>1. UNCHANGED <<stage, call>>
    BY DEF Statement, ProxySaves, importVars, handlerVars
  <1>2. ASSUME pc'[r] \notin Storing,
               stage[r] \notin {"idle", "saving"} => pc'[r] \in {"idle", "count"}
        PROVE  Saves(r)'
    BY <1>1, <1>2 DEF Saves
  <1>3. CASE CountHits(r) \/ RecallFails(r)
    <2>1. pc' = [pc EXCEPT ![r] = "idle"] /\ UNCHANGED job
      BY <1>3 DEF CountHits, RecallFails, Go
    <2>2. Saves(r)'
      BY <1>2, <2>1 DEF TypeOK, Storing
    <2> QED  BY <1>1, <2>1, <2>2, OthersSave DEF TypeOK
  <1>4. CASE Return(r) /\ stage[r] = "idle"
    <2>1. pc' = [pc EXCEPT ![r] = "idle"] /\ UNCHANGED job
      BY <1>4 DEF Return, Go
    <2>2. Saves(r)'
      BY <1>2, <2>1 DEF TypeOK, Storing
    <2> QED  BY <1>1, <2>1, <2>2, OthersSave DEF TypeOK
  <1>5. CASE Bump(r) \/ Insert(r) \/ SaveFails(r)
    <2>1. /\ pc[r] \in Storing
          /\ pc' = [pc EXCEPT ![r] = "saved"]
          /\ job' = [job EXCEPT ![r] = NoExample]
      BY <1>5 DEF Bump, Insert, SaveFails, Saved, Go, Storing
    <2>2. stage[r] \in {"idle", "saving"}
      BY <2>1 DEF AllSaves, Saves, Storing
    <2>3. Saves(r)'
      BY <1>2, <2>1, <2>2 DEF TypeOK, Storing
    <2> QED  BY <1>1, <2>1, <2>3, OthersSave DEF TypeOK
  <1>6. CASE Nearest(r)
    <2>1. /\ pc[r] \in Storing
          /\ \E next \in {"bump", "insert"} : pc' = [pc EXCEPT ![r] = next]
          /\ UNCHANGED job
      BY <1>6 DEF Nearest, Go, Storing
    <2>2. Saves(r)'
      BY <1>1, <2>1 DEF AllSaves, Saves, Verified, Storing, TypeOK
    <2> QED  BY <1>1, <2>1, <2>2, OthersSave DEF TypeOK
  <1>7. CASE ProxySaves(r)
    <2>1. PICK e \in Example : e.source = "runtime" /\ Offer(r, e)
      BY <1>7 DEF ProxySaves
    <2>2. stage[r] = "idle"
      BY <1>7 DEF ProxySaves
    <2>3. /\ \A o \in Request : o # r => pc'[o] = pc[o] /\ job'[o] = job[o]
          /\ pc'[r] = "saved" \/ job'[r] = e
      BY <2>1 DEF Offer, Saved, Go, TypeOK
    <2>4. Saves(r)'
      BY <1>1, <2>1, <2>2, <2>3 DEF Saves, Storing
    <2> QED  BY <1>1, <2>3, <2>4, OthersSave
  <1> QED  BY <1>3, <1>4, <1>5, <1>6, <1>7 DEF Statement

\* So do the steps of the handlers; the comparison decides what is saved.
LEMMA HandlersSave ==
    ASSUME TypeOK, FlowInv, AllSaves, NEW r \in Request,
           \/ Recalls(r) \/ Translates(r) \/ Fails(r) \/ Runs(r)
           \/ Answers(r) \/ GiveUp(r)
           \/ Post(r) \/ \E i \in DOMAIN results : ForceSave(r, i)
    PROVE  AllSaves'
  <1>1. /\ stage \in [Request -> Stage] /\ call \in [Request -> Call]
        /\ pc \in [Request -> {"idle", "nearest", "bump", "insert", "saved", "count"}]
        /\ job \in [Request -> Example \union {NoExample}]
    BY DEF FlowInv, Handlers, TypeOK
  <1>2. Saves(r)
    BY DEF AllSaves
  <1>3. CASE Recalls(r)
    <2>1. /\ stage' = [stage EXCEPT ![r] = "translate"]
          /\ \E next \in {"idle", "count"} : pc' = [pc EXCEPT ![r] = next]
          /\ UNCHANGED <<call, job>>
      BY <1>3 DEF Recalls, GoTo, Go, Recall, RecallFails
    <2>2. Saves(r)'
      BY <1>1, <2>1 DEF Saves, Storing
    <2> QED  BY <1>1, <2>1, <2>2, OthersSave
  <1>4. CASE Translates(r) \/ Fails(r)
    <2>1. /\ pc[r] = "idle"
          /\ \E next \in Stage : stage' = [stage EXCEPT ![r] = next]
          /\ UNCHANGED <<pc, job>>
          /\ \/ UNCHANGED call
             \/ \E s \in Sql : call' = [call EXCEPT ![r].sql = s]
      BY <1>4 DEF Translates, Fails, GoTo, Stage, vars
    <2>2. Saves(r)'
      BY <1>1, <2>1 DEF Saves, Storing
    <2> QED  BY <1>1, <2>1, <2>2, OthersSave
  <1>5. CASE Runs(r)
    <2>1. PICK mine \in Result, theirs \in Result :
            LET ok == Compare(mine, theirs, call[r].mode)
            IN  /\ call' = [call EXCEPT ![r].agreed = Agree(mine, theirs, call[r].mode)]
                /\ IF ok \/ call[r].force
                   THEN /\ Offer(r, Import(call[r].mysql, call[r].sql, SaveMode(r, ok)))
                        /\ stage' = [stage EXCEPT ![r] = "saving"]
                   ELSE stage' = [stage EXCEPT ![r] = "differs"] /\ UNCHANGED vars
      BY <1>5 DEF Runs, GoTo
    <2> DEFINE ok == Compare(mine, theirs, call[r].mode)
               e == Import(call[r].mysql, call[r].sql, SaveMode(r, ok))
               agreed == Agree(mine, theirs, call[r].mode)
    <2>2. ok => agreed
      BY ComparisonSound
    <2>3. /\ call' = [call EXCEPT ![r].agreed = agreed]
          /\ IF ok \/ call[r].force
             THEN Offer(r, e) /\ stage' = [stage EXCEPT ![r] = "saving"]
             ELSE stage' = [stage EXCEPT ![r] = "differs"] /\ UNCHANGED vars
      BY <2>1
    <2>4. /\ call[r].mode \in Mode /\ call[r].mode # "override"
          /\ SaveMode(r, ok) = IF ~ok /\ call[r].force THEN "override" ELSE call[r].mode
      BY <1>5, ImportAssumption DEF FlowInv, Handlers, Runs, SaveMode
    <2>5. /\ e.mysql = call[r].mysql /\ e.redshift = call[r].sql
          /\ e.mode = SaveMode(r, ok) /\ e.source = "import"
      BY DEF Import
    <2>6. agreed \in BOOLEAN
      BY DEF Agree
    <2>7. stage[r] = "execute" /\ pc[r] \in {"idle", "count"}
      BY <1>2, <1>5 DEF Runs, Saves
    <2> HIDE DEF ok, e, agreed
    <2>8. /\ call'[r].mysql = call[r].mysql /\ call'[r].sql = call[r].sql
          /\ call'[r].mode = call[r].mode /\ call'[r].force = call[r].force
          /\ call'[r].agreed = agreed
          /\ \A o \in Request : o # r => call'[o] = call[o]
      BY <1>1, <2>3, <2>6 DEF Call
    <2>9. CASE ok \/ call[r].force
      <3>1. Offer(r, e) /\ stage' = [stage EXCEPT ![r] = "saving"]
        BY <2>3, <2>9
      <3>2. /\ \A o \in Request : o # r => pc'[o] = pc[o] /\ job'[o] = job[o]
            /\ pc'[r] = "insert" /\ job'[r] = e
        BY <1>1, <2>5, <3>1 DEF Offer, Go, Curated
      <3>3. Verified(r)'
        BY <2>2, <2>4, <2>5, <2>8, <2>9, <3>2 DEF Verified
      <3>4. Saves(r)'
        BY <1>1, <3>1, <3>3 DEF Saves
      <3> QED  BY <1>1, <2>8, <3>1, <3>2, <3>4, OthersSave
    <2>10. CASE ~(ok \/ call[r].force)
      <3>1. stage' = [stage EXCEPT ![r] = "differs"] /\ UNCHANGED <<pc, job>>
        BY <2>3, <2>10 DEF vars
      <3>2. Saves(r)'
        BY <1>1, <2>7, <3>1 DEF Saves, Storing
      <3> QED  BY <1>1, <2>8, <3>1, <3>2, OthersSave
    <2> QED  BY <2>9, <2>10
  <1>6. CASE Answers(r)
    <2>1. /\ stage' = [stage EXCEPT ![r] = "idle"]
          /\ call' = [call EXCEPT ![r] = NoCall]
          /\ UNCHANGED job
          /\ \/ pc' = [pc EXCEPT ![r] = "idle"]
             \/ stage[r] \in {"failed", "differs"} /\ UNCHANGED pc
      BY <1>6 DEF Answers, GoTo, Return, Go, vars
    <2>2. Saves(r)'
      BY <1>1, <1>2, <2>1 DEF Saves, Storing
    <2> QED  BY <1>1, <2>1, <2>2, OthersSave
  <1>7. CASE GiveUp(r)
    <2>1. UNCHANGED <<stage, pc, job>> /\ call' = [call EXCEPT ![r].heard = FALSE]
      BY <1>7 DEF GiveUp, vars
    <2>2. /\ call'[r].mysql = call[r].mysql /\ call'[r].sql = call[r].sql
          /\ call'[r].mode = call[r].mode /\ call'[r].force = call[r].force
          /\ call'[r].agreed = call[r].agreed
          /\ \A o \in Request : o # r => call'[o] = call[o]
      BY <1>1, <2>1 DEF Call
    <2>3. Saves(r)'
      BY <1>2, <2>1, <2>2 DEF Saves, Verified
    <2> QED  BY <2>1, <2>2, <2>3, OthersSave
  <1>8. CASE Post(r) \/ \E i \in DOMAIN results : ForceSave(r, i)
    <2>1. /\ pc[r] = "idle" /\ UNCHANGED <<pc, job>>
          /\ stage' = [stage EXCEPT ![r] = "recall"]
          /\ \A o \in Request : o # r => call'[o] = call[o]
      BY <1>1, <1>8 DEF Post, ForceSave, Accepted, vars
    <2>2. Saves(r)'
      BY <1>1, <2>1 DEF Saves, Storing
    <2> QED  BY <1>1, <2>1, <2>2, OthersSave
  <1> QED  BY <1>3, <1>4, <1>5, <1>6, <1>7, <1>8

LEMMA SavesCorrect == ImportSpec => []AllSaves
  <1>1. ImportInit => AllSaves
    BY DEF ImportInit, Init, AllSaves, Saves, Storing
  <1>2. TypeOK /\ FlowInv /\ AllSaves /\ [ImportNext]_flowVars => AllSaves'
    <2> SUFFICES ASSUME TypeOK, FlowInv, AllSaves, [ImportNext]_flowVars PROVE AllSaves'
      OBVIOUS
    <2>1. ASSUME UNCHANGED <<pc, job, stage, call>> PROVE AllSaves'
      BY <2>1 DEF AllSaves, Saves, Verified
    <2>2. CASE UNCHANGED flowVars
      BY <2>1, <2>2 DEF flowVars, vars, importVars, handlerVars
    <2>3. CASE \/ \E b \in Batch : StartImport(b)
               \/ CancelImport \/ PostFails \/ EndImport
               \/ \E i \in DOMAIN results : ForceFails(i)
      BY <2>1, <2>3 DEF StartImport, CancelImport, PostFails, EndImport, ForceFails,
                        vars, handlerVars
    <2>4. ASSUME NEW id \in Id, Deletes(id) PROVE AllSaves'
      BY <2>1, <2>4 DEF Deletes, Delete, importVars, handlerVars
    <2> QED  BY <2>2, <2>3, <2>4, HandlersSave, StatementsSave DEF ImportNext, PageLoop
  <1> QED  BY <1>1, <1>2, UsesKnowledgeBase, TypeCorrect, FlowInvCorrect, PTL DEF ImportSpec

\* Only an insertion changes the text of a row, and it puts the example of its
\* request there.
LEMMA TextsInserted ==
    ASSUME TypeOK, FlowInv, [ImportNext]_flowVars,
           NEW i \in DOMAIN rows', i \in DOMAIN rows => rows[i].example # rows'[i].example
    PROVE  \E r \in Request :
              /\ Statement(r) /\ pc[r] = "insert"
              /\ rows'[i].example = job[r]
  <1>1. Table /\ nextId \in Nat /\ nextId \notin DOMAIN rows
    BY KnowledgeAssumption DEF TypeOK, Table, Id
  <1>2. rows' # rows
    OBVIOUS
  <1>3. ASSUME NEW id \in Id, Deletes(id) PROVE FALSE
    <2>1. rows' = [j \in DOMAIN rows \ {id} |-> rows[j]]
      BY <1>3 DEF Deletes, Delete
    <2>2. i \in DOMAIN rows /\ rows'[i] = rows[i]
      BY <2>1
    <2> QED  BY <2>2
  <1>4. ASSUME NEW r \in Request, Bump(r) \/ CountHits(r) PROVE FALSE
    <2>1. PICK ids : rows' = Counted(ids)
      BY <1>4 DEF Bump, CountHits
    <2>2. i \in DOMAIN rows /\ rows'[i].example = rows[i].example
      BY <1>1, <2>1, CountedProperties
    <2> QED  BY <2>2
  <1>5. ASSUME NEW r \in Request,
               \/ Recalls(r) \/ Translates(r) \/ Fails(r) \/ Runs(r)
               \/ Answers(r) \/ GiveUp(r) \/ ProxySaves(r)
               \/ Post(r) \/ \E j \in DOMAIN results : ForceSave(r, j)
        PROVE  FALSE
    BY <1>2, <1>5 DEF Recalls, Recall, RecallFails, Translates, Fails, Runs, Answers, Return,
                      GiveUp, ProxySaves, Offer, Post, ForceSave, vars
  <1>6. ASSUME \/ \E b \in Batch : StartImport(b)
               \/ CancelImport \/ PostFails \/ EndImport
               \/ \E j \in DOMAIN results : ForceFails(j)
               \/ UNCHANGED flowVars
        PROVE  FALSE
    BY <1>2, <1>6 DEF StartImport, CancelImport, PostFails, EndImport, ForceFails,
                      flowVars, vars
  <1>7. PICK r \in Request : Statement(r)
    BY <1>3, <1>5, <1>6 DEF ImportNext, PageLoop
  <1>8. Insert(r)
    <2>1. ASSUME RecallFails(r) \/ Nearest(r) \/ SaveFails(r) \/ Return(r) PROVE FALSE
      BY <1>2, <2>1 DEF RecallFails, Nearest, SaveFails, Return
    <2> QED  BY <1>4, <1>7, <2>1 DEF Statement
  <1>9. pc[r] = "insert" /\ rows' = Upsert(job[r]) /\ job[r] \in Example
    BY <1>8 DEF Insert, TypeOK
  <1>10. rows'[i].example = job[r]
    BY <1>1, <1>9, UpsertProperties
  <1> QED  BY <1>7, <1>9, <1>10

\* For any batches, results and comparison texts, any number of handlers and
\* whatever the user forces: an import that comes into the knowledge base has been
\* verified by the handler that saves it.
THEOREM ImportsVerified == ImportSpec => ImportedVerified
  <1> DEFINE Step ==
        \A i \in DOMAIN rows' :
            LET e == rows'[i].example
            IN  /\ i \in DOMAIN rows => rows[i].example # e
                /\ e.source = "import"
                => \E r \in Request :
                    /\ stage[r] = "saving" /\ pc[r] = "insert"
                    /\ e.mysql = call[r].mysql /\ e.redshift = call[r].sql
                    /\ IF e.mode = "override" THEN call[r].force
                       ELSE e.mode = call[r].mode /\ call[r].agreed
  <1>1. TypeOK /\ FlowInv /\ AllSaves /\ [ImportNext]_flowVars => [Step]_rows
    <2> SUFFICES ASSUME TypeOK, FlowInv, AllSaves, [ImportNext]_flowVars,
                        NEW i \in DOMAIN rows',
                        i \in DOMAIN rows => rows[i].example # rows'[i].example,
                        rows'[i].example.source = "import"
                 PROVE  \E r \in Request :
                            /\ stage[r] = "saving" /\ pc[r] = "insert"
                            /\ rows'[i].example.mysql = call[r].mysql
                            /\ rows'[i].example.redshift = call[r].sql
                            /\ IF rows'[i].example.mode = "override" THEN call[r].force
                               ELSE /\ rows'[i].example.mode = call[r].mode
                                    /\ call[r].agreed
      OBVIOUS
    <2>1. PICK r \in Request : pc[r] = "insert" /\ rows'[i].example = job[r]
      BY TextsInserted
    <2>2. stage[r] = "saving" /\ Verified(r)
      BY <2>1 DEF AllSaves, Saves, Storing
    <2> QED  BY <2>1, <2>2 DEF Verified
  <1> QED  BY <1>1, UsesKnowledgeBase, TypeCorrect, FlowInvCorrect, SavesCorrect, PTL
           DEF ImportSpec, ImportedVerified

-----------------------------------------------------------------------------
(* What is shown to differ *)

\* A statement is shown to differ only by the handler that has compared its
\* results, and it has refused them.
LEMMA RefusedShown ==
    ASSUME FlowInv, [ImportNext]_flowVars,
           NEW r \in Request, stage[r] # "differs", stage'[r] = "differs"
    PROVE  \E mine, theirs \in Result :
              /\ ~Compare(mine, theirs, call[r].mode)
              /\ call'[r].agreed = Agree(mine, theirs, call[r].mode)
  <1>1. stage \in [Request -> Stage] /\ call \in [Request -> Call]
    BY DEF FlowInv, Handlers
  <1>2. ASSUME stage' = stage PROVE FALSE
    BY <1>2
  <1>3. ASSUME NEW o \in Request, NEW step, step # "differs",
               stage' = [stage EXCEPT ![o] = step]
        PROVE  FALSE
    BY <1>1, <1>3
  <1>4. ASSUME NEW o \in Request,
               \/ Recalls(o) \/ Translates(o) \/ Fails(o) \/ Answers(o)
               \/ Post(o) \/ \E i \in DOMAIN results : ForceSave(o, i)
        PROVE  FALSE
    BY <1>3, <1>4 DEF Recalls, Translates, Fails, Answers, GoTo, Post, ForceSave, Accepted
  <1>5. ASSUME NEW o \in Request, GiveUp(o) \/ Statement(o) \/ ProxySaves(o)
        PROVE  FALSE
    BY <1>2, <1>5 DEF GiveUp, Statement, ProxySaves, importVars, handlerVars
  <1>6. ASSUME \/ \E b \in Batch : StartImport(b)
               \/ CancelImport \/ PostFails \/ EndImport
               \/ \E i \in DOMAIN results : ForceFails(i)
               \/ \E id \in Id : Deletes(id)
               \/ UNCHANGED flowVars
        PROVE  FALSE
    BY <1>2, <1>6 DEF StartImport, CancelImport, PostFails, EndImport, ForceFails, Deletes,
                      flowVars, importVars, handlerVars
  <1>7. PICK o \in Request : Runs(o)
    BY <1>4, <1>5, <1>6 DEF ImportNext, PageLoop
  <1>8. PICK mine \in Result, theirs \in Result :
            LET ok == Compare(mine, theirs, call[o].mode)
            IN  /\ call' = [call EXCEPT ![o].agreed = Agree(mine, theirs, call[o].mode)]
                /\ IF ok \/ call[o].force
                   THEN /\ Offer(o, Import(call[o].mysql, call[o].sql, SaveMode(o, ok)))
                        /\ stage' = [stage EXCEPT ![o] = "saving"]
                   ELSE stage' = [stage EXCEPT ![o] = "differs"] /\ UNCHANGED vars
    BY <1>7 DEF Runs, GoTo
  <1> DEFINE ok == Compare(mine, theirs, call[o].mode)
             agreed == Agree(mine, theirs, call[o].mode)
  <1>9. /\ call' = [call EXCEPT ![o].agreed = agreed]
        /\ \/ stage' = [stage EXCEPT ![o] = "saving"]
           \/ ~ok /\ stage' = [stage EXCEPT ![o] = "differs"]
    BY <1>8
  <1> HIDE DEF ok, agreed
  <1>10. ~ok /\ o = r
    BY <1>1, <1>3, <1>9
  <1>11. call'[o].agreed = agreed
    BY <1>1, <1>9 DEF Call
  <1> QED  BY <1>10, <1>11 DEF ok, agreed

\* The comment before the sorting in compare is wrong for one reason only:
\* where values are equal just if they print the same, a statement is never
\* shown to differ unless its results do.
THEOREM MismatchesAreReal ==
    ASSUME EqualByText
    PROVE  ImportSpec => MismatchIsReal
  <1> DEFINE Step == \A r \in Request :
                        stage[r] # "differs" /\ stage'[r] = "differs" => ~call'[r].agreed
  <1>1. FlowInv /\ [ImportNext]_flowVars => [Step]_stage
    BY RefusedShown, ComparisonComplete
  <1> QED  BY <1>1, FlowInvCorrect, PTL DEF ImportSpec, MismatchIsReal
=============================================================================
