------------------------------- MODULE MCImport -------------------------------
(***************************************************************************)
(* Small instances of ImportFlow for TLC.                                  *)
(***************************************************************************)
EXTENDS ImportFlow, TLC

CONSTANTS a, b,         \* statements, at a distance of 1
          t, u          \* statements of Redshift SQL

MCDistance ==
    [p \in Query |-> [q \in Query |->
        IF p = q THEN 0 ELSE 1]]

Runtime(q) == [mysql |-> q, redshift |-> <<t>>, mode |-> "skipped", source |-> "runtime"]

MCImports == {Import(q, s, m) : q \in Query, s \in Sql, m \in Mode \union {"override"}}
MCExample == MCImports \union {Runtime(a)}
MCManyExamples == MCImports \union {Runtime(q) : q \in Query}
MCLowValue == {Runtime(a)}

\* What a column holds. MySQL answers 0 and 1 where Redshift answers FALSE
\* and TRUE; the order of the texts is 0, 1, False, None, True.
MCValue == {"0", "1", "False", "None", "True"}
MCText ==
    [v \in MCValue |-> CASE v = "0" -> 0 [] v = "1" -> 1 [] v = "False" -> 2
                         [] v = "None" -> 3 [] v = "True" -> 4]
MCEqual ==
    {<<v, v>> : v \in MCValue}
    \union {<<"0", "False">>, <<"False", "0">>, <<"1", "True">>, <<"True", "1">>}

Answer(values) ==
    [columns |-> "flag", rows |-> [i \in DOMAIN values |-> <<values[i]>>]]

\* The same rows from either side and in either order, other rows, no rows.
MCResult == {Answer(<<"1", "0">>), Answer(<<"False", "True">>),
             Answer(<<"1", "1">>), Answer(<<>>)}
\* A column that can be NULL.
MCNullable == {Answer(<<"1", "None">>), Answer(<<"None", "True">>),
               Answer(<<"0", "0">>)}

\* Answers of the model: only statements; all expected forms and refusals; a
\* refusal and a statement whose fence extract_sql leaves in place.
MCPlain == {<<x>> : x \in SQLStatement}
MCExpected == Expected \union {<<Untranslatable, Remark>>, <<Fence, Untranslatable, Fence>>}
MCAnswers == MCPlain \union {<<Untranslatable>>, <<Fence, t, Fence, Remark>>}

OneByOne == {<<a>>}
Pair == {<<a, b>>}

Symmetry == Permutations(Request)
=============================================================================
