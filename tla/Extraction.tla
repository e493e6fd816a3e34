----------------------------- MODULE Extraction -----------------------------
(***************************************************************************)
(* What the agent makes of the text its model answers with                 *)
(* (strip_code_fence and extract_sql of agent/app.py). A text is a         *)
(* sequence of pieces: a code fence on a line of its own, a remark without *)
(* SQL keywords, the marker "-- UNTRANSLATABLE", a statement, a semicolon. *)
(***************************************************************************)
EXTENDS Integers, Sequences

CONSTANTS SQLStatement, \* the statements of Redshift SQL a text may contain
          Fence, Remark, Untranslatable, Semicolon  \* the other pieces

ASSUME ExtractionAssumption ==
    /\ Fence \notin {Remark, Untranslatable, Semicolon}
    /\ Remark \notin {Untranslatable, Semicolon}
    /\ Untranslatable # Semicolon
    /\ {Fence, Remark, Untranslatable, Semicolon} \intersect SQLStatement = {}

Pieces == {Fence, Remark, Untranslatable, Semicolon} \union SQLStatement

\* The first and the last piece of S in x, for x with such a piece.
FirstOf(x, S) == CHOOSE i \in DOMAIN x : x[i] \in S /\ \A j \in 1 .. i - 1 : x[j] \notin S
LastOf(x, S) == CHOOSE i \in DOMAIN x : x[i] \in S /\ \A j \in i + 1 .. Len(x) : x[j] \notin S

Within(x, S) == \E i \in DOMAIN x : x[i] \in S

Begins(x, p) == x # <<>> /\ x[1] = p
Ends(x, p)   == x # <<>> /\ x[Len(x)] = p

\* A fence the text begins with goes, then one it ends with.
strip_code_fence(text) ==
    LET rest == IF Begins(text, Fence) THEN Tail(text) ELSE text
    IN  IF Ends(rest, Fence) THEN SubSeq(rest, 1, Len(rest) - 1) ELSE rest

\* What lies between the first two fences of x, if there are two.
FirstBlock(x) ==
    LET after == SubSeq(x, FirstOf(x, {Fence}) + 1, Len(x))
    IN  IF Within(x, {Fence}) /\ Within(after, {Fence})
        THEN SubSeq(after, 1, FirstOf(after, {Fence}) - 1)
        ELSE x

\* From the first keyword on; a text without one stays as it is.
FromKeyword(x) ==
    IF Within(x, SQLStatement) THEN SubSeq(x, FirstOf(x, SQLStatement), Len(x)) ELSE x

\* The semicolons at the end of a text go. They are one run: there is no space
\* between two pieces (rstrip keeps the first one of "; ;").
WithoutSemicolons(x) ==
    IF Within(x, Pieces \ {Semicolon})
    THEN SubSeq(x, 1, LastOf(x, Pieces \ {Semicolon})) ELSE <<>>

\* Wrong on purpose: the semicolon goes before the fence does.
extract_early(text) ==
    LET rest == strip_code_fence(WithoutSemicolons(text))
    IN  IF Begins(rest, Untranslatable) THEN rest ELSE FromKeyword(FirstBlock(rest))

\* The SQL of an answer, or the answer itself if it is marked untranslatable.
extract_sql(text) ==
    LET rest == strip_code_fence(text)
    IN  IF Begins(rest, Untranslatable) THEN rest
        ELSE WithoutSemicolons(FromKeyword(FirstBlock(rest)))

-----------------------------------------------------------------------------
(* The texts the extraction is made for *)

\* How models present a statement: perhaps with remarks around it, with a
\* semicolon, in a fence. These are the forms extract_sql is made for: any of
\* them, but no remark after it unless one stands before its fence.
Form ==
    {f \in [before : BOOLEAN, after : BOOLEAN, semicolon : BOOLEAN, fenced : BOOLEAN] :
        f.after => f.before /\ f.fenced}

Presented(s, form) ==
    LET piece(p, there) == IF there THEN <<p>> ELSE <<>>
    IN  piece(Remark, form.before) \o piece(Fence, form.fenced) \o <<s>>
        \o piece(Semicolon, form.semicolon) \o piece(Fence, form.fenced)
        \o piece(Remark, form.after)

Expected == {Presented(s, form) : s \in SQLStatement, form \in Form}
=============================================================================
