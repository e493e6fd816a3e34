---------------------------- MODULE QueryService ----------------------------
(***************************************************************************)
(* What a client of the proxy may rely on, without cache, agent, retries   *)
(* or knowledge base: each query is answered once, with one of the answers *)
(* that query may get, unless the server goes away, and then every pending *)
(* query is lost at the same time.                                         *)
(***************************************************************************)

CONSTANTS Session, Query,
          Answers,      \* query -> the answers it may get
          None, Lost    \* no answer yet; the connection broke

VARIABLES busy,         \* sessions that wait for an answer
          asked,        \* session -> its current or last query
          reply         \* session -> the answer to it

vars == <<busy, asked, reply>>

Init ==
    /\ busy = {}
    /\ asked \in [Session -> Query]
    /\ reply = [s \in Session |-> None]

Ask(s, q) ==
    /\ s \notin busy
    /\ busy' = busy \union {s}
    /\ asked' = [asked EXCEPT ![s] = q]
    /\ reply' = [reply EXCEPT ![s] = None]

Answer(s, r) ==
    /\ s \in busy
    /\ r \in Answers[asked[s]]
    /\ busy' = busy \ {s}
    /\ reply' = [reply EXCEPT ![s] = r]
    /\ UNCHANGED asked

Lose ==
    /\ busy' = {}
    /\ reply' = [s \in Session |-> IF s \in busy THEN Lost ELSE reply[s]]
    /\ UNCHANGED asked

Next ==
    \/ \E s \in Session, q \in Query : Ask(s, q)
    \/ \E s \in Session : \E r \in Answers[asked[s]] : Answer(s, r)
    \/ Lose

\* A query that waits is answered or lost.
Fairness == \A s \in Session : WF_vars(\E r \in Answers[asked[s]] : Answer(s, r))

Spec == Init /\ [][Next]_vars /\ Fairness
=============================================================================
