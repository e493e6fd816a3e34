-------------------------- MODULE KnowledgeClient ---------------------------
(***************************************************************************)
(* proxy/internal/knowledge: proven translations wait in a bounded Go      *)
(* channel for one worker goroutine, which posts them to the agent one     *)
(* after the other. A full channel drops the newcomer: a session never     *)
(* waits for the knowledge base.                                           *)
(***************************************************************************)
EXTENDS Integers, Sequences

CONSTANTS ChanCap,      \* capacity of the channel (256 in the code)
          NoExample     \* the worker holds nothing

ASSUME ChanCapAssumption == ChanCap \in Nat \ {0}

VARIABLES queue,        \* the channel: examples waiting, oldest first
          saving        \* the example the worker is posting, or NoExample

KnowledgeInit ==
    /\ queue = <<>>
    /\ saving = NoExample

\* Wrong on purpose: a SaveAsync without the default branch, whose sender
\* waits for room.
EnqueueBlocking(e) ==
    /\ Len(queue) < ChanCap
    /\ queue' = Append(queue, e)

\* SaveAsync: the select with a default branch.
Enqueue(e) ==
    queue' = IF Len(queue) < ChanCap THEN Append(queue, e) ELSE queue

\* Wrong on purpose: a worker that takes the newest example first.
TakeNewest ==
    /\ saving = NoExample
    /\ queue # <<>>
    /\ saving' = queue[Len(queue)]
    /\ queue' = SubSeq(queue, 1, Len(queue) - 1)

\* The worker receives from the channel.
Take ==
    /\ saving = NoExample
    /\ queue # <<>>
    /\ saving' = Head(queue)
    /\ queue' = Tail(queue)

\* The post ends: stored, refused, failed or timed out. The client ignores
\* which, and there is no retry.
PostDone ==
    /\ saving # NoExample
    /\ saving' = NoExample
    /\ UNCHANGED queue

\* The process exits: channel and worker are gone.
KnowledgeLost ==
    /\ queue' = <<>>
    /\ saving' = NoExample
=============================================================================
