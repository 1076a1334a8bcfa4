--------------------------- MODULE QueueRefinement ---------------------------
(***************************************************************************)
(* ScanQueue, with its stream, pending list and clients that stop between  *)
(* any two commands, implements AbstractQueue.  The queue may lose entries *)
(* only where a trim can evict what is needed (TrimKeepsNeeded): where two *)
(* clients trim, or two entries share a millisecond.                       *)
(***************************************************************************)
EXTENDS ScanQueue

JobOf(i) ==
    IF i > top THEN "none"
    ELSE IF i \in Unread THEN "waiting"
    ELSE IF i \in pel THEN "held"
    ELSE IF i \in lost THEN "lost" ELSE "done"

MayLose == SameMs \/ \E c, d \in Trimmer : c # d

Queue == INSTANCE AbstractQueue WITH
            Lossy    <- MayLose,
            job      <- [i \in Id |-> JobOf(i)],
            recorded <- {i \in 1 .. top : HasOutcome(i)}

\* Whatever clients do and wherever they die, seen from outside the work stream is the
\* abstract queue: in order, never giving an entry up without its outcome (redis_streams.py:1-5).
ImplementsQueue == Queue!QueueSpec
=============================================================================
