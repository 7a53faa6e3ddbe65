--------------------------- MODULE MCJobSubmission --------------------------
(***************************************************************************)
(* Instance of JobSubmission: two keys and submissions without one, two    *)
(* kinds of work, and queries.                                             *)
(***************************************************************************)
EXTENDS JobSubmission, TLC

CONSTANTS k1, k2, w1, w2, q1, q2

Queues == (w1 :> q1) @@ (w2 :> q2)

Everything ==
  {[kind |-> "create", work |-> w, key |-> k] : w \in {w1, w2}, k \in {k1, None}}
  \cup {[kind |-> "create", work |-> w1, key |-> k2], [kind |-> "get"],
        [kind |-> "list", queue |-> q1, status |-> None, limit |-> 2, offset |-> 1],
        [kind |-> "list", queue |-> None, status |-> "queued", limit |-> 1, offset |-> 0]}

Sessions == Permutations(Request)
=============================================================================
