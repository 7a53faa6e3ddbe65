----------------------------- MODULE MCJobQueue -----------------------------
(***************************************************************************)
(* Small instances of JobQueue: two slots, in two workers or in one, and   *)
(* one or two jobs.                                                        *)
(***************************************************************************)
EXTENDS JobQueue, TLC

CONSTANTS w1, w2, s1, s2, j1, j2

\* worker_concurrency = 1 for two workers, or 2 for one worker.
SeparateWorkers == [s \in Slot |-> IF s = s1 THEN w1 ELSE w2]
SharedWorker    == [s \in Slot |-> w1]

OneQueue     == [j \in Job |-> "default"]
ServesAll    == [w \in Worker |-> {"default"}]
Priorities   == [j \in Job |-> IF j = j1 THEN 0 ELSE 1]
Ranks        == [j \in Job |-> IF j = j1 THEN 0 ELSE 1]
IdRanks      == [j \in Job |-> IF j = j1 THEN 1 ELSE 0]
TwoAttempts  == [j \in Job |-> 2]
OneOrTwo     == [j \in Job |-> IF j = j1 THEN 2 ELSE 1]
SecondIsFast == [w \in Worker |-> IF w = w1 THEN 0 ELSE 1]
NoSkew       == [w \in Worker |-> 0]
=============================================================================
