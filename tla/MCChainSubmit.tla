--------------------------- MODULE MCChainSubmit ----------------------------
(***************************************************************************)
(* Instances of ChainSubmit for TLC.                                       *)
(***************************************************************************)
EXTENDS ChainSubmit

CONSTANTS t1, t2, t3, t4, api, worker

\* Submissions of the API process and of the worker process.
TwoProcesses == [t \in Tasks |-> IF t \in {t1, t2, t3} THEN api ELSE worker]
=============================================================================
