----------------------------- MODULE MCJobQueue -----------------------------
(* Model values for JobQueue.                                               *)
EXTENDS JobQueue

CONSTANTS j1, j2, j3, c1, c2

MCJobs == {j1, j2, j3}
MCConsumers == {c1, c2}
=============================================================================
