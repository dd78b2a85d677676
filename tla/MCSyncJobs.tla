----------------------------- MODULE MCSyncJobs -----------------------------
(* Model values and symmetry for SyncJobs.                                  *)
EXTENDS SyncJobsDocs, TLC

CONSTANTS a1, a2, w1, w2, m1, m2

OneMailbox == {m1}
OneApi == {a1}
TwoApis == {a1, a2}
OneWorker == {w1}
TwoWorkers == {w1, w2}
OneApiTwoWorkers == {a1, w1, w2}
Nobody == {}

WorkerSymmetry == Permutations({w1, w2})
=============================================================================
