---------------------------- MODULE MCDigestJobs ----------------------------
(* Model values and symmetry for DigestJobs.                                *)
EXTENDS DigestJobsDocs, TLC

CONSTANTS a1, a2, w1, w2, m1, u1, u2

NoScope == {}
OneMailbox == {m1}
TwoUsers == {u1, u2}
OneApi == {a1}
TwoApis == {a1, a2}
OneWorker == {w1}
TwoWorkers == {w1, w2}
OneApiTwoWorkers == {a1, w1, w2}
Nobody == {}

WorkerSymmetry == Permutations({w1, w2})
=============================================================================
