---------------------------- MODULE SyncJobsDocs ----------------------------
(***************************************************************************)
(* What a document of the repository says of the sync pipeline, stated     *)
(* over SyncJobs.  It does not hold of the code; a run shows how it fails. *)
(***************************************************************************)
EXTENDS SyncJobs

\* 03-celery-job-dispatch-sequence.mmd: a job left pending_dispatch can be
\* recovered by the retry sweep.
PendingRecovered ==
    \A j \in Jobs : status[j] = "pending_dispatch" ~> status[j] # "pending_dispatch"
=============================================================================
