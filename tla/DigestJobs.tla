----------------------------- MODULE DigestJobs -----------------------------
(***************************************************************************)
(* Digest generation in src/backend/app: requests and the scheduler create *)
(* digest jobs, requests also generate digests by themselves, and Celery   *)
(* workers execute the jobs.  A digest is a version of a scope (a mailbox, *)
(* or all the mailboxes of a user) on a date; one version is current.      *)
(*                                                                         *)
(* The module follows one local day.  Sessions are cut as in SyncJobs: at  *)
(* the reads whose result is used later, where an INSERT or an UPDATE may  *)
(* wait for another session, at the calls of the broker and of the LLM,    *)
(* and at the commit.  Variables hold committed rows; what a session has   *)
(* flushed is in version, cleared and wrote.  Mailboxes are connected and  *)
(* disconnected at any time: whether a scope has one that is active is a   *)
(* choice wherever the code asks.                                          *)
(***************************************************************************)
EXTENDS Naturals, FiniteSets

CONSTANTS
    MailboxScopes,  \* the mailboxes with a digest of their own
    AllScopes,      \* the users with a digest of all their mailboxes
    Apis,           \* request handlers and schedulers, one request at a time
    Workers,        \* Celery workers
    Crashing,       \* the processes that may die, or lose the database
    MaxJobs,        \* bound: number of job rows a behaviour creates
    MaxRetries,     \* MAX_JOB_RETRIES
    None            \* no session, no scope

Scopes   == MailboxScopes \cup AllScopes
Procs    == Apis \cup Workers
Jobs     == 1..MaxJobs      \* numbered in the order of created_at
NoJob    == 0
Versions == 1..MaxJobs      \* no job makes more than one version
Kinds    == {"generate", "refresh", "scheduled"}

ASSUME ProcessAssumption ==
    /\ Apis \cap Workers = {}
    /\ None \notin Procs \cup Scopes
    /\ Crashing \subseteq Procs
ASSUME ScopeAssumption == MailboxScopes \cap AllScopes = {} /\ Scopes # {}
ASSUME BoundAssumption == MaxJobs \in Nat /\ MaxRetries \in Nat

VARIABLES
    status,    \* sync_jobs.status of the committed rows
    scopeOf,   \* scope_type and mailbox_id of a job
    kindOf,    \* job_type and trigger_source
    keyed,     \* the job has a job_key (a retry and a direct job have none)
    retryCount,
    next,      \* the next job to be created
    tasks,     \* the jobs named by the messages in the Celery queue
    jobRow,    \* the session that has updated a job and not committed
    digest,    \* daily_digests.status of a scope and a version, committed
    current,   \* the versions of a scope with is_current
    digestOf,  \* sync_jobs.digest_id, as the version
    pc, cur,   \* the point a session has reached, the job it works on
    version,   \* the version a session read or inserted; 0: none
    cleared,   \* the versions its UPDATE has unset
    wrote      \* the outcome of the generation, not committed yet

jobVars  == <<status, tasks, jobRow>>
newVars  == <<scopeOf, kindOf, keyed, retryCount, next>>
dayVars  == <<digest, current, digestOf>>
workVars == <<version, cleared, wrote>>
procVars == <<pc, cur, workVars>>
vars == <<jobVars, newVars, dayVars, procVars>>

ActiveStatuses == {"pending_dispatch", "queued", "running"}
Statuses == {"absent", "succeeded", "failed", "dispatch_failed"} \cup ActiveStatuses
Points == {"idle", "publish", "send", "mark", "markFailed", "retrySend", "retryCommit",
           "recover", "flush", "version", "insert", "generate", "commit"}

Init ==
    /\ status     = [j \in Jobs |-> "absent"]
    /\ scopeOf    = [j \in Jobs |-> None]
    /\ kindOf     = [j \in Jobs |-> "generate"]
    /\ keyed      = [j \in Jobs |-> FALSE]
    /\ retryCount = [j \in Jobs |-> 0]
    /\ next       = 1
    /\ tasks      = {}
    /\ jobRow     = [j \in Jobs |-> None]
    /\ digest     = [s \in Scopes |-> [v \in Versions |-> "none"]]
    /\ current    = [s \in Scopes |-> {}]
    /\ digestOf   = [j \in Jobs |-> 0]
    /\ pc         = [p \in Procs |-> "idle"]
    /\ cur        = [p \in Procs |-> NoJob]
    /\ version    = [p \in Procs |-> 0]
    /\ cleared    = [p \in Procs |-> {}]
    /\ wrote      = [p \in Procs |-> "failed"]
-----------------------------------------------------------------------------
(* Helpers.  The definition after an "and" in a comment is the same code with a
   plausible mistake; nothing uses it but the mutation of the properties. *)

JobType(k) == IF k = "scheduled" THEN "generate" ELSE k

\* _digest_job_key: the key of an "all" job does not name its user.
KeyScope(s) == IF s \in AllScopes THEN AllScopes ELSE {s}
SameKey(i, j) ==
    keyed[i] /\ keyed[j] /\ kindOf[i] = kindOf[j]
    /\ KeyScope(scopeOf[i]) = KeyScope(scopeOf[j])

\* sync_jobs_active_job_key_uq refuses an active row j: another is active.  It
\* answers once no session has an uncommitted row with that key.
KeyTaken(j) == \E i \in Jobs \ {j} : status[i] \in ActiveStatuses /\ SameKey(i, j)
KeySettled(j) == \A i \in Jobs \ {j} : SameKey(i, j) => jobRow[i] = None

\* _find_active_digest_job finds no job of the scope, the type and the day.
NoActiveJob(s, k) ==
    \A j \in Jobs : scopeOf[j] = s /\ JobType(kindOf[j]) = JobType(k)
                    => status[j] \notin ActiveStatuses

\* SyncJob(...): p builds a row for s; a retry of orig unless orig is NoJob.
BuildJob(p, s, k, hasKey, orig) ==
    /\ next <= MaxJobs
    /\ next'    = next + 1
    /\ scopeOf' = [scopeOf EXCEPT ![next] = s]
    /\ kindOf'  = [kindOf EXCEPT ![next] = k]
    /\ keyed'   = [keyed EXCEPT ![next] = hasKey]
    /\ retryCount' = [retryCount EXCEPT
                        ![next] = IF orig = NoJob THEN 0 ELSE retryCount[orig] + 1]
    /\ cur'     = [cur EXCEPT ![p] = next]

\* _next_digest_version: one more than the greatest committed version.
NextVersion(s, v) ==
    /\ \A u \in Versions : digest[s][u] # "none" => u < v
    /\ v > 1 => digest[s][v - 1] # "none"

\* A session between the INSERT of its digest and its commit.
Generating(p) == pc[p] \in {"generate", "commit"} /\ version[p] # 0

\* retry_job accepts a failed job below its limit; and any failed job.
MayRetryForEver(j) == status[j] = "failed"
MayRetry(j) == status[j] = "failed" /\ retryCount[j] < MaxRetries

\* Another session has inserted the version p inserts, and has not committed:
\* the unique index makes p wait; and without the index.
NoIndex(p) == FALSE
Clashing(p) ==
    \E q \in Procs \ {p} : /\ Generating(q)
                           /\ scopeOf[cur[q]] = scopeOf[cur[p]]
                           /\ version[q] = version[p]

\* _switch_current_digest and is_current = true, for a completed digest only;
\* and for a failed one too.
SwitchedAnyhow(p, old) == (old \ cleared[p]) \cup {version[p]}
Switched(p, old) ==
    IF wrote[p] = "succeeded" THEN (old \ cleared[p]) \cup {version[p]} ELSE old

\* The status the session leaves in its job; and one that succeeds whatever
\* became of the generation.
AlwaysSucceeded(p) == "succeeded"
JobOutcome(p) == wrote[p]

Goto(p, point) == pc' = [pc EXCEPT ![p] = point]

\* The row locks of a session that ends; and of one that is never closed.
KeepRows(p) == UNCHANGED jobRow
FreeRows(p) == jobRow' = [j \in Jobs |-> IF jobRow[j] = p THEN None ELSE jobRow[j]]
EndSession(p) ==
    /\ pc'      = [pc EXCEPT ![p] = "idle"]
    /\ cur'     = [cur EXCEPT ![p] = NoJob]
    /\ version' = [version EXCEPT ![p] = 0]
    /\ cleared' = [cleared EXCEPT ![p] = {}]
    /\ wrote'   = [wrote EXCEPT ![p] = "failed"]
-----------------------------------------------------------------------------
(* POST /digest/today/generate-jobs and refresh-jobs; the daily scheduler. *)

\* _enqueue_digest_job returns an active job, a step that changes nothing, or
\* builds one.
EnqueueRead(a, s, k) ==
    /\ pc[a] = "idle"
    /\ k # "scheduled"
    /\ NoActiveJob(s, k)
    /\ BuildJob(a, s, k, TRUE, NoJob)
    /\ Goto(a, "publish")
    /\ UNCHANGED <<jobVars, dayVars, workVars>>

\* enqueue_due_scheduled_digest_jobs for one mailbox: no row has the key of
\* the day and there is no current digest yet.
ScheduleRead(a, s) ==
    /\ pc[a] = "idle"
    /\ s \in MailboxScopes
    /\ \A j \in Jobs : scopeOf[j] = s /\ kindOf[j] = "scheduled" /\ keyed[j]
                       => status[j] = "absent"
    /\ current[s] = {}
    /\ BuildJob(a, s, "scheduled", TRUE, NoJob)
    /\ Goto(a, "publish")
    /\ UNCHANGED <<jobVars, dayVars, workVars>>

\* The INSERT and the commit dispatch_pending_job starts with.
Publish(a) ==
    /\ pc[a] = "publish"
    /\ KeySettled(cur[a]) /\ ~KeyTaken(cur[a])
    /\ status' = [status EXCEPT ![cur[a]] = "pending_dispatch"]
    /\ Goto(a, "send")
    /\ UNCHANGED <<tasks, jobRow, newVars, dayVars, cur, workVars>>

\* The INSERT raises IntegrityError, which nobody handles: 500.
PublishConflict(a) ==
    /\ pc[a] = "publish"
    /\ KeySettled(cur[a]) /\ KeyTaken(cur[a])
    /\ EndSession(a)
    /\ UNCHANGED <<jobVars, newVars, dayVars>>

\* send_task; it may raise after the broker has taken the message.
Send(a) ==
    /\ pc[a] = "send"
    /\ status[cur[a]] = "pending_dispatch"
    /\ \/ tasks' = tasks \cup {cur[a]} /\ Goto(a, "mark")
       \/ tasks' \in {tasks, tasks \cup {cur[a]}} /\ Goto(a, "markFailed")
    /\ UNCHANGED <<status, jobRow, newVars, dayVars, cur, workVars>>

Mark(a) ==
    /\ pc[a] \in {"mark", "markFailed"}
    /\ jobRow[cur[a]] = None
    /\ status' = [status EXCEPT
                    ![cur[a]] = IF pc[a] = "mark" THEN "queued" ELSE "dispatch_failed"]
    /\ EndSession(a)
    /\ UNCHANGED <<tasks, jobRow, newVars, dayVars>>
-----------------------------------------------------------------------------
(* POST /jobs/{id}/retry and GET /mailboxes/{id}/sync-status.              *)

\* retry_job copies a failed job, digest_id included, without its job_key.
RetryRead(a, j) ==
    /\ pc[a] = "idle"
    /\ MayRetry(j)
    /\ BuildJob(a, scopeOf[j], kindOf[j], FALSE, j)
    /\ digestOf' = [digestOf EXCEPT ![next] = digestOf[j]]
    /\ Goto(a, "retrySend")
    /\ UNCHANGED <<jobVars, digest, current, workVars>>

\* The message leaves before the commit; an error rolls the row back.
RetrySend(a) ==
    /\ pc[a] = "retrySend"
    /\ tasks' = tasks \cup {cur[a]}
    /\ Goto(a, "retryCommit")
    /\ UNCHANGED <<status, jobRow, newVars, dayVars, cur, workVars>>

RetrySendFails(a) ==
    /\ pc[a] = "retrySend"
    /\ tasks' \in {tasks, tasks \cup {cur[a]}}
    /\ EndSession(a)
    /\ UNCHANGED <<status, jobRow, newVars, dayVars>>

RetryCommit(a) ==
    /\ pc[a] = "retryCommit"
    /\ status' = [status EXCEPT ![cur[a]] = "queued"]
    /\ EndSession(a)
    /\ UNCHANGED <<tasks, jobRow, newVars, dayVars>>

\* get_sync_status fails the last job of a mailbox, digest jobs included, if it
\* has been queued for 5 minutes; any queued job may be that old.
StatusRead(a, j) ==
    /\ pc[a] = "idle"
    /\ status[j] = "queued"
    /\ scopeOf[j] \in MailboxScopes
    /\ \A k \in Jobs : scopeOf[k] = scopeOf[j] /\ status[k] # "absent" => k <= j
    /\ cur' = [cur EXCEPT ![a] = j]
    /\ Goto(a, "recover")
    /\ UNCHANGED <<jobVars, newVars, dayVars, workVars>>

Recover(a) ==
    /\ pc[a] = "recover"
    /\ jobRow[cur[a]] = None
    /\ status' = [status EXCEPT ![cur[a]] = "failed"]
    /\ EndSession(a)
    /\ UNCHANGED <<tasks, jobRow, newVars, dayVars>>
-----------------------------------------------------------------------------
(* The Celery task app.jobs.digest.                                        *)

IgnoreTask(w, j) ==
    /\ pc[w] = "idle"
    /\ j \in tasks
    /\ status[j] # "queued"
    /\ tasks' = tasks \ {j}
    /\ UNCHANGED <<status, jobRow, newVars, dayVars, procVars>>

TakeTask(w, j) ==
    /\ pc[w] = "idle"
    /\ j \in tasks
    /\ status[j] = "queued"
    /\ tasks' = tasks \ {j}
    /\ cur' = [cur EXCEPT ![w] = j]
    /\ Goto(w, "flush")
    /\ UNCHANGED <<status, jobRow, newVars, dayVars, workVars>>

\* status = "running" is flushed.  If the job was failed as stale meanwhile, the
\* UPDATE makes it active again.
FlushRunning(w) ==
    /\ pc[w] = "flush"
    /\ jobRow[cur[w]] = None
    /\ KeySettled(cur[w]) /\ ~KeyTaken(cur[w])
    /\ jobRow' = [jobRow EXCEPT ![cur[w]] = w]
    /\ Goto(w, "version")
    /\ UNCHANGED <<status, tasks, newVars, dayVars, cur, workVars>>

\* Another job has taken its key meanwhile: IntegrityError, the task is lost.
FlushConflict(w) ==
    /\ pc[w] = "flush"
    /\ jobRow[cur[w]] = None
    /\ KeySettled(cur[w]) /\ KeyTaken(cur[w])
    /\ EndSession(w)
    /\ UNCHANGED <<jobVars, newVars, dayVars>>

\* _resolve_digest_scope, then the number of the new version.
ReadVersion(w) ==
    /\ pc[w] = "version"
    /\ \E v \in Versions : /\ NextVersion(scopeOf[cur[w]], v)
                           /\ version' = [version EXCEPT ![w] = v]
    /\ Goto(w, "insert")
    /\ UNCHANGED <<jobVars, newVars, dayVars, cur, cleared, wrote>>

\* The scope has no active mailbox now: DigestServiceError, the job fails
\* without a digest.
ScopeGone(w) ==
    /\ pc[w] = "version"
    /\ Goto(w, "commit")
    /\ UNCHANGED <<jobVars, newVars, dayVars, cur, workVars>>
-----------------------------------------------------------------------------
(* _generate_digest, in a worker or in POST /digest/today/generate and     *)
(* refresh, where the job row is made on the way.                          *)

DirectRead(a, s, k) ==
    /\ pc[a] = "idle"
    /\ k # "scheduled"
    /\ \E v \in Versions : NextVersion(s, v) /\ version' = [version EXCEPT ![a] = v]
    /\ BuildJob(a, s, k, FALSE, NoJob)
    /\ Goto(a, "insert")
    /\ UNCHANGED <<jobVars, dayVars, cleared, wrote>>

\* db.flush() of the new digest.
Insert(p) ==
    /\ pc[p] = "insert"
    /\ ~Clashing(p)
    /\ digest[scopeOf[cur[p]]][version[p]] = "none"
    /\ Goto(p, "generate")
    /\ UNCHANGED <<jobVars, newVars, dayVars, cur, workVars>>

\* Another session has committed that version: IntegrityError, rolled back.
\* The job of a worker stays as it was, queued, and its message is gone.
InsertConflict(p) ==
    /\ pc[p] = "insert"
    /\ ~Clashing(p)
    /\ digest[scopeOf[cur[p]]][version[p]] # "none"
    /\ FreeRows(p)
    /\ EndSession(p)
    /\ UNCHANGED <<status, tasks, newVars, dayVars>>

\* The prompt, the LLM, the parser, the items; the UPDATE that unsets the
\* current versions committed by now, and the flush.  Any error marks the
\* digest and the job failed.
Generate(p, outcome) ==
    /\ pc[p] = "generate"
    /\ wrote'   = [wrote EXCEPT ![p] = outcome]
    /\ cleared' = [cleared EXCEPT
                     ![p] = IF outcome = "succeeded" THEN current[scopeOf[cur[p]]] ELSE {}]
    /\ Goto(p, "commit")
    /\ UNCHANGED <<jobVars, newVars, dayVars, cur, version>>

\* The commit of the job, the digest, its items and the switch, all at once.
Commit(p) ==
    LET j == cur[p]
        s == scopeOf[j] IN
    /\ pc[p] = "commit"
    /\ status' = [status EXCEPT ![j] = JobOutcome(p)]
    /\ IF version[p] = 0 THEN UNCHANGED dayVars
       ELSE /\ digest' = [digest EXCEPT
                 ![s][version[p]] = IF wrote[p] = "succeeded" THEN "fresh" ELSE "failed"]
            /\ current'  = [current EXCEPT ![s] = Switched(p, @)]
            /\ digestOf' = [digestOf EXCEPT ![j] = version[p]]
    /\ FreeRows(p)
    /\ EndSession(p)
    /\ UNCHANGED <<tasks, newVars>>
-----------------------------------------------------------------------------
(* The environment.                                                        *)

\* The process dies, or the database refuses what it flushes: the error path
\* of _generate_digest flushes again and fails too.
Crash(p) ==
    /\ p \in Crashing
    /\ pc[p] # "idle"
    /\ FreeRows(p)
    /\ EndSession(p)
    /\ UNCHANGED <<status, tasks, newVars, dayVars>>
-----------------------------------------------------------------------------
ApiStep(a) ==
    \/ Publish(a) \/ PublishConflict(a) \/ Send(a) \/ Mark(a)
    \/ RetrySend(a) \/ RetrySendFails(a) \/ RetryCommit(a) \/ Recover(a)

WorkerStep(w) == FlushRunning(w) \/ FlushConflict(w) \/ ReadVersion(w) \/ ScopeGone(w)

GenerateStep(p) ==
    \/ Insert(p) \/ InsertConflict(p)
    \/ \E o \in {"succeeded", "failed"} : Generate(p, o)
    \/ Commit(p)

Request(a) ==
    \/ \E s \in Scopes, k \in Kinds : EnqueueRead(a, s, k) \/ DirectRead(a, s, k)
    \/ \E s \in Scopes : ScheduleRead(a, s)
    \/ \E j \in Jobs : RetryRead(a, j) \/ StatusRead(a, j)

Deliver(w) == \E j \in Jobs : IgnoreTask(w, j) \/ TakeTask(w, j)

Next ==
    \/ \E a \in Apis : Request(a) \/ ApiStep(a)
    \/ \E w \in Workers : Deliver(w) \/ WorkerStep(w)
    \/ \E p \in Procs : GenerateStep(p) \/ Crash(p)

Spec == Init /\ [][Next]_vars

\* A session that began goes on (the LLM call has a time-out), and a queued
\* message is delivered to some worker.
Fairness ==
    /\ \A a \in Apis : WF_vars(ApiStep(a))
    /\ \A w \in Workers : WF_vars(WorkerStep(w))
    /\ \A p \in Procs : WF_vars(GenerateStep(p))
    /\ WF_vars(\E w \in Workers : Deliver(w))

FairSpec == Spec /\ Fairness
-----------------------------------------------------------------------------
(* Properties.                                                             *)

\* Every variable keeps its type; no committed digest is "generating".
TypeOK ==
    /\ status     \in [Jobs -> Statuses \ {"running"}]
    /\ scopeOf    \in [Jobs -> Scopes \cup {None}]
    /\ kindOf     \in [Jobs -> Kinds]
    /\ keyed      \in [Jobs -> BOOLEAN]
    /\ retryCount \in [Jobs -> 0..MaxRetries]
    /\ next       \in 1..(MaxJobs + 1)
    /\ tasks      \subseteq Jobs
    /\ jobRow     \in [Jobs -> Procs \cup {None}]
    /\ digest     \in [Scopes -> [Versions -> {"none", "fresh", "failed"}]]
    /\ current    \in [Scopes -> SUBSET Versions]
    /\ digestOf   \in [Jobs -> 0..MaxJobs]
    /\ pc         \in [Procs -> Points]
    /\ cur        \in [Procs -> Jobs \cup {NoJob}]
    /\ version    \in [Procs -> 0..MaxJobs]
    /\ cleared    \in [Procs -> SUBSET Versions]
    /\ wrote      \in [Procs -> {"succeeded", "failed"}]

\* Two sessions never generate digests of one scope at a time, whatever mix of
\* requests, jobs and retries started them: the versions they read make them
\* meet at the unique index of (scope, date, version).
OneGenerator ==
    \A p, q \in Procs :
        Generating(p) /\ Generating(q) /\ scopeOf[cur[p]] = scopeOf[cur[q]] => p = q

\* The current digest of a scope is its last completed version: a failed or
\* lost generation leaves the one before it, a completed one replaces it.
CurrentIsLatest ==
    \A s \in Scopes :
        current[s] = {v \in Versions : /\ digest[s][v] = "fresh"
                                       /\ \A u \in Versions : digest[s][u] = "fresh" => u <= v}

\* A job that succeeded points to a completed digest of its scope, and no
\* other succeeded job points to that digest.
SucceededHasDigest ==
    \A j \in Jobs : status[j] = "succeeded" =>
        /\ digestOf[j] # 0 /\ digest[scopeOf[j]][digestOf[j]] = "fresh"
        /\ \A k \in Jobs : /\ status[k] = "succeeded" /\ scopeOf[k] = scopeOf[j]
                           /\ digestOf[k] = digestOf[j]
                           => k = j

\* A session that waits for a row or for an index gets on: requests and tasks
\* end.
SessionsEnd == \A p \in Procs : pc[p] # "idle" ~> pc[p] = "idle"

History == INSTANCE DigestHistory WITH
    history <- [s \in Scopes |->
                  [v \in 1..Cardinality({u \in Versions : digest[s][u] # "none"})
                     |-> digest[s][v]]],
    shown   <- current

\* The digests of a scope implement DigestHistory: versions are added one
\* after the other, failed ones included, none is overwritten, and is_current
\* moves only to a version being completed.
VersionedHistory == History!Spec
=============================================================================
