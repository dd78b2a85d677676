------------------------------ MODULE SyncJobs ------------------------------
(***************************************************************************)
(* The e-mail synchronisation pipeline of src/backend/app: HTTP requests   *)
(* create, dispatch, retry and inspect sync jobs, or synchronise directly; *)
(* Celery workers execute the jobs that were dispatched.  They share the   *)
(* tables sync_jobs and mailboxes (PostgreSQL, READ COMMITTED), the Celery *)
(* queue (Redis), and one Redis key per mailbox, the mailbox sync lock.    *)
(*                                                                         *)
(* A request or a task is one database session.  The steps of a session    *)
(* are cut at the points where another session can interfere: a read whose *)
(* result is used later, an UPDATE that may wait for a row lock, a call of *)
(* Redis, of the broker or of the mail provider, and the commit.  What a   *)
(* session has flushed but not committed is in `wrote'; `status' and       *)
(* `connected' hold what other sessions read, the committed rows.          *)
(***************************************************************************)
EXTENDS Naturals, FiniteSets

CONSTANTS
    Mailboxes,    \* the connected mailboxes
    Apis,         \* request handlers of the API, one request each at a time
    Workers,      \* Celery workers, one task each at a time
    Crashing,     \* the processes that may die, or lose the database
    MaxJobs,      \* bound: number of job rows a behaviour creates
    MaxRetries,   \* MAX_JOB_RETRIES
    None          \* no session, no mailbox

Procs == Apis \cup Workers
Jobs  == 1..MaxJobs   \* numbered in the order of created_at
NoJob == 0

ASSUME ProcessAssumption ==
    /\ Apis \cap Workers = {}
    /\ None \notin Procs \cup Mailboxes
    /\ Crashing \subseteq Procs
ASSUME BoundAssumption == MaxJobs \in Nat /\ MaxRetries \in Nat

VARIABLES
    status,      \* sync_jobs.status of the committed rows
    mailboxOf,   \* sync_jobs.mailbox_id; no mailbox before the row is built
    retryOf,     \* payload_json.retry_of_job_id
    retryCount,  \* sync_jobs.retry_count
    next,        \* the next job to be created
    aged,        \* the jobs up to this one were created over 5 minutes ago
    tasks,       \* the jobs named by the messages in the Celery queue
    syncLock,    \* the Redis key sync:mailbox:<id>: the job it names
    connected,   \* mailboxes.status = "active", committed
    mailboxRow,  \* the session that has updated the mailbox and not committed
    jobRow,      \* the same for the rows of sync_jobs
    pc,          \* the point a session has reached
    cur,         \* the job a session works on
    victim,      \* the stale job a session is about to fail
    wrote        \* the outcome of a sync, not committed yet

dbVars   == <<status, connected>>
newVars  == <<mailboxOf, retryOf, retryCount, next>>
rowVars  == <<mailboxRow, jobRow>>
procVars == <<pc, cur, victim, wrote>>
vars == <<dbVars, newVars, aged, tasks, syncLock, rowVars, procVars>>

ActiveStatuses == {"pending_dispatch", "queued", "running"}
FinalStatuses  == {"succeeded", "failed", "dispatch_failed"}
Statuses       == {"absent"} \cup ActiveStatuses \cup FinalStatuses

\* What _execute_sync_today leaves in the session.  "reauth": the provider
\* refused the credential, the job and the mailbox are written.  "rollback":
\* the database failed under the session.
Outcomes == {"succeeded", "failed", "reauth", "rollback"}

ApiPoints    == {"publish", "send", "mark", "markFailed", "directFlush",
                 "retrySend", "retryCommit", "recover"}
WorkerPoints == {"acquire", "conflict", "flushMailbox", "flushJob", "release"}
Points       == {"idle", "syncing", "commit"} \cup ApiPoints \cup WorkerPoints

Init ==
    /\ status     = [j \in Jobs |-> "absent"]
    /\ mailboxOf  = [j \in Jobs |-> None]
    /\ retryOf    = [j \in Jobs |-> NoJob]
    /\ retryCount = [j \in Jobs |-> 0]
    /\ next       = 1
    /\ aged       = 0
    /\ tasks      = {}
    /\ syncLock   = [m \in Mailboxes |-> NoJob]
    /\ connected  = [m \in Mailboxes |-> TRUE]
    /\ mailboxRow = [m \in Mailboxes |-> None]
    /\ jobRow     = [j \in Jobs |-> None]
    /\ pc         = [p \in Procs |-> "idle"]
    /\ cur        = [p \in Procs |-> NoJob]
    /\ victim     = [p \in Procs |-> NoJob]
    /\ wrote      = [p \in Procs |-> "rollback"]
-----------------------------------------------------------------------------
(* Helpers.  The definition after an "and" in a comment is the same code with a
   plausible mistake; nothing uses it but the mutation of the properties. *)

\* The rows find_active_email_sync_job selects; it returns the oldest of them.
ActiveJobs(m) == {j \in Jobs : mailboxOf[j] = m /\ status[j] \in ActiveStatuses}

\* is_stale_email_sync_job: a job waiting for its dispatch is never stale.  (A
\* running one is after 20 minutes; no committed row is ever running.)
IsStale(j) == status[j] \in {"queued", "running"} /\ j <= aged

\* The checks of execute_queued_sync_job before it touches anything; and
\* without the one of the status.
ExecutableAnyhow(j) == status[j] # "absent" /\ connected[mailboxOf[j]]
Executable(j) == status[j] = "queued" /\ connected[mailboxOf[j]]

\* MailboxSyncLock.release: the key is deleted only when it names the job; and
\* whatever it names.
ReleasedBlindly(m, j) == NoJob
Released(m, j) == IF syncLock[m] = j THEN NoJob ELSE syncLock[m]

\* SyncJob(...): p builds a row for m, a retry of orig unless orig is NoJob.
\* The row is flushed here or later, and read by others once committed.
BuildJob(p, m, orig) ==
    /\ next <= MaxJobs
    /\ next'       = next + 1
    /\ mailboxOf'  = [mailboxOf EXCEPT ![next] = m]
    /\ retryOf'    = [retryOf EXCEPT ![next] = orig]
    /\ retryCount' = [retryCount EXCEPT
                        ![next] = IF orig = NoJob THEN 0 ELSE retryCount[orig] + 1]
    /\ cur'        = [cur EXCEPT ![p] = next]

\* retry_job accepts a failed job below its limit; and any failed job.
MayRetryForEver(j) == status[j] = "failed"
MayRetry(j) == status[j] = "failed" /\ retryCount[j] < MaxRetries

\* _fail_job and the commit that follows it; and without them.
FailForgotten(j) == UNCHANGED status
Fail(j) == status' = [status EXCEPT ![j] = "failed"]

\* The message leaves the queue as the worker takes it; and with late
\* acknowledgement, when it stays.
Unacknowledged(j) == tasks
Acknowledged(j) == tasks \ {j}

\* The UPDATE of last_sync_at gives the session the row of the mailbox; and a
\* session that does not flush it.
RowNotTaken(m, p) == UNCHANGED mailboxRow
RowTaken(m, p) == mailboxRow' = [mailboxRow EXCEPT ![m] = p]

Goto(p, point) == pc' = [pc EXCEPT ![p] = point]

\* The end of a session: its row locks are freed (or kept, by a session that
\* is never closed), its state is gone.
KeepRows(p) == UNCHANGED rowVars
FreeRows(p) ==
    /\ mailboxRow' = [m \in Mailboxes |->
                        IF mailboxRow[m] = p THEN None ELSE mailboxRow[m]]
    /\ jobRow'     = [j \in Jobs |-> IF jobRow[j] = p THEN None ELSE jobRow[j]]
EndSession(p) ==
    /\ pc'     = [pc EXCEPT ![p] = "idle"]
    /\ cur'    = [cur EXCEPT ![p] = NoJob]
    /\ victim' = [victim EXCEPT ![p] = NoJob]
    /\ wrote'  = [wrote EXCEPT ![p] = "rollback"]
-----------------------------------------------------------------------------
(* POST /mailboxes/{id}/sync-jobs, and the scheduled sync of a mailbox.    *)

\* enqueue_sync_today_job reads the mailbox and its oldest active job.  It
\* returns that job, a step that changes nothing, unless it is stale.
EnqueueRead(a, m) ==
    /\ pc[a] = "idle"
    /\ connected[m]
    /\ \/ /\ ActiveJobs(m) = {}
          /\ victim' = [victim EXCEPT ![a] = NoJob]
       \/ \E j \in ActiveJobs(m) :
             /\ \A k \in ActiveJobs(m) : j <= k
             /\ IsStale(j)
             /\ victim' = [victim EXCEPT ![a] = j]
    /\ BuildJob(a, m, NoJob)
    /\ Goto(a, "publish")
    /\ UNCHANGED <<dbVars, aged, tasks, syncLock, rowVars, wrote>>

\* _fail_job of the stale job, which may wait for the row, the INSERT, and the
\* commit dispatch_pending_job starts with.  The UPDATE writes "failed" over
\* whatever the row holds by now.
Publish(a) ==
    /\ pc[a] = "publish"
    /\ victim[a] # NoJob => jobRow[victim[a]] = None
    /\ status' = [j \in Jobs |-> IF j = cur[a] THEN "pending_dispatch"
                                 ELSE IF j = victim[a] THEN "failed" ELSE status[j]]
    /\ Goto(a, "send")
    /\ UNCHANGED <<connected, newVars, aged, tasks, syncLock, rowVars,
                   cur, victim, wrote>>

\* dispatch_pending_job reads the job again and calls send_task; and a
\* dispatch that does not commit first.
SendUncommitted(a) ==
    /\ pc[a] = "publish"
    /\ tasks' = tasks \cup {cur[a]}
    /\ Goto(a, "mark")
    /\ UNCHANGED <<dbVars, newVars, aged, syncLock, rowVars, cur, victim, wrote>>
Send(a) ==
    /\ pc[a] = "send"
    /\ status[cur[a]] = "pending_dispatch"
    /\ tasks' = tasks \cup {cur[a]}
    /\ Goto(a, "mark")
    /\ UNCHANGED <<dbVars, newVars, aged, syncLock, rowVars, cur, victim, wrote>>

\* send_task raises; the broker may have taken the message all the same.
SendFails(a) ==
    /\ pc[a] = "send"
    /\ status[cur[a]] = "pending_dispatch"
    /\ tasks' \in {tasks, tasks \cup {cur[a]}}
    /\ Goto(a, "markFailed")
    /\ UNCHANGED <<dbVars, newVars, aged, syncLock, rowVars, cur, victim, wrote>>

\* The second commit of dispatch_pending_job: queued, or dispatch_failed.
Mark(a) ==
    /\ pc[a] \in {"mark", "markFailed"}
    /\ jobRow[cur[a]] = None
    /\ status' = [status EXCEPT
                    ![cur[a]] = IF pc[a] = "mark" THEN "queued" ELSE "dispatch_failed"]
    /\ EndSession(a)
    /\ UNCHANGED <<connected, newVars, aged, tasks, syncLock, rowVars>>
-----------------------------------------------------------------------------
(* POST /mailboxes/{id}/sync: the request synchronises by itself, without  *)
(* the Redis lock.                                                         *)

\* sync_today_emails returns an active job, stale or not, if there is one.
DirectRead(a, m) ==
    /\ pc[a] = "idle"
    /\ connected[m]
    /\ ActiveJobs(m) = {}
    /\ BuildJob(a, m, NoJob)
    /\ Goto(a, "directFlush")
    /\ UNCHANGED <<dbVars, aged, tasks, syncLock, rowVars, victim, wrote>>

\* The flush updates mailboxes.last_sync_at, waiting for the row, and then
\* inserts the job.
DirectFlush(a) ==
    LET m == mailboxOf[cur[a]] IN
    /\ pc[a] = "directFlush"
    /\ mailboxRow[m] = None
    /\ RowTaken(m, a)
    /\ Goto(a, "syncing")
    /\ UNCHANGED <<dbVars, newVars, aged, tasks, syncLock, jobRow, cur, victim, wrote>>
-----------------------------------------------------------------------------
(* POST /jobs/{id}/retry.                                                  *)

\* retry_job builds a queued copy of a failed job and flushes it.
RetryRead(a, j) ==
    /\ pc[a] = "idle"
    /\ MayRetry(j)
    /\ BuildJob(a, mailboxOf[j], j)
    /\ Goto(a, "retrySend")
    /\ UNCHANGED <<dbVars, aged, tasks, syncLock, rowVars, victim, wrote>>

\* The message is sent while the row is not committed yet.
RetrySend(a) ==
    /\ pc[a] = "retrySend"
    /\ tasks' = tasks \cup {cur[a]}
    /\ Goto(a, "retryCommit")
    /\ UNCHANGED <<dbVars, newVars, aged, syncLock, rowVars, cur, victim, wrote>>

\* send_task raises, after delivery or not: get_db rolls the session back.
RetrySendFails(a) ==
    /\ pc[a] = "retrySend"
    /\ tasks' \in {tasks, tasks \cup {cur[a]}}
    /\ EndSession(a)
    /\ UNCHANGED <<dbVars, newVars, aged, syncLock, rowVars>>

RetryCommit(a) ==
    /\ pc[a] = "retryCommit"
    /\ status' = [status EXCEPT ![cur[a]] = "queued"]
    /\ EndSession(a)
    /\ UNCHANGED <<connected, newVars, aged, tasks, syncLock, rowVars>>
-----------------------------------------------------------------------------
(* GET /mailboxes/{id}/sync-status.                                        *)

\* get_sync_status reads the last job of the mailbox; a stale one is failed.
StatusRead(a, j) ==
    /\ pc[a] = "idle"
    /\ IsStale(j)
    /\ \A k \in Jobs : mailboxOf[k] = mailboxOf[j] /\ status[k] # "absent" => k <= j
    /\ victim' = [victim EXCEPT ![a] = j]
    /\ Goto(a, "recover")
    /\ UNCHANGED <<dbVars, newVars, aged, tasks, syncLock, rowVars, cur, wrote>>

\* _fail_job waits for the row, writes over it and commits.
Recover(a) ==
    /\ pc[a] = "recover"
    /\ jobRow[victim[a]] = None
    /\ Fail(victim[a])
    /\ EndSession(a)
    /\ UNCHANGED <<connected, newVars, aged, tasks, syncLock, rowVars>>
-----------------------------------------------------------------------------
(* The Celery task app.jobs.email_sync.  The message is acknowledged when  *)
(* the worker takes it.                                                    *)

\* execute_queued_sync_job returns "ignored" (no such row, or not queued) or
\* raises (the mailbox is not active) and writes nothing.
IgnoreTask(w, j) ==
    /\ pc[w] = "idle"
    /\ j \in tasks
    /\ ~Executable(j)
    /\ tasks' = Acknowledged(j)
    /\ UNCHANGED <<dbVars, newVars, aged, syncLock, rowVars, procVars>>

TakeTask(w, j) ==
    /\ pc[w] = "idle"
    /\ j \in tasks
    /\ Executable(j)
    /\ tasks' = Acknowledged(j)
    /\ cur' = [cur EXCEPT ![w] = j]
    /\ Goto(w, "acquire")
    /\ UNCHANGED <<dbVars, newVars, aged, syncLock, rowVars, victim, wrote>>

\* acquire_mailbox_sync_lock: SET key job NX EX ttl.
AcquireLock(w) ==
    LET m == mailboxOf[cur[w]] IN
    /\ pc[w] = "acquire"
    /\ syncLock[m] = NoJob
    /\ syncLock' = [syncLock EXCEPT ![m] = cur[w]]
    /\ Goto(w, "flushMailbox")
    /\ UNCHANGED <<dbVars, newVars, aged, tasks, rowVars, cur, victim, wrote>>

\* The key exists, or Redis does not answer.
AcquireFails(w) ==
    /\ pc[w] = "acquire"
    /\ Goto(w, "conflict")
    /\ UNCHANGED <<dbVars, newVars, aged, tasks, syncLock, rowVars, cur, victim, wrote>>

\* _fail_job("worker_lock_conflict"), committed by the task.
LockConflict(w) ==
    /\ pc[w] = "conflict"
    /\ jobRow[cur[w]] = None
    /\ Fail(cur[w])
    /\ EndSession(w)
    /\ UNCHANGED <<connected, newVars, aged, tasks, syncLock, rowVars>>

\* db.flush() of last_sync_at and of status = "running": first the mailbox,
\* then the job, each UPDATE waiting for its row.
FlushMailbox(w) ==
    LET m == mailboxOf[cur[w]] IN
    /\ pc[w] = "flushMailbox"
    /\ mailboxRow[m] = None
    /\ RowTaken(m, w)
    /\ Goto(w, "flushJob")
    /\ UNCHANGED <<dbVars, newVars, aged, tasks, syncLock, jobRow, cur, victim, wrote>>

FlushJob(w) ==
    /\ pc[w] = "flushJob"
    /\ jobRow[cur[w]] = None
    /\ jobRow' = [jobRow EXCEPT ![cur[w]] = w]
    /\ Goto(w, "syncing")
    /\ UNCHANGED <<dbVars, newVars, aged, tasks, syncLock, mailboxRow,
                   cur, victim, wrote>>

\* The finally clause; a Redis error leaves the key to its time to live.
ReleaseLock(w) ==
    LET m == mailboxOf[cur[w]] IN
    /\ pc[w] = "release"
    /\ \/ syncLock' = [syncLock EXCEPT ![m] = Released(m, cur[w])]
       \/ UNCHANGED syncLock
    /\ Goto(w, "commit")
    /\ UNCHANGED <<dbVars, newVars, aged, tasks, rowVars, cur, victim, wrote>>
-----------------------------------------------------------------------------
(* _execute_sync_today, in a worker or in a request, and its commit.       *)

\* The provider is called, the e-mails are upserted, the outcome is flushed.
\* Any error marks the job failed; only a database error leaves nothing.
Synchronise(p, outcome) ==
    /\ pc[p] = "syncing"
    /\ outcome = "rollback" => p \in Crashing
    /\ wrote' = [wrote EXCEPT ![p] = outcome]
    /\ Goto(p, IF p \in Workers THEN "release" ELSE "commit")
    /\ UNCHANGED <<dbVars, newVars, aged, tasks, syncLock, rowVars, cur, victim>>

\* db.commit() of the task or of the request, or db.rollback().
Commit(p) ==
    LET j == cur[p]
        m == mailboxOf[j] IN
    /\ pc[p] = "commit"
    /\ status' = IF wrote[p] = "rollback" THEN status
                 ELSE [status EXCEPT
                         ![j] = IF wrote[p] = "succeeded" THEN "succeeded" ELSE "failed"]
    /\ connected' = [connected EXCEPT ![m] = IF wrote[p] = "reauth" THEN FALSE ELSE @]
    /\ FreeRows(p)
    /\ EndSession(p)
    /\ UNCHANGED <<newVars, aged, tasks, syncLock>>
-----------------------------------------------------------------------------
(* The environment.                                                        *)

\* The process dies or loses its database connection: the transaction is
\* undone, the acknowledged task is lost, the Redis key stays.
Crash(p) ==
    /\ p \in Crashing
    /\ pc[p] # "idle"
    /\ FreeRows(p)
    /\ EndSession(p)
    /\ UNCHANGED <<dbVars, newVars, aged, tasks, syncLock>>

\* Five minutes pass since the creation of one more job.
Age ==
    /\ aged < next - 1
    /\ aged' = aged + 1
    /\ UNCHANGED <<dbVars, newVars, tasks, syncLock, rowVars, procVars>>

\* The 20 minutes of the key are over.
ExpireLock(m) ==
    /\ syncLock[m] # NoJob
    /\ syncLock[m] <= aged
    /\ syncLock' = [syncLock EXCEPT ![m] = NoJob]
    /\ UNCHANGED <<dbVars, newVars, aged, tasks, rowVars, procVars>>

\* The user disconnects the mailbox, or authorises it again: an UPDATE of the
\* mailbox row, which waits for it.
SetConnected(m) ==
    /\ mailboxRow[m] = None
    /\ connected' = [connected EXCEPT ![m] = ~@]
    /\ UNCHANGED <<status, newVars, aged, tasks, syncLock, rowVars, procVars>>
-----------------------------------------------------------------------------
ApiStep(a) ==
    \/ Publish(a) \/ Send(a) \/ SendFails(a) \/ Mark(a)
    \/ DirectFlush(a)
    \/ RetrySend(a) \/ RetrySendFails(a) \/ RetryCommit(a)
    \/ Recover(a)

WorkerStep(w) ==
    \/ AcquireLock(w) \/ AcquireFails(w) \/ LockConflict(w)
    \/ FlushMailbox(w) \/ FlushJob(w) \/ ReleaseLock(w)

SyncStep(p) == (\E o \in Outcomes : Synchronise(p, o)) \/ Commit(p)

Request(a) ==
    \/ \E m \in Mailboxes : EnqueueRead(a, m) \/ DirectRead(a, m)
    \/ \E j \in Jobs : RetryRead(a, j) \/ StatusRead(a, j)

Deliver(w) == \E j \in Jobs : IgnoreTask(w, j) \/ TakeTask(w, j)

Next ==
    \/ \E a \in Apis : Request(a) \/ ApiStep(a)
    \/ \E w \in Workers : Deliver(w) \/ WorkerStep(w)
    \/ \E p \in Procs : SyncStep(p) \/ Crash(p)
    \/ \E m \in Mailboxes : ExpireLock(m) \/ SetConnected(m)
    \/ Age

Spec == Init /\ [][Next]_vars

\* A session that began goes on (every provider call has a time-out of some
\* seconds), a queued message is delivered to some worker, a key expires.
Fairness ==
    /\ \A a \in Apis : WF_vars(ApiStep(a))
    /\ \A w \in Workers : WF_vars(WorkerStep(w))
    /\ \A p \in Procs : WF_vars(SyncStep(p))
    /\ WF_vars(\E w \in Workers : Deliver(w))
    /\ WF_vars(Age) /\ \A m \in Mailboxes : WF_vars(ExpireLock(m))

FairSpec == Spec /\ Fairness
-----------------------------------------------------------------------------
(* Properties.                                                             *)

\* Every variable keeps its type; retry_count stays within the limit.
TypeOK ==
    /\ status     \in [Jobs -> Statuses \ {"running"}]
    /\ mailboxOf  \in [Jobs -> Mailboxes \cup {None}]
    /\ retryOf    \in [Jobs -> Jobs \cup {NoJob}]
    /\ retryCount \in [Jobs -> 0..MaxRetries]
    /\ next       \in 1..(MaxJobs + 1)
    /\ aged       \in 0..MaxJobs
    /\ tasks      \subseteq Jobs
    /\ syncLock   \in [Mailboxes -> Jobs \cup {NoJob}]
    /\ connected  \in [Mailboxes -> BOOLEAN]
    /\ mailboxRow \in [Mailboxes -> Procs \cup {None}]
    /\ jobRow     \in [Jobs -> Procs \cup {None}]
    /\ pc         \in [Procs -> Points]
    /\ cur        \in [Procs -> Jobs \cup {NoJob}]
    /\ victim     \in [Procs -> Jobs \cup {NoJob}]
    /\ wrote      \in [Procs -> Outcomes]

Executing(p, m) == pc[p] \in {"syncing", "release", "commit"} /\ mailboxOf[cur[p]] = m

\* Two sessions never synchronise one mailbox at a time, although the Redis
\* key may have expired under the first, is deleted before the first commits,
\* and is not asked for by a direct sync: last_sync_at is flushed first.
SyncMutex ==
    \A m \in Mailboxes : \A p, q \in Procs :
        Executing(p, m) /\ Executing(q, m) => p = q

\* From SET NX to its own release a worker owns the key of its mailbox, unless
\* the key's time to live may be over: nobody else deletes or replaces it.
LockCoversSync ==
    \A w \in Workers :
        pc[w] \in {"flushMailbox", "flushJob", "syncing", "release"} /\ cur[w] > aged
            => syncLock[mailboxOf[cur[w]]] = cur[w]

\* dispatch_pending_job commits before it sends: a message that names a row
\* nobody else can read comes from a retry, never from an enqueued job.
OrphansAreRetries ==
    \A j \in tasks : status[j] = "absent" => retryOf[j] # NoJob

\* The steps of a committed status.  A finished job is never pending or queued
\* again, a job whose dispatch failed stays so even if its message was taken,
\* and only a job that was queued, or retried, is executed by a worker.
LifeSteps ==
    ({"absent"} \X {"pending_dispatch", "queued", "succeeded", "failed"})
    \cup ({"pending_dispatch"} \X {"queued", "dispatch_failed"})
    \cup ({"queued"} \X {"succeeded", "failed"})
    \cup {<<"succeeded", "failed">>, <<"failed", "succeeded">>}

LifeCycle ==
    [][\A j \in Jobs : status'[j] # status[j] => <<status[j], status'[j]>> \in LifeSteps]_vars

\* A session that waits for rows of other sessions gets them: requests and
\* tasks end, whatever they wait for.
SessionsEnd == \A p \in Procs : pc[p] # "idle" ~> pc[p] = "idle"

\* The message of a queued job makes the job leave the queue, unless its
\* mailbox is disconnected meanwhile.
QueuedMessageServed ==
    \A j \in Jobs :
        j \in tasks /\ status[j] = "queued"
            ~> status[j] # "queued" \/ ~connected[mailboxOf[j]]

\* The abstract view: the jobs not created yet, in the queue, or in the hands
\* of a session that has not started to synchronise; and per mailbox the job
\* of the session that has its row and is past the last flush.
Unstarted == {"publish", "send", "retrySend", "directFlush",
              "acquire", "flushMailbox", "flushJob"}
Waiting == next..MaxJobs \cup tasks \cup {cur[p] : p \in {q \in Procs : pc[q] \in Unstarted}}
Running(m) == LET p == mailboxRow[m] IN
              IF p # None /\ pc[p] # "flushJob" THEN cur[p] ELSE NoJob

Promise == INSTANCE MailboxSync WITH
               waiting <- Waiting,
               running <- [m \in Mailboxes |-> Running(m)]

\* The pipeline implements MailboxSync: with crashes, lost and orphaned
\* messages, expired keys and retries, executions of a mailbox are serial and
\* no job is executed twice.
SerialOnce == Promise!Spec
=============================================================================
