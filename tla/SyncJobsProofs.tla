--------------------------- MODULE SyncJobsProofs ---------------------------
(***************************************************************************)
(* Proofs about SyncJobs, for any number of mailboxes, requests, workers,  *)
(* jobs and retries.                                                       *)
(***************************************************************************)
EXTENDS SyncJobs, TLAPS

\* The points, outcomes and statuses the actions write are of their types.
LEMMA Members ==
    /\ {"idle", "syncing", "commit", "publish", "send", "mark", "markFailed",
        "directFlush", "retrySend", "retryCommit", "recover", "acquire", "conflict",
        "flushMailbox", "flushJob", "release"} \subseteq Points
    /\ {"absent", "pending_dispatch", "queued", "succeeded", "failed", "dispatch_failed"}
        \subseteq Statuses \ {"running"}
    /\ "rollback" \in Outcomes
BY DEF Points, ApiPoints, WorkerPoints, Statuses, ActiveStatuses, FinalStatuses, Outcomes

\* What TypeOK rests on: a row is committed, sent or worked on only after it
\* was built for a mailbox, and a session that is not idle (nor recovering a
\* stale job) works on a row.
Built ==
    /\ \A j \in Jobs : mailboxOf[j] \in Mailboxes <=> j < next
    /\ \A j \in Jobs : status[j] # "absent" => j < next
    /\ \A j \in tasks : j < next
    /\ \A p \in Procs : cur[p] < next /\ victim[p] < next
    /\ \A p \in Procs : pc[p] \in {"idle", "recover"} <=> cur[p] = NoJob

LEMMA TypeInit == Init => TypeOK /\ Built
<1> SUFFICES ASSUME Init PROVE TypeOK /\ Built
    OBVIOUS
<1>1. TypeOK
    BY Members, BoundAssumption DEF Init, TypeOK, Jobs, NoJob
<1>2. Built
    BY ProcessAssumption, BoundAssumption DEF Init, Built, Jobs, NoJob
<1> QED BY <1>1, <1>2

\* Type correctness: every variable keeps its type; in particular no chain of
\* retries is longer than MAX_JOB_RETRIES, and no committed row is running.
LEMMA TypeStep == TypeOK /\ Built /\ [Next]_vars => TypeOK'
<1> SUFFICES ASSUME TypeOK, Built, [Next]_vars PROVE TypeOK'
    OBVIOUS
<1> USE Members
    DEF TypeOK, Procs, Goto, EndSession, FreeRows, BuildJob, RowTaken,
        Fail, Acknowledged, Released, MayRetry,
        dbVars, newVars, rowVars, procVars
<1>1. ASSUME NEW a \in Apis, NEW m \in Mailboxes, EnqueueRead(a, m) PROVE TypeOK'
  <2>1. victim' \in [Procs -> Jobs \cup {NoJob}]
      BY <1>1 DEF EnqueueRead, ActiveJobs
  <2> QED BY <1>1, <2>1, BoundAssumption DEF Jobs, NoJob, EnqueueRead
<1>2. ASSUME NEW a \in Apis, NEW m \in Mailboxes, DirectRead(a, m) PROVE TypeOK'
    BY <1>2, BoundAssumption DEF Jobs, NoJob, DirectRead
<1>3. ASSUME NEW a \in Apis, NEW j \in Jobs, RetryRead(a, j) PROVE TypeOK'
  <2>1. retryCount' \in [Jobs -> 0..MaxRetries]
      BY <1>3, BoundAssumption DEF Jobs, NoJob, RetryRead
  <2>2. /\ mailboxOf' \in [Jobs -> Mailboxes \cup {None}]
        /\ retryOf' \in [Jobs -> Jobs \cup {NoJob}]
        /\ next' \in 1..(MaxJobs + 1)
        /\ cur' \in [Procs -> Jobs \cup {NoJob}]
      BY <1>3, BoundAssumption DEF Jobs, NoJob, RetryRead
  <2> QED BY <1>3, <2>1, <2>2 DEF RetryRead
<1>4. ASSUME NEW a \in Apis, NEW j \in Jobs, StatusRead(a, j) PROVE TypeOK'
    BY <1>4 DEF StatusRead
<1>5. ASSUME NEW a \in Apis, ApiStep(a) PROVE TypeOK'
  <2>1. CASE Publish(a)
      BY <2>1 DEF Publish
  <2>2. CASE Send(a)
      BY <2>2 DEF Send, Built
  <2>3. CASE SendFails(a)
      BY <2>3 DEF SendFails, Built
  <2>4. CASE Mark(a)
      BY <2>4 DEF Mark
  <2>5. CASE DirectFlush(a)
      BY <2>5 DEF DirectFlush
  <2>6. CASE RetrySend(a)
      BY <2>6 DEF RetrySend, Built
  <2>7. CASE RetrySendFails(a)
      BY <2>7 DEF RetrySendFails, Built
  <2>8. CASE RetryCommit(a) \/ Recover(a)
      BY <2>8 DEF RetryCommit, Recover
  <2> QED BY <1>5, <2>1, <2>2, <2>3, <2>4, <2>5, <2>6, <2>7, <2>8 DEF ApiStep
<1>6. ASSUME NEW w \in Workers, NEW j \in Jobs, IgnoreTask(w, j) \/ TakeTask(w, j)
      PROVE TypeOK'
    BY <1>6 DEF IgnoreTask, TakeTask
<1>7. ASSUME NEW w \in Workers, WorkerStep(w) PROVE TypeOK'
  <2>1. CASE AcquireLock(w)
      BY <2>1 DEF AcquireLock
  <2>2. CASE AcquireFails(w) \/ LockConflict(w)
      BY <2>2 DEF AcquireFails, LockConflict
  <2>3. CASE FlushMailbox(w) \/ FlushJob(w)
      BY <2>3 DEF FlushMailbox, FlushJob
  <2>4. CASE ReleaseLock(w)
      BY <2>4 DEF ReleaseLock
  <2> QED BY <1>7, <2>1, <2>2, <2>3, <2>4 DEF WorkerStep
<1>8. ASSUME NEW p \in Procs, NEW o \in Outcomes, Synchronise(p, o) PROVE TypeOK'
  <2>1. pc' \in [Procs -> Points]
      BY <1>8 DEF Synchronise
  <2>2. wrote' \in [Procs -> Outcomes]
      BY <1>8 DEF Synchronise
  <2>3. UNCHANGED <<status, connected, mailboxOf, retryOf, retryCount, next, aged, tasks,
                    syncLock, mailboxRow, jobRow, cur, victim>>
      BY <1>8 DEF Synchronise
  <2> QED BY <2>1, <2>2, <2>3
<1>9. ASSUME NEW p \in Procs, Commit(p) \/ Crash(p) PROVE TypeOK'
  <2>1. CASE Commit(p)
    <3>1. status' \in [Jobs -> Statuses \ {"running"}]
        BY <2>1 DEF Commit
    <3>2. connected' \in [Mailboxes -> BOOLEAN]
        BY <2>1 DEF Commit
    <3> QED BY <2>1, <3>1, <3>2 DEF Commit
  <2>2. CASE Crash(p)
      BY <2>2 DEF Crash
  <2> QED BY <1>9, <2>1, <2>2
<1>10. ASSUME NEW m \in Mailboxes, ExpireLock(m) \/ SetConnected(m) PROVE TypeOK'
    BY <1>10 DEF ExpireLock, SetConnected
<1>11. CASE Age
    BY <1>11, BoundAssumption DEF Jobs, Age
<1>12. CASE UNCHANGED vars
    BY <1>12 DEF vars
<1> QED
    BY <1>1, <1>2, <1>3, <1>4, <1>5, <1>6, <1>7, <1>8, <1>9, <1>10, <1>11, <1>12
       DEF Next, Request, Deliver, SyncStep

LEMMA BuiltStep == TypeOK /\ TypeOK' /\ Built /\ [Next]_vars => Built'
<1> SUFFICES ASSUME TypeOK, TypeOK', Built, [Next]_vars PROVE Built'
    OBVIOUS
<1> USE DEF Procs, Goto, EndSession, dbVars, newVars, rowVars, procVars, NoJob
<1>1. ASSUME NEW p \in Apis, NEW m \in Mailboxes, NEW orig, NEW v \in Jobs \cup {NoJob}, v < next,
             BuildJob(p, m, orig), victim' = [victim EXCEPT ![p] = v],
             status' = status, tasks' = tasks,
             NEW point, point \notin {"idle", "recover"}, Goto(p, point)
      PROVE Built'
  <2>1. /\ next \in Nat /\ next \in Jobs /\ next' = next + 1
        /\ mailboxOf' = [mailboxOf EXCEPT ![next] = m]
        /\ cur' = [cur EXCEPT ![p] = next]
        /\ pc' = [pc EXCEPT ![p] = point]
      BY <1>1, BoundAssumption DEF TypeOK, Jobs, BuildJob
  <2>2. /\ cur \in [Procs -> Jobs \cup {0}] /\ victim \in [Procs -> Jobs \cup {0}]
        /\ tasks \subseteq Jobs /\ mailboxOf \in [Jobs -> Mailboxes \cup {None}]
        /\ pc \in [Procs -> Points] /\ Jobs \subseteq Nat
      BY DEF TypeOK, Jobs
  <2>3. \A j \in Jobs : mailboxOf'[j] \in Mailboxes <=> j < next'
      BY <2>1, <2>2 DEF Built
  <2>4. \A j \in Jobs : status'[j] # "absent" => j < next'
      BY <1>1, <2>1, <2>2 DEF Built
  <2>5. \A j \in tasks' : j < next'
      BY <1>1, <2>1, <2>2 DEF Built
  <2>6. ASSUME NEW q \in Procs
        PROVE  /\ cur'[q] < next' /\ victim'[q] < next'
               /\ pc'[q] \in {"idle", "recover"} <=> cur'[q] = NoJob
    <3>1. CASE q = p
        BY <1>1, <2>1, <2>2, <3>1
    <3>2. CASE q # p
      <4>1. cur'[q] = cur[q] /\ victim'[q] = victim[q] /\ pc'[q] = pc[q]
          BY <1>1, <2>1, <2>2, <3>2
      <4>2. cur[q] \in Nat /\ victim[q] \in Nat
          BY DEF TypeOK, Jobs
      <4>3. /\ cur[q] < next /\ victim[q] < next
            /\ pc[q] \in {"idle", "recover"} <=> cur[q] = NoJob
          BY DEF Built
      <4> QED BY <2>1, <4>1, <4>2, <4>3
    <3> QED BY <3>1, <3>2
  <2> QED BY <2>3, <2>4, <2>5, <2>6 DEF Built
<1>2. ASSUME NEW a \in Apis, NEW m \in Mailboxes, EnqueueRead(a, m) PROVE Built'
  <2>1. PICK v \in Jobs \cup {NoJob} : v < next /\ victim' = [victim EXCEPT ![a] = v]
      BY <1>2 DEF EnqueueRead, ActiveJobs, ActiveStatuses, Built, TypeOK
  <2> QED BY <1>1, <1>2, <2>1 DEF EnqueueRead
<1>3. ASSUME NEW a \in Apis, NEW m \in Mailboxes, DirectRead(a, m) PROVE Built'
  <2>1. /\ victim[a] < next /\ victim[a] \in Jobs \cup {NoJob}
        /\ victim' = [victim EXCEPT ![a] = victim[a]]
      BY <1>3 DEF DirectRead, Built, TypeOK
  <2> QED BY <1>1, <1>3, <2>1 DEF DirectRead
<1>4. ASSUME NEW a \in Apis, NEW j \in Jobs, RetryRead(a, j) PROVE Built'
  <2>1. /\ victim[a] < next /\ victim[a] \in Jobs \cup {NoJob}
        /\ victim' = [victim EXCEPT ![a] = victim[a]]
      BY <1>4 DEF RetryRead, Built, TypeOK
  <2>2. mailboxOf[j] \in Mailboxes
      BY <1>4 DEF RetryRead, MayRetry, Built
  <2> QED BY <1>1, <1>4, <2>1, <2>2 DEF RetryRead
<1>5. ASSUME NEW a \in Apis, NEW j \in Jobs, StatusRead(a, j) PROVE Built'
    BY <1>5 DEF StatusRead, IsStale, Built, TypeOK
<1>6. ASSUME NEW a \in Apis, ApiStep(a) PROVE Built'
  <2>1. CASE Publish(a)
    <3>1. \A j \in Jobs : status'[j] # "absent" => j < next'
        BY <2>1 DEF Publish, Built, TypeOK
    <3> QED BY <2>1, <3>1 DEF Publish, Built, TypeOK
  <2>2. CASE Send(a)
      BY <2>2 DEF Send, Built, TypeOK
  <2>3. CASE SendFails(a)
      BY <2>3 DEF SendFails, Built, TypeOK
  <2>4. CASE Mark(a)
      BY <2>4 DEF Mark, Built, TypeOK
  <2>5. CASE DirectFlush(a)
      BY <2>5 DEF DirectFlush, Built, TypeOK
  <2>6. CASE RetrySend(a)
      BY <2>6 DEF RetrySend, Built, TypeOK
  <2>7. CASE RetrySendFails(a)
      BY <2>7 DEF RetrySendFails, Built, TypeOK
  <2>8. CASE RetryCommit(a)
      BY <2>8 DEF RetryCommit, Built, TypeOK
  <2>9. CASE Recover(a)
      BY <2>9 DEF Recover, Fail, Built, TypeOK
  <2> QED BY <1>6, <2>1, <2>2, <2>3, <2>4, <2>5, <2>6, <2>7, <2>8, <2>9 DEF ApiStep
<1>7. ASSUME NEW w \in Workers, NEW j \in Jobs, IgnoreTask(w, j) \/ TakeTask(w, j)
      PROVE Built'
  <2>1. CASE IgnoreTask(w, j)
      BY <2>1 DEF IgnoreTask, Acknowledged, Built, TypeOK
  <2>2. CASE TakeTask(w, j)
      BY <2>2, BoundAssumption DEF TakeTask, Acknowledged, Built, TypeOK, Jobs
  <2> QED BY <1>7, <2>1, <2>2
<1>8. ASSUME NEW w \in Workers, WorkerStep(w) PROVE Built'
  <2>1. CASE AcquireLock(w)
      BY <2>1 DEF AcquireLock, Built, TypeOK
  <2>2. CASE AcquireFails(w)
      BY <2>2 DEF AcquireFails, Built, TypeOK
  <2>3. CASE LockConflict(w)
      BY <2>3 DEF LockConflict, Fail, Built, TypeOK
  <2>4. CASE FlushMailbox(w)
      BY <2>4 DEF FlushMailbox, Built, TypeOK
  <2>5. CASE FlushJob(w)
      BY <2>5 DEF FlushJob, Built, TypeOK
  <2>6. CASE ReleaseLock(w)
      BY <2>6 DEF ReleaseLock, Built, TypeOK
  <2> QED BY <1>8, <2>1, <2>2, <2>3, <2>4, <2>5, <2>6 DEF WorkerStep
<1>9. ASSUME NEW p \in Procs, NEW o \in Outcomes, Synchronise(p, o) PROVE Built'
    BY <1>9 DEF Synchronise, Built, TypeOK
<1>10. ASSUME NEW p \in Procs, Commit(p) \/ Crash(p) PROVE Built'
  <2>1. CASE Commit(p)
    <3>1. \A j \in Jobs : status'[j] # "absent" => j < next'
        BY <2>1 DEF Commit, Built, TypeOK
    <3> QED BY <2>1, <3>1 DEF Commit, Built, TypeOK
  <2>2. CASE Crash(p)
      BY <2>2 DEF Crash, Built, TypeOK
  <2> QED BY <1>10, <2>1, <2>2
<1>11. ASSUME NEW m \in Mailboxes, ExpireLock(m) \/ SetConnected(m) PROVE Built'
    BY <1>11 DEF ExpireLock, SetConnected, Built
<1>12. CASE Age
    BY <1>12 DEF Age, Built
<1>13. CASE UNCHANGED vars
    BY <1>13 DEF vars, Built
<1> QED
    BY <1>2, <1>3, <1>4, <1>5, <1>6, <1>7, <1>8, <1>9, <1>10, <1>11, <1>12, <1>13
       DEF Next, Request, Deliver, SyncStep

-----------------------------------------------------------------------------
\* The points at which a session has a job to itself: no message names it, no
\* other session works on it but the request that is about to commit it as
\* queued or as dispatch_failed.
Private == {"publish", "send", "directFlush", "retrySend", "acquire", "conflict",
            "flushMailbox", "flushJob", "syncing", "release", "commit"}
Sharing == {"mark", "markFailed", "retryCommit"}
Sole ==
    /\ \A p \in Procs : pc[p] \in Private => cur[p] \notin tasks
    /\ \A p, q \in Procs :
          p # q /\ pc[p] \in Private /\ cur[q] = cur[p] => pc[q] \in Sharing
    /\ \A a, b \in Apis : a # b /\ cur[a] = cur[b] => cur[a] = NoJob

LEMMA SoleStep == TypeOK /\ Built /\ Built' /\ Sole /\ [Next]_vars => Sole'
<1> SUFFICES ASSUME TypeOK, Built, Built', Sole, [Next]_vars PROVE Sole'
    OBVIOUS
<1> USE DEF dbVars, newVars, rowVars, procVars
<1>0. /\ pc \in [Procs -> Points] /\ cur \in [Procs -> Jobs \cup {NoJob}]
      /\ Apis \subseteq Procs /\ Workers \subseteq Procs /\ Apis \cap Workers = {}
      /\ Points = {"idle", "recover"} \cup Private \cup Sharing
      /\ next \in Nat /\ NoJob \notin Jobs /\ Jobs \subseteq Nat
    BY ProcessAssumption, BoundAssumption
       DEF TypeOK, Points, ApiPoints, WorkerPoints, Private, Sharing, Procs, Jobs, NoJob
\* A session goes on with its job.
<1>1. ASSUME NEW p \in Procs, NEW point \in Private \cup Sharing, pc[p] \in Private,
             Goto(p, point), cur' = cur,
             tasks' \subseteq tasks \cup {cur[p]}, point \in Private => tasks' = tasks
      PROVE Sole'
    BY <1>0, <1>1 DEF Sole, Goto, Private, Sharing
\* A session ends.
<1>2. ASSUME NEW p \in Procs, EndSession(p),
             \/ tasks' = tasks
             \/ pc[p] \in Private /\ tasks' \subseteq tasks \cup {cur[p]}
      PROVE Sole'
    BY <1>0, <1>2 DEF Sole, EndSession, Built, Private, Sharing
\* A request builds a job.
<1>3. ASSUME NEW a \in Apis, NEW m, NEW orig, NEW point \in Private,
             BuildJob(a, m, orig), Goto(a, point), tasks' = tasks
      PROVE Sole'
  <2>1. /\ cur' = [cur EXCEPT ![a] = next] /\ pc' = [pc EXCEPT ![a] = point]
        /\ \A q \in Procs : cur[q] # next
        /\ next \notin tasks /\ next # NoJob
      BY <1>0, <1>3 DEF Built, BuildJob, Goto, TypeOK, NoJob
  <2> QED BY <1>0, <1>3, <2>1 DEF Sole, Private, Sharing
<1>4. ASSUME NEW a \in Apis, NEW m \in Mailboxes, EnqueueRead(a, m) \/ DirectRead(a, m)
      PROVE Sole'
    BY <1>3, <1>4 DEF EnqueueRead, DirectRead, Private
<1>5. ASSUME NEW a \in Apis, NEW j \in Jobs, RetryRead(a, j) PROVE Sole'
    BY <1>3, <1>5 DEF RetryRead, Private
<1>6. ASSUME NEW a \in Apis, NEW j \in Jobs, StatusRead(a, j) PROVE Sole'
    BY <1>0, <1>6 DEF StatusRead, Goto, Sole, Built, Private, Sharing
<1>7. ASSUME NEW a \in Apis, ApiStep(a) PROVE Sole'
  <2>1. CASE Publish(a)
      BY <1>0, <1>1, <2>1 DEF Publish, Private
  <2>2. CASE Send(a) \/ SendFails(a) \/ RetrySend(a)
      BY <1>0, <1>1, <2>2 DEF Send, SendFails, RetrySend, Private, Sharing
  <2>3. CASE DirectFlush(a)
      BY <1>0, <1>1, <2>3 DEF DirectFlush, Private
  <2>4. CASE Mark(a) \/ RetrySendFails(a) \/ RetryCommit(a) \/ Recover(a)
      BY <1>0, <1>2, <2>4 DEF Mark, RetrySendFails, RetryCommit, Recover, Private
  <2> QED BY <1>7, <2>1, <2>2, <2>3, <2>4 DEF ApiStep
<1>8. ASSUME NEW w \in Workers, NEW j \in Jobs, IgnoreTask(w, j) PROVE Sole'
    BY <1>8 DEF IgnoreTask, Acknowledged, Sole
<1>9. ASSUME NEW w \in Workers, NEW j \in Jobs, TakeTask(w, j) PROVE Sole'
  <2>1. /\ j \in tasks /\ tasks' = tasks \ {j}
        /\ cur' = [cur EXCEPT ![w] = j] /\ pc' = [pc EXCEPT ![w] = "acquire"]
      BY <1>9 DEF TakeTask, Acknowledged, Goto
  <2>2. \A q \in Procs : cur[q] = j => pc[q] \in Sharing
      BY <1>0, <2>1 DEF Sole, Built
  <2> QED BY <1>0, <2>1, <2>2 DEF Sole, Private, Sharing
<1>10. ASSUME NEW w \in Workers, WorkerStep(w) PROVE Sole'
  <2>1. CASE LockConflict(w)
      BY <1>0, <1>2, <2>1 DEF LockConflict
  <2>2. CASE \/ AcquireLock(w) \/ AcquireFails(w)
             \/ FlushMailbox(w) \/ FlushJob(w) \/ ReleaseLock(w)
      BY <1>0, <1>1, <2>2
         DEF AcquireLock, AcquireFails, FlushMailbox, FlushJob, ReleaseLock, Private
  <2> QED BY <1>10, <2>1, <2>2 DEF WorkerStep
<1>11. ASSUME NEW p \in Procs, NEW o \in Outcomes, Synchronise(p, o) PROVE Sole'
  <2>1. PICK point \in {"release", "commit"} : Goto(p, point)
      BY <1>11 DEF Synchronise
  <2> QED BY <1>1, <1>11, <2>1 DEF Synchronise, Private
<1>12. ASSUME NEW p \in Procs, Commit(p) \/ Crash(p) PROVE Sole'
    BY <1>2, <1>12 DEF Commit, Crash
<1>13. ASSUME NEW m \in Mailboxes, ExpireLock(m) \/ SetConnected(m) PROVE Sole'
    BY <1>13 DEF ExpireLock, SetConnected, Sole
<1>14. CASE Age \/ UNCHANGED vars
    BY <1>14 DEF Age, vars, Sole
<1> QED
    BY <1>4, <1>5, <1>6, <1>7, <1>8, <1>9, <1>10, <1>11, <1>12, <1>13, <1>14
       DEF Next, Request, Deliver, SyncStep
-----------------------------------------------------------------------------
\* The row of a mailbox is locked exactly by the session that is between the
\* flush of last_sync_at and its commit.
Holding == {"flushJob", "syncing", "release", "commit"}
RowHeld ==
    /\ \A p \in Procs : pc[p] \in Holding => mailboxRow[mailboxOf[cur[p]]] = p
    /\ \A m \in Mailboxes : mailboxRow[m] # None =>
           pc[mailboxRow[m]] \in Holding /\ mailboxOf[cur[mailboxRow[m]]] = m

LEMMA RowStep == TypeOK /\ Built /\ RowHeld /\ [Next]_vars => RowHeld'
<1> SUFFICES ASSUME TypeOK, Built, RowHeld, [Next]_vars PROVE RowHeld'
    OBVIOUS
<1> USE DEF dbVars, newVars, rowVars, procVars
<1>0. /\ pc \in [Procs -> Points] /\ cur \in [Procs -> Jobs \cup {NoJob}]
      /\ mailboxOf \in [Jobs -> Mailboxes \cup {None}]
      /\ mailboxRow \in [Mailboxes -> Procs \cup {None}]
      /\ Apis \subseteq Procs /\ Workers \subseteq Procs /\ None \notin Procs
      /\ next \in Nat /\ NoJob \notin Jobs /\ Jobs \subseteq Nat
      /\ \A p \in Procs : pc[p] \notin {"idle", "recover"} =>
             cur[p] \in Jobs /\ mailboxOf[cur[p]] \in Mailboxes
    BY ProcessAssumption, BoundAssumption DEF TypeOK, Built, Procs, Jobs, NoJob
\* A session goes on with its job and with the rows it has.
<1>1. ASSUME NEW p \in Procs, NEW point, pc[p] \in Holding <=> point \in Holding,
             Goto(p, point), UNCHANGED <<cur, mailboxOf, mailboxRow>>
      PROVE RowHeld'
    BY <1>0, <1>1 DEF RowHeld, Goto
\* A session without a row ends.
<1>2. ASSUME NEW p \in Procs, EndSession(p), pc[p] \notin Holding,
             UNCHANGED <<mailboxOf, mailboxRow>>
      PROVE RowHeld'
    BY <1>0, <1>2 DEF RowHeld, EndSession, Holding
\* A session ends and frees its row.
<1>3. ASSUME NEW p \in Procs, EndSession(p), FreeRows(p), UNCHANGED mailboxOf
      PROVE RowHeld'
    BY <1>0, <1>3 DEF RowHeld, EndSession, FreeRows, Holding
\* A session gets the row of its mailbox.
<1>4. ASSUME NEW p \in Procs, NEW point \in Holding, pc[p] \notin {"idle", "recover"},
             mailboxRow[mailboxOf[cur[p]]] = None, RowTaken(mailboxOf[cur[p]], p),
             Goto(p, point), UNCHANGED <<cur, mailboxOf>>
      PROVE RowHeld'
    BY <1>0, <1>4 DEF RowHeld, RowTaken, Goto
\* A request builds a job.
<1>5. ASSUME NEW a \in Apis, NEW m \in Mailboxes, NEW orig, NEW point, point \notin Holding,
             pc[a] = "idle", BuildJob(a, m, orig), Goto(a, point), UNCHANGED mailboxRow
      PROVE RowHeld'
  <2>1. /\ cur' = [cur EXCEPT ![a] = next] /\ pc' = [pc EXCEPT ![a] = point]
        /\ mailboxOf' = [mailboxOf EXCEPT ![next] = m]
        /\ \A q \in Procs : cur[q] # next
        /\ pc[a] \notin Holding
      BY <1>0, <1>5 DEF Built, BuildJob, Goto, TypeOK, NoJob, Holding
  <2>2. \A q \in Procs : q # a /\ pc[q] \in Holding => mailboxOf'[cur[q]] = mailboxOf[cur[q]]
      BY <1>0, <2>1 DEF Holding
  <2>3. \A q \in Procs : pc'[q] \in Holding => mailboxRow'[mailboxOf'[cur'[q]]] = q
      BY <1>0, <1>5, <2>1, <2>2 DEF RowHeld
  <2>4. ASSUME NEW n \in Mailboxes, mailboxRow[n] # None
        PROVE  pc'[mailboxRow[n]] \in Holding /\ mailboxOf'[cur'[mailboxRow[n]]] = n
      BY <1>0, <1>5, <2>1, <2>2, <2>4 DEF RowHeld
  <2> QED BY <1>5, <2>3, <2>4 DEF RowHeld
<1>6. ASSUME NEW a \in Apis, NEW m \in Mailboxes, EnqueueRead(a, m) \/ DirectRead(a, m)
      PROVE RowHeld'
    BY <1>5, <1>6 DEF EnqueueRead, DirectRead, Holding
<1>7. ASSUME NEW a \in Apis, NEW j \in Jobs, RetryRead(a, j) PROVE RowHeld'
  <2>1. mailboxOf[j] \in Mailboxes
      BY <1>7 DEF RetryRead, MayRetry, Built
  <2> QED BY <1>5, <1>7, <2>1 DEF RetryRead, Holding
<1>8. ASSUME NEW a \in Apis, NEW j \in Jobs, StatusRead(a, j) PROVE RowHeld'
    BY <1>0, <1>1, <1>8 DEF StatusRead, Holding
<1>9. ASSUME NEW a \in Apis, ApiStep(a) PROVE RowHeld'
  <2>1. CASE Publish(a) \/ Send(a) \/ SendFails(a) \/ RetrySend(a)
      BY <1>0, <1>1, <2>1 DEF Publish, Send, SendFails, RetrySend, Holding
  <2>2. CASE DirectFlush(a)
      BY <1>0, <1>4, <2>2 DEF DirectFlush, Holding
  <2>3. CASE Mark(a) \/ RetrySendFails(a) \/ RetryCommit(a) \/ Recover(a)
      BY <1>0, <1>2, <2>3 DEF Mark, RetrySendFails, RetryCommit, Recover, Holding
  <2> QED BY <1>9, <2>1, <2>2, <2>3 DEF ApiStep
<1>10. ASSUME NEW w \in Workers, NEW j \in Jobs, IgnoreTask(w, j) PROVE RowHeld'
    BY <1>10 DEF IgnoreTask, RowHeld
<1>11. ASSUME NEW w \in Workers, NEW j \in Jobs, TakeTask(w, j) PROVE RowHeld'
    BY <1>0, <1>11 DEF TakeTask, Goto, RowHeld, Holding
<1>12. ASSUME NEW w \in Workers, WorkerStep(w) PROVE RowHeld'
  <2>1. CASE LockConflict(w)
      BY <1>0, <1>2, <2>1 DEF LockConflict, Holding
  <2>2. CASE AcquireLock(w) \/ AcquireFails(w) \/ FlushJob(w) \/ ReleaseLock(w)
      BY <1>0, <1>1, <2>2 DEF AcquireLock, AcquireFails, FlushJob, ReleaseLock, Holding
  <2>3. CASE FlushMailbox(w)
      BY <1>0, <1>4, <2>3 DEF FlushMailbox, Holding
  <2> QED BY <1>12, <2>1, <2>2, <2>3 DEF WorkerStep
<1>13. ASSUME NEW p \in Procs, NEW o \in Outcomes, Synchronise(p, o) PROVE RowHeld'
  <2>1. PICK point \in {"release", "commit"} : Goto(p, point)
      BY <1>13 DEF Synchronise
  <2> QED BY <1>1, <1>13, <2>1 DEF Synchronise, Holding
<1>14. ASSUME NEW p \in Procs, Commit(p) \/ Crash(p) PROVE RowHeld'
    BY <1>3, <1>14 DEF Commit, Crash
<1>15. ASSUME NEW m \in Mailboxes, ExpireLock(m) \/ SetConnected(m) PROVE RowHeld'
    BY <1>15 DEF ExpireLock, SetConnected, RowHeld
<1>16. CASE Age \/ UNCHANGED vars
    BY <1>16 DEF Age, vars, RowHeld
<1> QED
    BY <1>6, <1>7, <1>8, <1>9, <1>10, <1>11, <1>12, <1>13, <1>14, <1>15, <1>16
       DEF Next, Request, Deliver, SyncStep
-----------------------------------------------------------------------------
\* Only the owner of a key, or its time to live, removes it.
LEMMA LockStep ==
    TypeOK /\ Built /\ Built' /\ Sole /\ LockCoversSync /\ [Next]_vars => LockCoversSync'
<1> SUFFICES ASSUME TypeOK, Built, Built', Sole, LockCoversSync, [Next]_vars
             PROVE  LockCoversSync'
    OBVIOUS
<1> DEFINE Covered == {"flushMailbox", "flushJob", "syncing", "release"}
<1> USE DEF dbVars, newVars, rowVars, procVars
<1>0. /\ pc \in [Procs -> Points] /\ cur \in [Procs -> Jobs \cup {NoJob}]
      /\ mailboxOf \in [Jobs -> Mailboxes \cup {None}]
      /\ syncLock \in [Mailboxes -> Jobs \cup {NoJob}]
      /\ Apis \subseteq Procs /\ Workers \subseteq Procs /\ Apis \cap Workers = {}
      /\ next \in Nat /\ aged \in Nat /\ NoJob \notin Jobs /\ Jobs \subseteq Nat
      /\ \A p \in Procs : pc[p] \notin {"idle", "recover"} =>
             cur[p] \in Jobs /\ mailboxOf[cur[p]] \in Mailboxes
    BY ProcessAssumption, BoundAssumption DEF TypeOK, Built, Procs, Jobs, NoJob
\* Nothing happens to the locks, to the jobs of the workers or to their rows.
<1>1. ASSUME UNCHANGED <<syncLock, aged>>,
             \A w \in Workers : pc'[w] \in Covered => pc[w] \in Covered /\ cur'[w] = cur[w],
             \A p \in Procs : cur[p] \in Jobs => mailboxOf'[cur[p]] = mailboxOf[cur[p]]
      PROVE LockCoversSync'
    BY <1>0, <1>1 DEF LockCoversSync
<1>2. ASSUME NEW a \in Apis, NEW m, NEW orig, NEW point,
             BuildJob(a, m, orig), Goto(a, point), UNCHANGED <<syncLock, aged>>
      PROVE LockCoversSync'
  <2>1. /\ cur' = [cur EXCEPT ![a] = next] /\ pc' = [pc EXCEPT ![a] = point]
        /\ mailboxOf' = [mailboxOf EXCEPT ![next] = m]
        /\ \A q \in Procs : cur[q] # next
      BY <1>0, <1>2 DEF Built, BuildJob, Goto
  <2> QED BY <1>0, <1>1, <1>2, <2>1
<1>3. ASSUME NEW a \in Apis, NEW m \in Mailboxes, EnqueueRead(a, m) \/ DirectRead(a, m)
      PROVE LockCoversSync'
    BY <1>2, <1>3 DEF EnqueueRead, DirectRead
<1>4. ASSUME NEW a \in Apis, NEW j \in Jobs, RetryRead(a, j) \/ StatusRead(a, j)
      PROVE LockCoversSync'
  <2>1. CASE RetryRead(a, j)
      BY <1>2, <2>1 DEF RetryRead
  <2>2. CASE StatusRead(a, j)
      BY <1>0, <1>1, <2>2 DEF StatusRead, Goto
  <2> QED BY <1>4, <2>1, <2>2
<1>5. ASSUME NEW a \in Apis, ApiStep(a) PROVE LockCoversSync'
  <2>1. UNCHANGED <<syncLock, aged, mailboxOf>>
      BY <1>5 DEF ApiStep, Publish, Send, SendFails, Mark, DirectFlush, RetrySend,
                  RetrySendFails, RetryCommit, Recover
  <2>2. \A w \in Workers : pc'[w] = pc[w] /\ cur'[w] = cur[w]
      BY <1>0, <1>5 DEF ApiStep, Publish, Send, SendFails, Mark, DirectFlush, RetrySend,
                        RetrySendFails, RetryCommit, Recover, Goto, EndSession
  <2> QED BY <1>1, <2>1, <2>2
<1>6. ASSUME NEW w \in Workers, NEW j \in Jobs, IgnoreTask(w, j) \/ TakeTask(w, j)
      PROVE LockCoversSync'
    BY <1>0, <1>1, <1>6 DEF IgnoreTask, TakeTask, Goto
<1>7. ASSUME NEW w \in Workers, WorkerStep(w) PROVE LockCoversSync'
  <2>1. CASE AcquireLock(w)
      BY <1>0, <2>1 DEF AcquireLock, Goto, LockCoversSync
  <2>2. CASE AcquireFails(w) \/ LockConflict(w)
      BY <1>0, <1>1, <2>2 DEF AcquireFails, LockConflict, Goto, EndSession
  <2>3. CASE FlushMailbox(w) \/ FlushJob(w)
      BY <1>0, <1>1, <2>3 DEF FlushMailbox, FlushJob, Goto
  <2>4. CASE ReleaseLock(w)
    <3>1. /\ pc[w] = "release" /\ pc' = [pc EXCEPT ![w] = "commit"]
          /\ UNCHANGED <<cur, mailboxOf, aged>>
          /\ \A n \in Mailboxes : syncLock'[n] = syncLock[n] \/ syncLock[n] = cur[w]
        BY <1>0, <2>4 DEF ReleaseLock, Released, Goto
    <3>2. \A v \in Workers : v # w /\ pc[v] \in Covered => cur[v] # cur[w]
        BY <1>0, <3>1 DEF Sole, Private, Sharing
    <3> QED BY <1>0, <3>1, <3>2 DEF LockCoversSync
  <2> QED BY <1>7, <2>1, <2>2, <2>3, <2>4 DEF WorkerStep
<1>8. ASSUME NEW p \in Procs, NEW o \in Outcomes, Synchronise(p, o) PROVE LockCoversSync'
  <2>1. PICK point \in {"release", "commit"} : Goto(p, point)
      BY <1>8 DEF Synchronise
  <2>2. pc[p] = "syncing" /\ UNCHANGED <<syncLock, aged, mailboxOf, cur>>
      BY <1>8 DEF Synchronise
  <2> QED BY <1>0, <1>1, <2>1, <2>2 DEF Goto
<1>9. ASSUME NEW p \in Procs, Commit(p) \/ Crash(p) PROVE LockCoversSync'
    BY <1>0, <1>1, <1>9 DEF Commit, Crash, EndSession
<1>10. ASSUME NEW m \in Mailboxes, ExpireLock(m) PROVE LockCoversSync'
  <2>1. /\ syncLock' = [syncLock EXCEPT ![m] = NoJob] /\ syncLock[m] <= aged
        /\ UNCHANGED <<pc, cur, aged, mailboxOf>>
      BY <1>10 DEF ExpireLock
  <2>2. ASSUME NEW w \in Workers, pc[w] \in Covered, cur[w] > aged
        PROVE  syncLock'[mailboxOf[cur[w]]] = cur[w]
    <3>1. syncLock[mailboxOf[cur[w]]] = cur[w]
        BY <2>2 DEF LockCoversSync
    <3>2. cur[w] \in Nat /\ mailboxOf[cur[w]] \in Mailboxes
        BY <1>0, <2>2
    <3>3. mailboxOf[cur[w]] # m
        BY <1>0, <2>1, <2>2, <3>1, <3>2
    <3> QED BY <1>0, <2>1, <3>1, <3>2, <3>3
  <2>3. ASSUME NEW w \in Workers, pc'[w] \in Covered, cur'[w] > aged'
        PROVE  syncLock'[mailboxOf'[cur'[w]]] = cur'[w]
      BY <2>1, <2>2, <2>3
  <2> QED BY <2>3 DEF LockCoversSync
<1>11. ASSUME NEW m \in Mailboxes, SetConnected(m) PROVE LockCoversSync'
    BY <1>11 DEF SetConnected, LockCoversSync
<1>12. CASE Age
  <2>1. aged' = aged + 1 /\ UNCHANGED <<pc, cur, mailboxOf, syncLock>>
      BY <1>12 DEF Age
  <2>2. \A w \in Workers : pc[w] \in Covered => cur[w] \in Nat
      BY <1>0
  <2>3. ASSUME NEW w \in Workers, pc'[w] \in Covered, cur'[w] > aged'
        PROVE  syncLock'[mailboxOf'[cur'[w]]] = cur'[w]
    <3>1. pc[w] \in Covered /\ cur[w] > aged
        BY <1>0, <2>1, <2>2, <2>3
    <3> QED BY <2>1, <3>1 DEF LockCoversSync
  <2> QED BY <2>3 DEF LockCoversSync
<1>13. CASE UNCHANGED vars
    BY <1>13 DEF vars, LockCoversSync
<1> QED
    BY <1>3, <1>4, <1>5, <1>6, <1>7, <1>8, <1>9, <1>10, <1>11, <1>12, <1>13
       DEF Next, Request, Deliver, SyncStep
-----------------------------------------------------------------------------
\* The committed status of the job a session has, or is about to fail: a row
\* is not read by others before its request commits it, nobody but that
\* request takes it from pending_dispatch, and what a worker took as queued can
\* only have been failed since.
Stage ==
    /\ \A a \in Apis :
          /\ pc[a] \in {"publish", "retrySend", "retryCommit", "directFlush", "syncing",
                        "commit"} => status[cur[a]] = "absent"
          /\ pc[a] \in {"send", "mark", "markFailed"} => status[cur[a]] = "pending_dispatch"
    /\ \A w \in Workers :
          /\ pc[w] \in {"idle", "syncing", "commit"} \cup WorkerPoints
          /\ pc[w] # "idle" => status[cur[w]] \in {"queued", "failed"}
    /\ \A p \in Procs :
          victim[p] # NoJob => status[victim[p]] \in {"queued", "succeeded", "failed"}

LEMMA StageStep == TypeOK /\ Built /\ Sole /\ Stage /\ [Next]_vars => Stage'
<1> SUFFICES ASSUME TypeOK, Built, Sole, Stage, [Next]_vars PROVE Stage'
    OBVIOUS
<1> USE DEF dbVars, newVars, rowVars, procVars
<1>0. /\ pc \in [Procs -> Points] /\ cur \in [Procs -> Jobs \cup {NoJob}]
      /\ victim \in [Procs -> Jobs \cup {NoJob}]
      /\ status \in [Jobs -> Statuses \ {"running"}]
      /\ Apis \subseteq Procs /\ Workers \subseteq Procs /\ Apis \cap Workers = {}
      /\ Procs = Apis \cup Workers
      /\ next \in Nat /\ NoJob \notin Jobs /\ Jobs \subseteq Nat
      /\ \A p \in Procs : pc[p] \notin {"idle", "recover"} => cur[p] \in Jobs
      /\ \A a, b \in Apis : a # b /\ cur[a] = cur[b] => cur[a] = NoJob
    BY ProcessAssumption, BoundAssumption DEF TypeOK, Built, Sole, Procs, Jobs, NoJob
\* A request, or a worker, goes on, and no committed row changes.
<1>1. ASSUME NEW p \in Procs, NEW to, Goto(p, to), UNCHANGED <<status, cur, victim>>,
             \/ /\ pc[p] \in {"directFlush", "retrySend", "syncing"}
                /\ to \in {"syncing", "retryCommit", "commit"} /\ p \in Apis
             \/ pc[p] = "send" /\ to \in {"mark", "markFailed"} /\ p \in Apis
             \/ p \in Workers /\ pc[p] # "idle" /\ to \in {"syncing", "commit"} \cup WorkerPoints
      PROVE Stage'
    BY <1>0, <1>1 DEF Stage, Goto
\* A session ends, and no committed row changes.
<1>2. ASSUME NEW p \in Procs, EndSession(p), UNCHANGED status
      PROVE Stage'
    BY <1>0, <1>2 DEF Stage, EndSession
\* A request ends and commits its job.
<1>3. ASSUME NEW a \in Apis, EndSession(a),
             pc[a] \in {"mark", "markFailed", "retryCommit", "commit"},
             NEW s, status' = [status EXCEPT ![cur[a]] = s]
      PROVE Stage'
  <2>1. status[cur[a]] \in {"absent", "pending_dispatch"}
      BY <1>3 DEF Stage
  <2>2. \A q \in Procs : q # a => cur[q] # cur[a] \/ pc[q] \in {"idle", "recover"}
      BY <1>0, <1>3, <2>1 DEF Stage
  <2>3. \A q \in Procs : victim[q] # cur[a]
      BY <1>0, <1>3, <2>1 DEF Stage
  <2> QED BY <1>0, <1>3, <2>2, <2>3 DEF Stage, EndSession
\* A session ends and fails a job that was queued.
<1>4. ASSUME NEW p \in Procs, EndSession(p), NEW j \in Jobs \cup {NoJob},
             j # NoJob => status[j] \in {"queued", "succeeded", "failed"}, Fail(j)
      PROVE Stage'
  <2>1. \A k \in Jobs : status'[k] = status[k] \/ (k = j /\ status'[k] = "failed")
      BY <1>0, <1>4 DEF Fail
  <2>2. \A a \in Apis : /\ pc'[a] # "idle" => pc'[a] = pc[a] /\ cur'[a] = cur[a]
                        /\ cur[a] \in Jobs /\ status[cur[a]] \in {"absent", "pending_dispatch"}
                             => status'[cur[a]] = status[cur[a]]
      BY <1>0, <1>4, <2>1 DEF EndSession
  <2>3. \A w \in Workers : pc'[w] # "idle" =>
              /\ pc'[w] = pc[w] /\ cur'[w] = cur[w] /\ cur[w] \in Jobs \cup {NoJob}
              /\ cur[w] \in Jobs => status'[cur[w]] \in {status[cur[w]], "failed"}
      BY <1>0, <1>4, <2>1 DEF EndSession
  <2>4. \A q \in Procs : victim'[q] # NoJob =>
              victim'[q] = victim[q] /\ status'[victim[q]] \in {status[victim[q]], "failed"}
      BY <1>0, <1>4, <2>1 DEF EndSession
  <2>5. \A w \in Workers : pc[w] # "idle" => cur[w] \in Jobs
      BY <1>0 DEF Stage, WorkerPoints
  <2>6. \A a \in Apis : pc[a] \in {"publish", "retrySend", "retryCommit", "directFlush",
              "syncing", "commit", "send", "mark", "markFailed"} => cur[a] \in Jobs
      BY <1>0
  <2>7. ASSUME NEW a \in Apis
        PROVE  /\ pc'[a] \in {"publish", "retrySend", "retryCommit", "directFlush", "syncing",
                            "commit"} => status'[cur'[a]] = "absent"
               /\ pc'[a] \in {"send", "mark", "markFailed"} => status'[cur'[a]] = "pending_dispatch"
    <3>1. pc'[a] # "idle" => pc'[a] = pc[a] /\ cur'[a] = cur[a]
        BY <2>2
    <3>2. pc[a] \in {"publish", "retrySend", "retryCommit", "directFlush", "syncing",
                    "commit"} => status[cur[a]] = "absent" /\ status'[cur[a]] = status[cur[a]]
        BY <2>2, <2>6 DEF Stage
    <3>3. pc[a] \in {"send", "mark", "markFailed"} =>
             status[cur[a]] = "pending_dispatch" /\ status'[cur[a]] = status[cur[a]]
        BY <2>2, <2>6 DEF Stage
    <3> QED BY <3>1, <3>2, <3>3
  <2>8. ASSUME NEW w \in Workers
        PROVE  /\ pc'[w] \in {"idle", "syncing", "commit"} \cup WorkerPoints
               /\ pc'[w] # "idle" => status'[cur'[w]] \in {"queued", "failed"}
      BY <2>3, <2>5, <2>8 DEF Stage
  <2>9. \A q \in Procs :
           victim'[q] # NoJob => status'[victim'[q]] \in {"queued", "succeeded", "failed"}
      BY <2>4 DEF Stage
  <2> QED BY <2>7, <2>8, <2>9 DEF Stage
\* A request builds a job.
<1>5. ASSUME NEW a \in Apis, NEW m, NEW orig, NEW v \in Jobs \cup {NoJob},
             v # NoJob => status[v] \in {"queued", "succeeded", "failed"},
             BuildJob(a, m, orig), victim' = [victim EXCEPT ![a] = v], UNCHANGED status,
             NEW to \in {"publish", "directFlush", "retrySend"}, Goto(a, to)
      PROVE Stage'
  <2>1. /\ cur' = [cur EXCEPT ![a] = next] /\ pc' = [pc EXCEPT ![a] = to]
        /\ next \in Jobs /\ status[next] = "absent"
      BY <1>0, <1>5, BoundAssumption DEF BuildJob, Built, Goto, TypeOK, Jobs
  <2> QED BY <1>0, <1>5, <2>1 DEF Stage
<1>6. ASSUME NEW a \in Apis, NEW m \in Mailboxes, EnqueueRead(a, m) \/ DirectRead(a, m)
      PROVE Stage'
  <2>1. CASE EnqueueRead(a, m)
    <3>1. PICK v \in Jobs \cup {NoJob} : /\ v # NoJob => status[v] = "queued"
                                         /\ victim' = [victim EXCEPT ![a] = v]
        BY <1>0, <2>1 DEF EnqueueRead, ActiveJobs, IsStale, TypeOK
    <3> QED BY <1>5, <2>1, <3>1 DEF EnqueueRead
  <2>2. CASE DirectRead(a, m)
    <3>1. /\ victim' = [victim EXCEPT ![a] = victim[a]]
          /\ victim[a] # NoJob => status[victim[a]] \in {"queued", "succeeded", "failed"}
        BY <1>0, <2>2 DEF DirectRead, Stage
    <3> QED BY <1>0, <1>5, <2>2, <3>1 DEF DirectRead
  <2> QED BY <1>6, <2>1, <2>2
<1>7. ASSUME NEW a \in Apis, NEW j \in Jobs, RetryRead(a, j) \/ StatusRead(a, j)
      PROVE Stage'
  <2>1. CASE RetryRead(a, j)
    <3>1. /\ victim' = [victim EXCEPT ![a] = victim[a]]
          /\ victim[a] # NoJob => status[victim[a]] \in {"queued", "succeeded", "failed"}
        BY <1>0, <2>1 DEF RetryRead, Stage
    <3> QED BY <1>0, <1>5, <2>1, <3>1 DEF RetryRead
  <2>2. CASE StatusRead(a, j)
    <3>1. status[j] = "queued" /\ UNCHANGED <<status, cur>>
        BY <1>0, <2>2 DEF StatusRead, IsStale
    <3> QED BY <1>0, <2>2, <3>1 DEF StatusRead, Stage, Goto
  <2> QED BY <1>7, <2>1, <2>2
<1>8. ASSUME NEW a \in Apis, Publish(a) PROVE Stage'
  <2>1. /\ pc[a] = "publish" /\ pc' = [pc EXCEPT ![a] = "send"]
        /\ status[cur[a]] = "absent" /\ cur[a] \in Jobs /\ UNCHANGED <<cur, victim>>
      BY <1>0, <1>8 DEF Publish, Goto, Stage
  <2>2. \A q \in Procs : /\ victim[q] # cur[a]
                         /\ q # a => cur[q] # cur[a] \/ pc[q] \in {"idle", "recover"}
      BY <1>0, <2>1 DEF Stage
  <2>3. /\ status'[cur[a]] = "pending_dispatch"
        /\ \A k \in Jobs : k # cur[a] =>
              \/ status'[k] = status[k]
              \/ /\ k = victim[a] /\ status'[k] = "failed"
                 /\ status[k] \in {"queued", "succeeded", "failed"}
      BY <1>0, <1>8, <2>1 DEF Publish, Stage
  <2>4. \A b \in Apis : b # a =>
           /\ pc'[b] = pc[b]
           /\ pc[b] \notin {"idle", "recover"} /\ status[cur[b]] \in {"absent", "pending_dispatch"}
                 => status'[cur[b]] = status[cur[b]]
      BY <1>0, <2>1, <2>2, <2>3
  <2>5. \A w \in Workers :
           /\ pc'[w] = pc[w]
           /\ pc[w] # "idle" => status'[cur[w]] \in {"queued", "failed"}
      BY <1>0, <2>1, <2>2, <2>3 DEF Stage, WorkerPoints
  <2>6. \A q \in Procs :
           victim[q] # NoJob => status'[victim[q]] \in {"queued", "succeeded", "failed"}
    <3>1. \A q \in Procs : victim[q] # NoJob =>
             victim[q] \in Jobs /\ status[victim[q]] \in {"queued", "succeeded", "failed"}
        BY <1>0 DEF Stage
    <3> QED BY <2>2, <2>3, <3>1
  <2> QED BY <1>0, <2>1, <2>3, <2>4, <2>5, <2>6 DEF Stage
<1>9. ASSUME NEW a \in Apis, ApiStep(a) PROVE Stage'
  <2>1. CASE Send(a) \/ SendFails(a) \/ RetrySend(a) \/ DirectFlush(a)
      BY <1>0, <1>1, <2>1 DEF Send, SendFails, RetrySend, DirectFlush
  <2>2. CASE Mark(a) \/ RetryCommit(a)
      BY <1>3, <2>2 DEF Mark, RetryCommit
  <2>3. CASE RetrySendFails(a)
      BY <1>0, <1>2, <2>3 DEF RetrySendFails
  <2>4. CASE Recover(a)
      BY <1>0, <1>4, <2>4 DEF Recover, Stage
  <2> QED BY <1>8, <1>9, <2>1, <2>2, <2>3, <2>4 DEF ApiStep
<1>10. ASSUME NEW w \in Workers, NEW j \in Jobs, IgnoreTask(w, j) \/ TakeTask(w, j)
      PROVE Stage'
  <2>1. CASE IgnoreTask(w, j)
      BY <2>1 DEF IgnoreTask, Stage
  <2>2. CASE TakeTask(w, j)
      BY <1>0, <2>2 DEF TakeTask, Executable, Goto, Stage, WorkerPoints
  <2> QED BY <1>10, <2>1, <2>2
<1>11. ASSUME NEW w \in Workers, WorkerStep(w) PROVE Stage'
  <2>1. CASE LockConflict(w)
      BY <1>0, <1>4, <2>1 DEF LockConflict, Stage
  <2>2. CASE \/ AcquireLock(w) \/ AcquireFails(w)
             \/ FlushMailbox(w) \/ FlushJob(w) \/ ReleaseLock(w)
      BY <1>0, <1>1, <2>2
         DEF AcquireLock, AcquireFails, FlushMailbox, FlushJob, ReleaseLock, WorkerPoints
  <2> QED BY <1>11, <2>1, <2>2 DEF WorkerStep
<1>12. ASSUME NEW p \in Procs, NEW o \in Outcomes, Synchronise(p, o) PROVE Stage'
  <2>1. /\ Goto(p, IF p \in Workers THEN "release" ELSE "commit")
        /\ pc[p] = "syncing" /\ UNCHANGED <<status, cur, victim>>
      BY <1>12 DEF Synchronise
  <2>2. CASE p \in Workers
      BY <1>0, <1>1, <2>1, <2>2 DEF WorkerPoints
  <2>3. CASE p \in Apis
      BY <1>0, <1>1, <2>1, <2>3
  <2> QED BY <1>0, <2>2, <2>3
<1>13. ASSUME NEW p \in Procs, Commit(p) PROVE Stage'
  <2>1. /\ pc[p] = "commit" /\ EndSession(p) /\ cur[p] \in Jobs
        /\ \/ status' = status
           \/ status' = [status EXCEPT ![cur[p]] = "failed"]
           \/ status' = [status EXCEPT ![cur[p]] = "succeeded"]
      BY <1>0, <1>13 DEF Commit
  <2>2. CASE p \in Apis
      BY <1>2, <1>3, <2>1, <2>2
  <2>3. CASE p \in Workers /\ status' = [status EXCEPT ![cur[p]] = "failed"]
      BY <1>0, <1>4, <2>1, <2>3 DEF Stage, Fail
  <2>4. CASE p \in Workers /\ status' = [status EXCEPT ![cur[p]] = "succeeded"]
    <3>1. status[cur[p]] \in {"queued", "failed"}
        BY <2>1, <2>4 DEF Stage
    <3>2. \A w \in Workers : w # p => cur[w] # cur[p] \/ pc[w] = "idle"
        BY <1>0, <2>1, <2>4 DEF Stage, Sole, Private, Sharing, WorkerPoints
    <3> QED BY <1>0, <2>1, <2>4, <3>1, <3>2 DEF Stage, EndSession
  <2> QED BY <1>0, <1>2, <2>1, <2>2, <2>3, <2>4
<1>14. ASSUME NEW p \in Procs, Crash(p) PROVE Stage'
    BY <1>2, <1>14 DEF Crash
<1>15. ASSUME NEW m \in Mailboxes, ExpireLock(m) \/ SetConnected(m) PROVE Stage'
    BY <1>15 DEF ExpireLock, SetConnected, Stage
<1>16. CASE Age \/ UNCHANGED vars
    BY <1>16 DEF Age, vars, Stage
<1> QED
    BY <1>6, <1>7, <1>9, <1>10, <1>11, <1>12, <1>13, <1>14, <1>15, <1>16
       DEF Next, Request, Deliver, SyncStep

\* One step of the system takes a committed status one step of LifeSteps.
StatusStep ==
    \A j \in Jobs : status'[j] # status[j] => <<status[j], status'[j]>> \in LifeSteps

LEMMA LifeStep == TypeOK /\ Built /\ Stage /\ [Next]_vars => StatusStep
<1> SUFFICES ASSUME TypeOK, Built, Stage, [Next]_vars PROVE StatusStep
    OBVIOUS
<1> USE DEF dbVars, newVars, rowVars, procVars
<1>0. /\ status \in [Jobs -> Statuses \ {"running"}]
      /\ Apis \subseteq Procs /\ Workers \subseteq Procs /\ Procs = Apis \cup Workers
      /\ cur \in [Procs -> Jobs \cup {NoJob}] /\ NoJob \notin Jobs
    BY BoundAssumption DEF TypeOK, Procs, Jobs, NoJob
<1>1. CASE UNCHANGED status
    BY <1>1 DEF StatusStep
\* The status of one job changes.
<1>2. ASSUME NEW j \in Jobs \cup {NoJob}, NEW s, status' = [status EXCEPT ![j] = s],
             j # NoJob => status[j] = s \/ <<status[j], s>> \in LifeSteps
      PROVE StatusStep
    BY <1>0, <1>2 DEF StatusStep
<1>3. ASSUME NEW a \in Apis, ApiStep(a) PROVE StatusStep
  <2>1. CASE Publish(a)
    <3> SUFFICES ASSUME NEW j \in Jobs, status'[j] # status[j]
                 PROVE  <<status[j], status'[j]>> \in LifeSteps
        BY DEF StatusStep
    <3>1. CASE j = cur[a]
      <4>1. status[j] = "absent" /\ status'[j] = "pending_dispatch"
          BY <1>0, <2>1, <3>1 DEF Publish, Stage
      <4> QED BY <4>1 DEF LifeSteps
    <3>2. CASE j # cur[a]
      <4>1. j = victim[a] /\ status'[j] = "failed" /\ victim[a] # NoJob
          BY <1>0, <2>1, <3>2 DEF Publish
      <4>2. status[j] \in {"queued", "succeeded", "failed"}
          BY <1>0, <4>1 DEF Stage
      <4> QED BY <4>1, <4>2 DEF LifeSteps
    <3> QED BY <3>1, <3>2
  <2>2. CASE Mark(a)
    <3>1. cur[a] \in Jobs /\ status[cur[a]] = "pending_dispatch"
        BY <1>0, <2>2 DEF Mark, Stage, Built
    <3>2. PICK s \in {"queued", "dispatch_failed"} : status' = [status EXCEPT ![cur[a]] = s]
        BY <2>2 DEF Mark
    <3> QED BY <1>2, <3>1, <3>2 DEF LifeSteps
  <2>3. CASE RetryCommit(a)
    <3>1. cur[a] \in Jobs /\ status[cur[a]] = "absent"
        BY <1>0, <2>3 DEF RetryCommit, Stage, Built
    <3> QED BY <1>2, <2>3, <3>1 DEF RetryCommit, LifeSteps
  <2>4. CASE Recover(a)
    <3>1. /\ victim[a] \in Jobs \cup {NoJob}
          /\ victim[a] # NoJob => status[victim[a]] \in {"queued", "succeeded", "failed"}
        BY <1>0 DEF Stage, TypeOK
    <3> QED BY <1>2, <2>4, <3>1 DEF Recover, Fail, LifeSteps
  <2>5. CASE Send(a) \/ SendFails(a) \/ DirectFlush(a) \/ RetrySend(a) \/ RetrySendFails(a)
      BY <1>1, <2>5 DEF Send, SendFails, DirectFlush, RetrySend, RetrySendFails
  <2> QED BY <1>3, <2>1, <2>2, <2>3, <2>4, <2>5 DEF ApiStep
<1>4. ASSUME NEW w \in Workers, WorkerStep(w) PROVE StatusStep
  <2>1. CASE LockConflict(w)
    <3>1. cur[w] \in Jobs \cup {NoJob} /\ status[cur[w]] \in {"queued", "failed"}
        BY <1>0, <2>1 DEF LockConflict, Stage
    <3> QED BY <1>2, <2>1, <3>1 DEF LockConflict, Fail, LifeSteps
  <2>2. CASE \/ AcquireLock(w) \/ AcquireFails(w)
             \/ FlushMailbox(w) \/ FlushJob(w) \/ ReleaseLock(w)
      BY <1>1, <2>2 DEF AcquireLock, AcquireFails, FlushMailbox, FlushJob, ReleaseLock
  <2> QED BY <1>4, <2>1, <2>2 DEF WorkerStep
<1>5. ASSUME NEW p \in Procs, Commit(p) PROVE StatusStep
  <2>1. cur[p] \in Jobs \cup {NoJob} /\ status[cur[p]] \in {"absent", "queued", "failed"}
      BY <1>0, <1>5 DEF Commit, Stage
  <2>2. CASE UNCHANGED status
      BY <1>1, <2>2
  <2>3. ASSUME NEW s \in {"succeeded", "failed"}, status' = [status EXCEPT ![cur[p]] = s]
        PROVE  StatusStep
    <3>1. status[cur[p]] = s \/ <<status[cur[p]], s>> \in LifeSteps
        BY <2>1, <2>3 DEF LifeSteps
    <3> QED BY <1>2, <2>1, <2>3, <3>1
  <2> QED BY <1>5, <2>2, <2>3 DEF Commit
<1>6. ASSUME NEW a \in Apis, Request(a) PROVE StatusStep
    BY <1>1, <1>6 DEF Request, EnqueueRead, DirectRead, RetryRead, StatusRead
<1>7. ASSUME NEW w \in Workers, Deliver(w) PROVE StatusStep
    BY <1>1, <1>7 DEF Deliver, IgnoreTask, TakeTask
<1>8. ASSUME NEW p \in Procs, (\E o \in Outcomes : Synchronise(p, o)) \/ Crash(p)
      PROVE StatusStep
    BY <1>1, <1>8 DEF Synchronise, Crash
<1>9. ASSUME NEW m \in Mailboxes, ExpireLock(m) \/ SetConnected(m) PROVE StatusStep
    BY <1>1, <1>9 DEF ExpireLock, SetConnected
<1>10. CASE Age \/ UNCHANGED vars
    BY <1>1, <1>10 DEF Age, vars
<1> QED
    BY <1>3, <1>4, <1>5, <1>6, <1>7, <1>8, <1>9, <1>10 DEF Next, SyncStep

-----------------------------------------------------------------------------
\* A message that names a row nobody else can read is sent by a retry.
Retrying ==
    /\ \A a \in Apis : pc[a] \in {"retrySend", "retryCommit"} => retryOf[cur[a]] # NoJob
    /\ OrphansAreRetries

LEMMA RetryingStep ==
    TypeOK /\ Built /\ Retrying /\ StatusStep /\ [Next]_vars => Retrying'
<1> SUFFICES ASSUME TypeOK, Built, Retrying, StatusStep, [Next]_vars PROVE Retrying'
    OBVIOUS
<1> USE DEF dbVars, newVars, rowVars, procVars
<1>0. /\ pc \in [Procs -> Points] /\ cur \in [Procs -> Jobs \cup {NoJob}]
      /\ retryOf \in [Jobs -> Jobs \cup {NoJob}] /\ tasks \subseteq Jobs
      /\ Apis \subseteq Procs /\ Workers \subseteq Procs /\ Apis \cap Workers = {}
      /\ NoJob \notin Jobs /\ Jobs \subseteq Nat /\ next \in Nat
    BY ProcessAssumption, BoundAssumption DEF TypeOK, Procs, Jobs, NoJob
<1>9. /\ next \notin tasks /\ \A q \in Procs : cur[q] # next
       /\ \A a \in Apis : pc[a] \in {"retrySend", "retryCommit"} => cur[a] \in Jobs
    BY <1>0 DEF Built
\* A committed row stays one.
<1>1. \A j \in Jobs : status'[j] = "absent" => status[j] = "absent"
    BY DEF StatusStep, LifeSteps
\* No request becomes a retry, and every new message names a retry or a
\* committed row.
<1>2. ASSUME UNCHANGED retryOf,
             \A a \in Apis : pc'[a] \in {"retrySend", "retryCommit"} =>
                 pc[a] \in {"retrySend", "retryCommit"} /\ cur'[a] = cur[a],
             \A j \in tasks' \ tasks : status[j] # "absent" \/ retryOf[j] # NoJob,
             tasks' \subseteq Jobs
      PROVE Retrying'
    BY <1>0, <1>9, <1>1, <1>2 DEF Retrying, OrphansAreRetries
\* A request builds a job.
<1>3. ASSUME NEW a \in Apis, NEW m, NEW orig,
             NEW to \in {"publish", "directFlush", "retrySend"},
             BuildJob(a, m, orig), Goto(a, to), tasks' = tasks,
             to = "retrySend" => orig # NoJob
      PROVE Retrying'
  <2>1. /\ cur' = [cur EXCEPT ![a] = next] /\ pc' = [pc EXCEPT ![a] = to]
        /\ retryOf' = [retryOf EXCEPT ![next] = orig] /\ next \in Jobs
      BY <1>3, BoundAssumption DEF BuildJob, Goto, TypeOK, Jobs
  <2> QED BY <1>0, <1>9, <1>1, <1>3, <2>1 DEF Retrying, OrphansAreRetries
<1>4. ASSUME NEW a \in Apis, Request(a) PROVE Retrying'
  <2>1. ASSUME NEW m \in Mailboxes, EnqueueRead(a, m) \/ DirectRead(a, m) PROVE Retrying'
    <3>1. CASE EnqueueRead(a, m)
      <4>1. BuildJob(a, m, NoJob) /\ Goto(a, "publish") /\ UNCHANGED tasks
          BY <3>1 DEF EnqueueRead
      <4> QED BY <1>3, <4>1
    <3>2. CASE DirectRead(a, m)
      <4>1. BuildJob(a, m, NoJob) /\ Goto(a, "directFlush") /\ UNCHANGED tasks
          BY <3>2 DEF DirectRead
      <4> QED BY <1>3, <4>1
    <3> QED BY <2>1, <3>1, <3>2
  <2>2. ASSUME NEW j \in Jobs, RetryRead(a, j) PROVE Retrying'
      BY <1>0, <1>9, <1>3, <2>2 DEF RetryRead
  <2>3. ASSUME NEW j \in Jobs, StatusRead(a, j) PROVE Retrying'
      BY <1>0, <1>9, <1>2, <2>3 DEF StatusRead, Goto
  <2> QED BY <1>4, <2>1, <2>2, <2>3 DEF Request
<1>5. ASSUME NEW a \in Apis, ApiStep(a) PROVE Retrying'
  <2>1. CASE Publish(a) \/ DirectFlush(a)
      BY <1>0, <1>9, <1>2, <2>1 DEF Publish, DirectFlush, Goto
  <2>2. CASE Send(a) \/ SendFails(a)
    <3>1. /\ status[cur[a]] = "pending_dispatch" /\ tasks' \subseteq tasks \cup {cur[a]}
          /\ UNCHANGED <<retryOf, cur>>
          /\ \A b \in Apis : pc'[b] \in {"retrySend", "retryCommit"} => pc'[b] = pc[b]
        BY <1>0, <2>2 DEF Send, SendFails, Goto
    <3>2. cur[a] \in Jobs
        BY <1>0, <2>2 DEF Send, SendFails, Built
    <3> QED BY <1>0, <1>2, <3>1, <3>2
  <2>3. CASE RetrySend(a) \/ RetrySendFails(a)
    <3>1. pc[a] = "retrySend" /\ cur[a] \in Jobs /\ retryOf[cur[a]] # NoJob
        BY <1>0, <1>9, <2>3 DEF RetrySend, RetrySendFails, Retrying
    <3> QED BY <1>0, <1>9, <1>2, <2>3, <3>1 DEF RetrySend, RetrySendFails, Goto, EndSession
  <2>4. CASE Mark(a) \/ RetryCommit(a) \/ Recover(a)
      BY <1>0, <1>9, <1>2, <2>4 DEF Mark, RetryCommit, Recover, EndSession
  <2> QED BY <1>5, <2>1, <2>2, <2>3, <2>4 DEF ApiStep
<1>6. ASSUME NEW w \in Workers, Deliver(w) \/ WorkerStep(w) PROVE Retrying'
  <2>1. UNCHANGED retryOf /\ tasks' \subseteq tasks
      BY <1>6 DEF Deliver, IgnoreTask, TakeTask, Acknowledged, WorkerStep, AcquireLock,
                  AcquireFails, LockConflict, FlushMailbox, FlushJob, ReleaseLock
  <2>2. \A a \in Apis : pc'[a] = pc[a] /\ cur'[a] = cur[a]
      BY <1>0, <1>9, <1>6 DEF Deliver, IgnoreTask, TakeTask, WorkerStep, AcquireLock, AcquireFails,
                        LockConflict, FlushMailbox, FlushJob, ReleaseLock, Goto, EndSession
  <2> QED BY <1>0, <1>9, <1>2, <2>1, <2>2
<1>7. ASSUME NEW p \in Procs, SyncStep(p) \/ Crash(p) PROVE Retrying'
  <2>1. UNCHANGED <<retryOf, tasks>>
      BY <1>7 DEF SyncStep, Synchronise, Commit, Crash
  <2>2. ASSUME NEW a \in Apis, pc'[a] \in {"retrySend", "retryCommit"}
        PROVE  pc[a] = pc'[a] /\ cur'[a] = cur[a]
      BY <1>0, <1>9, <1>7, <2>2 DEF SyncStep, Synchronise, Commit, Crash, Goto, EndSession
  <2> QED BY <1>0, <1>9, <1>2, <2>1, <2>2
<1>8. CASE Age \/ (\E m \in Mailboxes : ExpireLock(m) \/ SetConnected(m)) \/ UNCHANGED vars
  <2>1. UNCHANGED <<retryOf, tasks, pc, cur>>
      BY <1>8 DEF Age, ExpireLock, SetConnected, vars
  <2> QED BY <1>0, <1>9, <1>2, <2>1
<1> QED
    BY <1>4, <1>5, <1>6, <1>7, <1>8 DEF Next
-----------------------------------------------------------------------------
\* The inductive invariant.  None of the properties is inductive by itself:
\* SyncMutex needs to know who has which row, LockCoversSync that no other
\* session works on the job a key names, OrphansAreRetries which requests retry.
IInv == TypeOK /\ Built /\ Sole /\ RowHeld /\ LockCoversSync /\ Stage /\ Retrying

LEMMA InvInit == Init => IInv
<1> SUFFICES ASSUME Init PROVE IInv
    OBVIOUS
<1>1. /\ TypeOK /\ Built
    BY TypeInit
<1>2. Sole /\ RowHeld /\ LockCoversSync
    BY ProcessAssumption
       DEF Init, Sole, Private, Sharing, RowHeld, Holding, LockCoversSync, Procs
<1>3. Stage /\ Retrying
    BY DEF Init, Stage, Retrying, OrphansAreRetries, Procs
<1> QED BY <1>1, <1>2, <1>3 DEF IInv

LEMMA InvStep == IInv /\ [Next]_vars => IInv' /\ StatusStep
BY TypeStep, BuiltStep, SoleStep, RowStep, LockStep, StageStep, LifeStep, RetryingStep
   DEF IInv

LEMMA Invariance == Spec => []IInv
BY InvInit, InvStep, PTL DEF Spec

\* Type correctness: every variable keeps its type; in particular no chain of
\* retries is longer than MAX_JOB_RETRIES, and no committed row is running.
THEOREM TypeCorrect == Spec => []TypeOK
<1>1. IInv => TypeOK
    BY DEF IInv
<1> QED BY <1>1, Invariance, PTL

\* Two sessions never synchronise one mailbox at a time: the last_sync_at
\* flushed before the provider is called gives the session the row of the
\* mailbox, and it keeps it until it commits.
THEOREM MutualExclusion == Spec => []SyncMutex
<1>1. IInv => SyncMutex
  <2> SUFFICES ASSUME IInv, NEW m \in Mailboxes, NEW p \in Procs, NEW q \in Procs,
                      Executing(p, m), Executing(q, m)
               PROVE  p = q
      BY DEF SyncMutex
  <2>1. mailboxRow[m] = p /\ mailboxRow[m] = q
      BY DEF IInv, RowHeld, Holding, Executing
  <2> QED BY <2>1
<1> QED BY <1>1, Invariance, PTL

\* A worker owns the Redis key of its mailbox from SET NX to its own release,
\* unless the key's time to live may be over.
THEOREM LockCovers == Spec => []LockCoversSync
<1>1. IInv => LockCoversSync
    BY DEF IInv
<1> QED BY <1>1, Invariance, PTL

\* A message that names a row nobody else can read comes from a retry:
\* dispatch_pending_job commits before it sends.
THEOREM Orphans == Spec => []OrphansAreRetries
<1>1. IInv => OrphansAreRetries
    BY DEF IInv, Retrying
<1> QED BY <1>1, Invariance, PTL

\* The life of a committed status: no finished job is ever pending or queued
\* again, whoever overwrites its row, and only a job that a worker took as
\* queued, or a request built, gets an outcome.
THEOREM Lives == Spec => LifeCycle
<1>1. IInv /\ [Next]_vars => [StatusStep]_vars
    BY InvStep
<1>2. Spec => [][StatusStep]_vars
    BY <1>1, Invariance, PTL DEF Spec
<1> QED BY <1>2, PTL DEF LifeCycle, StatusStep
=============================================================================
